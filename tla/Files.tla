-------------------------------- MODULE Files --------------------------------
(* The file tools over the same files: read, edit, write, delete_file and      *)
(* apply_patch of contrib/shell/tools.py, with the provider-native editors of  *)
(* contrib/shell/native, which take their place under a native setting.        *)
(*                                                                             *)
(* A call is a task on the event loop that checks, takes the file's lock       *)
(* (_file_lock) and hands its body to a thread (asyncio.to_thread).  A cancel  *)
(* kills the task and frees the lock; the thread runs on.  What a body does to *)
(* the files is a plan: the writes and unlinks it makes one after the other,    *)
(* worked out from what it read when it started.  A file is a set of marks, an *)
(* edit swaps one mark for another.                                            *)
EXTENDS Integers, Sequences, FiniteSets

CONSTANTS
  Paths,        \* files
  Calls,        \* tool calls, each with a mark of its own that it writes
  Conv,         \* the conversation of each call
  FileRequests, \* what a call may ask for
  InitialReads, \* what a conversation may have read before
  Base,         \* the mark an existing file starts with
  None          \* no file, no holder, no request

Tools == {"read", "edit", "edit_new", "str_replace", "update_file", "write", "delete_file",
          "native_create", "native_delete", "apply_patch"}
Marks == SUBSET (Calls \cup {Base})
Operations == [kind : {"add", "delete", "update"}, path : Paths, to : Paths \cup {None}]

\* A call names one file, and where to if it moves it; a patch has one operation or two.
ASSUME FilesAssumption ==
  /\ None \notin Paths \cup Calls \cup FileRequests /\ \A marks \in Marks : None # marks
  /\ \A reads \in InitialReads : reads \subseteq Paths
  /\ \A req \in FileRequests :
       /\ req.tool \in Tools
       /\ IF req.tool = "apply_patch"
          THEN req.ops \in Seq(Operations) /\ Len(req.ops) \in 1..2 /\ req.path = None
          ELSE /\ req.path \in Paths
               /\ req.to \in IF req.tool = "update_file" THEN Paths \cup {None} ELSE {None}

VARIABLES
  files,        \* the files: a set of marks, or None
  read,         \* FileReadTracker: conversations to the paths they read
  lock,         \* _FILE_LOCKS: who holds each path's lock
  task,         \* each call's task
  thread,       \* each call's thread
  disturbed     \* history: calls whose files another call changed under way

fileVars == <<files, read, lock, task, thread, disturbed>>

Convs == {Conv[c] : c \in Calls}
NoJob == [at |-> "none", plan |-> <<>>, ok |-> TRUE, wrote |-> 0]
IdleTask == [at |-> "idle", req |-> None, existed |-> FALSE]

Write(p, marks) == [path |-> p, marks |-> marks]
Unlink(p) == [path |-> p, marks |-> None]
Swap(marks, old, c) == (marks \ {old}) \cup {c}

(* ------------------------------ what a call asks --------------------------- *)

\* The paths a request names, destination included.
PathsOf(req) ==
  IF req.tool = "apply_patch"
  THEN (UNION {{req.ops[j].path, req.ops[j].to} : j \in DOMAIN req.ops}) \ {None}
  ELSE {req.path, req.to} \ {None}

\* build_permission_requests: the resources the user is asked to approve.
Asked(req) == PathsOf(req)

(* ------------------------- what a body does to the files -------------------- *)

Refusing == [ok |-> FALSE, plan |-> <<>>]
Plan(writes) == [ok |-> TRUE, plan |-> writes]

\* ApplyPatchTool._verify of one operation; a missing target refuses the patch.
Verify(c, op) ==
  CASE op.kind = "add"    -> Plan(<<Write(op.path, {c})>>)
    [] op.kind = "delete" -> IF files[op.path] = None THEN Refusing
                             ELSE Plan(<<Unlink(op.path)>>)
    [] op.kind = "update" ->
         IF files[op.path] = None \/ Base \notin files[op.path] THEN Refusing
         ELSE LET marks == Swap(files[op.path], Base, c)
              IN IF op.to = None \/ op.to = op.path THEN Plan(<<Write(op.path, marks)>>)
                 ELSE Plan(<<Write(op.to, marks), Unlink(op.path)>>)

\* ApplyPatchTool._apply: every operation is verified before any is committed,
\* each against the file as it stands.
VerifyAll(c, ops) ==
  IF \A j \in DOMAIN ops : Verify(c, ops[j]).ok
  THEN Plan(IF Len(ops) = 1 THEN Verify(c, ops[1]).plan
            ELSE Verify(c, ops[1]).plan \o Verify(c, ops[2]).plan)
  ELSE Refusing

\* create_file and the editor's create look again under the lock: an existing
\* file must have been read.
Create(c, req) ==
  IF files[req.path] # None /\ req.path \notin read[Conv[c]] THEN Refusing
  ELSE Plan(<<Write(req.path, {c})>>)

\* What the body of each tool finds when its thread starts.
PlanOf(c) ==
  LET req == task[c].req
  IN CASE req.tool = "read" ->
            IF files[req.path] = None THEN Refusing ELSE Plan(<<>>)
       [] req.tool \in {"edit", "str_replace", "update_file"} ->
            Verify(c, [kind |-> "update", path |-> req.path, to |-> req.to])
       [] req.tool \in {"edit_new", "write"} -> Plan(<<Write(req.path, {c})>>)
       [] req.tool = "delete_file" -> Plan(<<Unlink(req.path)>>)
       [] req.tool = "native_create" -> Create(c, req)
       [] req.tool = "native_delete" -> Verify(c, [kind |-> "delete", path |-> req.path])
       [] req.tool = "apply_patch" -> VerifyAll(c, req.ops)

\* The path a body records as read when it ends well; `write` leaves that to
\* its task, delete and apply_patch record nothing.
NowRead(req) ==
  CASE req.tool \in {"delete_file", "native_delete", "apply_patch", "write"} -> {}
    [] req.tool = "update_file" /\ req.to # None -> {req.to}
    [] OTHER -> {req.path}

(* --------------------------------- the task -------------------------------- *)

\* Mutant: whether the conversation read the file is not asked.
RefusedMissing(c, req) == req.tool \in {"edit", "delete_file"} /\ files[req.path] = None

\* The checks the generic tools make before they ask for the lock.
Refused(c, req) ==
  LET exists == files[req.path] # None
      seen   == req.path \in read[Conv[c]]
  IN CASE req.tool = "edit"        -> ~exists \/ ~seen
       [] req.tool = "edit_new"    -> exists
       [] req.tool = "write"       -> exists /\ ~seen
       [] req.tool = "delete_file" -> ~exists
       [] OTHER                    -> FALSE

\* read, view and apply_patch run without a lock; a move takes its source's.
NeedsLock(req) == req.tool \notin {"read", "apply_patch"}

Begin(c) == \E req \in FileRequests :
  /\ task[c].at = "idle"
  /\ task' = [task EXCEPT ![c] =
       [at      |-> CASE Refused(c, req) -> "error"
                      [] ~Refused(c, req) /\ NeedsLock(req) -> "waiting"
                      [] OTHER -> "running",
        req     |-> req,
        existed |-> req.path # None /\ files[req.path] # None]]
  /\ thread' = [thread EXCEPT ![c] =
       IF ~Refused(c, req) /\ ~NeedsLock(req) THEN [NoJob EXCEPT !.at = "ready"] ELSE @]
  /\ UNCHANGED <<files, read, lock, disturbed>>

Acquire(c) ==
  /\ task[c].at = "waiting" /\ lock[task[c].req.path] = None
  /\ lock' = [lock EXCEPT ![task[c].req.path] = c]
  /\ task' = [task EXCEPT ![c].at = "running"]
  /\ thread' = [thread EXCEPT ![c] = [NoJob EXCEPT !.at = "ready"]]
  /\ UNCHANGED <<files, read, disturbed>>

Released(c) == [p \in Paths |-> IF lock[p] = c THEN None ELSE lock[p]]

\* The thread is over and its task resumes.
Finish(c) ==
  /\ task[c].at = "running" /\ thread[c].at = "over"
  /\ task' = [task EXCEPT ![c].at = IF thread[c].ok THEN "done" ELSE "error"]
  /\ lock' = Released(c)
  /\ read' = [read EXCEPT ![Conv[c]] =
       @ \cup IF task[c].req.tool = "write" /\ thread[c].ok THEN {task[c].req.path} ELSE {}]
  /\ UNCHANGED <<files, thread, disturbed>>

\* The runner kills the task: the lock goes, a body not yet begun never runs,
\* one that has begun goes on.
KillCall(c) ==
  /\ task[c].at \in {"waiting", "running"}
  /\ task' = [task EXCEPT ![c].at = "killed"]
  /\ thread' = [thread EXCEPT ![c] = IF @.at = "ready" THEN NoJob ELSE @]
  /\ lock' = Released(c)
  /\ UNCHANGED <<files, read, disturbed>>

(* -------------------------------- the thread ------------------------------- *)

CallOver(c, j) ==
  /\ thread' = [thread EXCEPT ![c] = [j EXCEPT !.at = "over"]]
  /\ read' = [read EXCEPT ![Conv[c]] = @ \cup IF j.ok THEN NowRead(task[c].req) ELSE {}]

\* The body reads what it needs and settles what to write.
Start(c) ==
  /\ thread[c].at = "ready"
  /\ LET found == PlanOf(c)
         j == [NoJob EXCEPT !.at = "writing", !.plan = found.plan, !.ok = found.ok]
     IN IF found.plan = <<>> THEN CallOver(c, j)
        ELSE thread' = [thread EXCEPT ![c] = j] /\ UNCHANGED read
  /\ UNCHANGED <<files, lock, task, disturbed>>

\* One write or unlink; an unlink of a file that has gone ends the body there.
Commit(c) ==
  /\ thread[c].at = "writing"
  /\ LET w    == Head(thread[c].plan)
         gone == w.marks = None /\ files[w.path] = None
         j    == [thread[c] EXCEPT !.plan  = IF gone THEN <<>> ELSE Tail(@),
                                !.ok    = ~gone,
                                !.wrote = IF gone THEN @ ELSE @ + 1]
     IN /\ files' = [files EXCEPT ![w.path] = w.marks]
        /\ IF j.plan = <<>> THEN CallOver(c, j) ELSE thread' = [thread EXCEPT ![c] = j] /\ UNCHANGED read
        /\ disturbed' = disturbed \cup
             {d \in Calls \ {c} : thread[d].at = "writing" /\ w.path \in PathsOf(task[d].req)}
  /\ UNCHANGED <<lock, task>>

FilesInit ==
  /\ files \in [Paths -> {None, {Base}}]
  /\ read \in [Convs -> InitialReads]
  /\ lock = [p \in Paths |-> None]
  /\ task = [c \in Calls |-> IdleTask]
  /\ thread = [c \in Calls |-> NoJob]
  /\ disturbed = {}

FilesNext == \E c \in Calls :
  Begin(c) \/ Acquire(c) \/ Finish(c) \/ KillCall(c) \/ Start(c) \/ Commit(c)

FilesFairness == \A c \in Calls :
  WF_fileVars(Acquire(c)) /\ WF_fileVars(Finish(c) \/ Start(c) \/ Commit(c))

FilesSpec == FilesInit /\ [][FilesNext]_fileVars /\ FilesFairness

(* -------------------------------- properties ------------------------------- *)

\* A file is marks or absent, a lock has at most one holder, a call one task and
\* one thread.
FilesTypeOK ==
  /\ files \in [Paths -> {None} \cup Marks]
  /\ read \in [Convs -> SUBSET Paths]
  /\ lock \in [Paths -> Calls \cup {None}]
  /\ \A c \in Calls :
       /\ task[c].at \in {"idle", "waiting", "running", "done", "error", "killed"}
       /\ task[c].req \in FileRequests \cup {None}
       /\ thread[c].at \in {"none", "ready", "writing", "over"}
  /\ disturbed \subseteq Calls

Writing(c, p) == thread[c].at = "writing" /\ thread'[c] # thread[c] /\ Head(thread[c].plan).path = p

\* While a call holds a file's lock nobody else writes that file, except the
\* writers no lock stops: apply_patch, a body whose task was killed, and a move
\* into the file (tools.py, _file_lock; native/openai.py, _run).
OnlyTheHolderWrites == [][\A p \in Paths, c \in Calls :
  Writing(c, p) /\ files'[p] # files[p] /\ lock[p] \notin {None, c} =>
    \/ task[c].req.tool = "apply_patch"
    \/ task[c].at = "killed"
    \/ p # task[c].req.path]_fileVars

\* A call replaces a file its conversation has not read only if the file was
\* not there when the tool looked, or another call put it there under way; an
\* Add File of apply_patch and a move look at nothing.
NoBlindOverwrite == [][\A p \in Paths, c \in Calls :
  Writing(c, p) /\ files[p] # None /\ files'[p] # None
  /\ task[c].req.tool \in {"edit", "edit_new", "write", "native_create"} =>
    \/ p \in read[Conv[c]]
    \/ task[c].req.tool \in {"edit_new", "write"} /\ ~task[c].existed
    \/ c \in disturbed]_fileVars

\* The user approved every file a call changes: the permission requests name
\* each path of the plan, destinations of moves included.
OnlyApprovedFiles == [][\A p \in Paths, c \in Calls :
  Writing(c, p) /\ files'[p] # files[p] => p \in Asked(task[c].req)]_fileVars

\* A patch that fails has changed nothing, unless its own operations share a
\* file or another call changed one of its files after it was verified.
FailedPatchChangesNothing == \A c \in Calls :
  thread[c].at = "over" /\ ~thread[c].ok /\ thread[c].wrote > 0 =>
    \/ c \in disturbed
    \/ /\ task[c].req.tool = "apply_patch"
       /\ \E i, j \in DOMAIN task[c].req.ops :
            i # j /\ {task[c].req.ops[i].path, task[c].req.ops[i].to}
                     \cap {task[c].req.ops[j].path} # {}

\* Every call ends, killed or not, and leaves no lock behind.
CallsEnd ==
  /\ \A c \in Calls : task[c].at # "idle" ~> task[c].at \in {"done", "error", "killed"}
  /\ <>[](\A p \in Paths : lock[p] = None)

\* The lock, the read-before-write rule and the approval hold together over any
\* interleaving of the tools that touch files, killed ones included.
FilesSound ==
  /\ [](FilesTypeOK /\ FailedPatchChangesNothing)
  /\ OnlyTheHolderWrites /\ NoBlindOverwrite /\ OnlyApprovedFiles

=============================================================================
