---------------------------- MODULE OutputFiles -----------------------------
(***************************************************************************)
(* How `compile --output` and `import` write their files                   *)
(* (crates/jsonrtl-cli/src/main.rs: compile_command, import_command and    *)
(* write_atomic).                                                          *)
(*                                                                         *)
(* Several CLI processes write into the same directories.  Each looks for  *)
(* existing destinations first, and then writes its files one after the    *)
(* other: a temporary file beside the target, its contents, a sync, and    *)
(* a rename (--force) or a hard link and the removal of the temporary      *)
(* name.  Any of these calls may fail, a process may be killed, and the    *)
(* machine may lose power, with the file contents it had not stored.       *)
(*                                                                         *)
(* External: the file system.  Names are separate from the files they      *)
(* stand for, so that a hard link and its temporary name share one file;   *)
(* directory operations are atomic and are kept across a power loss.       *)
(***************************************************************************)
EXTENDS Integers, Sequences

CONSTANTS
  Processes,  \* CLI processes
  Paths,      \* the destinations they may write
  Plan,       \* the destinations of each process, in the order it writes them
  Settings,   \* the ways the processes may be started: [force, pid]
  Faults      \* the system calls that may fail for an outside reason

Calls == {"create", "write", "sync", "publish", "remove"}

ASSUME OutputFilesAssumption ==
  /\ Plan \in [Processes -> Seq(Paths)]
  /\ \A p \in Processes : Len(Plan[p]) > 0
  /\ \A p \in Processes : \A i, j \in DOMAIN Plan[p] :
       Plan[p][i] = Plan[p][j] => i = j
  /\ \A s \in Settings : /\ s.force \in [Processes -> BOOLEAN]
                         /\ DOMAIN s.pid = Processes
  /\ Faults \subseteq Calls

VARIABLES
  force,     \* whether each process was given --force
  pid,       \* the process id of each; dead processes' ids are given again
  pc,        \* where each process is
  at,        \* which of its destinations it is at
  target,    \* the file each destination stands for
  temp,      \* the file each temporary name stands for
  content,   \* how much of each file is written
  stuck      \* processes whose last remove_file failed

vars == <<force, pid, pc, at, target, temp, content, stuck>>

\* A file is named after the process that wrote it and the place in its plan.
Nobody   == <<>>
Existing == <<"existing", 0>>
Files    == UNION { {<<p, i>> : i \in DOMAIN Plan[p]} : p \in Processes }

TempNames == Paths \X {pid[p] : p \in Processes}
                   \X UNION {DOMAIN Plan[p] : p \in Processes}

\* The writing of one file, in write_atomic.
Writing == {"begin", "create", "fill", "sync", "publish", "unlink", "cleanup"}
Live    == {"look"} \cup Writing

Mine(p) == <<p, at[p]>>
Goal(p) == Plan[p][at[p]]

\* The temporary name: the file name, the process id and the counter, which
\* counts the calls of write_atomic in this process.
TempName(p) == <<Goal(p), pid[p], at[p]>>

Init ==
  /\ \E s \in Settings : force = s.force /\ pid = s.pid
  /\ pc = [p \in Processes |-> "idle"]
  /\ at = [p \in Processes |-> 1]
  /\ target \in [Paths -> {Nobody, Existing}]
  /\ temp = [t \in TempNames |-> Nobody]
  /\ content = [f \in Files |-> "empty"]
  /\ stuck = {}

-----------------------------------------------------------------------------
(***************************************************************************)
(* The file system.                                                        *)
(***************************************************************************)
Exists(path)  == target[path] # Nobody
GoTo(p, s)    == pc' = [pc EXCEPT ![p] = s]
SetTemp(p, f) == temp' = [temp EXCEPT ![TempName(p)] = f]
SetTarget(p)  == target' = [target EXCEPT ![Goal(p)] = temp[TempName(p)]]

\* The call fails for a reason of its own, and changes nothing.
Broken(p, call) ==
  /\ call \in Faults
  /\ GoTo(p, "cleanup")
  /\ UNCHANGED <<at, target, temp, content, stuck>>

-----------------------------------------------------------------------------
(***************************************************************************)
(* The check made before anything is written.                              *)
(***************************************************************************)
\* A process id is not used by two live processes.
Start(p) ==
  /\ pc[p] = "idle"
  /\ \A q \in Processes : pc[q] \in Live => pid[q] # pid[p]
  /\ GoTo(p, IF force[p] THEN "begin" ELSE "look")
  /\ UNCHANGED <<at, target, temp, content, stuck>>

\* One destination after the other; the first that exists ends the run.
Look(p) ==
  /\ pc[p] = "look"
  /\ \/ /\ Exists(Goal(p))
        /\ GoTo(p, "failed")
        /\ UNCHANGED at
     \/ /\ ~Exists(Goal(p))
        /\ at[p] < Len(Plan[p])
        /\ at' = [at EXCEPT ![p] = @ + 1]
        /\ UNCHANGED pc
     \/ /\ ~Exists(Goal(p))
        /\ at[p] = Len(Plan[p])
        /\ at' = [at EXCEPT ![p] = 1]
        /\ GoTo(p, "begin")
  /\ UNCHANGED <<target, temp, content, stuck>>

-----------------------------------------------------------------------------
(***************************************************************************)
(* write_atomic.                                                           *)
(***************************************************************************)
\* path.exists() again, now for this file alone.
Begin(p) ==
  /\ pc[p] = "begin"
  /\ GoTo(p, IF Exists(Goal(p)) /\ ~force[p] THEN "failed" ELSE "create")
  /\ UNCHANGED <<at, target, temp, content, stuck>>

\* create_new: a temporary file left by a dead process of the same id is an
\* error, and the error path removes it.
Create(p) ==
  /\ pc[p] = "create"
  /\ \/ /\ temp[TempName(p)] = Nobody
        /\ SetTemp(p, Mine(p))
        /\ GoTo(p, "fill")
        /\ UNCHANGED <<at, target, content, stuck>>
     \/ /\ temp[TempName(p)] # Nobody
        /\ GoTo(p, "cleanup")
        /\ UNCHANGED <<at, target, temp, content, stuck>>
     \/ Broken(p, "create")

\* write_all: some of the contents, then all of them.
Fill(p) ==
  /\ pc[p] = "fill"
  /\ \/ /\ content[Mine(p)] = "empty"
        /\ content' = [content EXCEPT ![Mine(p)] = "partial"]
        /\ UNCHANGED <<pc, at, target, temp, stuck>>
     \/ /\ content[Mine(p)] = "partial"
        /\ content' = [content EXCEPT ![Mine(p)] = "written"]
        /\ GoTo(p, "sync")
        /\ UNCHANGED <<at, target, temp, stuck>>
     \/ Broken(p, "write")

\* Fault: the contents are not synced before the file is published.
SyncSkipped(p) ==
  /\ pc[p] = "sync"
  /\ GoTo(p, "publish")
  /\ UNCHANGED <<at, target, temp, content, stuck>>

Sync(p) ==
  /\ pc[p] = "sync"
  /\ \/ /\ content' = [content EXCEPT ![Mine(p)] = "stored"]
        /\ GoTo(p, "publish")
        /\ UNCHANGED <<at, target, temp, stuck>>
     \/ Broken(p, "sync")

\* The end of one write_atomic that succeeded.
Advance(p) ==
  IF at[p] < Len(Plan[p])
  THEN /\ at' = [at EXCEPT ![p] = @ + 1]
       /\ GoTo(p, "begin")
  ELSE /\ UNCHANGED at
       /\ GoTo(p, "done")

\* --force: rename replaces whatever is at the destination.
Rename(p) ==
  /\ pc[p] = "publish" /\ force[p]
  /\ \/ /\ temp[TempName(p)] # Nobody
        /\ SetTarget(p)
        /\ SetTemp(p, Nobody)
        /\ Advance(p)
        /\ UNCHANGED <<content, stuck>>
     \/ /\ temp[TempName(p)] = Nobody
        /\ GoTo(p, "cleanup")
        /\ UNCHANGED <<at, target, temp, content, stuck>>
     \/ Broken(p, "publish")

\* Fault: a plain rename, which replaces what came to exist since the check.
RenameAnyway(p) ==
  /\ pc[p] = "publish" /\ ~force[p]
  /\ temp[TempName(p)] # Nobody
  /\ SetTarget(p)
  /\ SetTemp(p, Nobody)
  /\ Advance(p)
  /\ UNCHANGED <<content, stuck>>

\* Fault: an existing destination is taken for one that was just written.
HardLinkToleratesExisting(p) ==
  /\ pc[p] = "publish" /\ ~force[p]
  /\ IF Exists(Goal(p)) THEN UNCHANGED target ELSE SetTarget(p)
  /\ GoTo(p, "unlink")
  /\ UNCHANGED <<at, temp, content, stuck>>

\* No --force: a hard link fails when the destination exists.
HardLink(p) ==
  /\ pc[p] = "publish" /\ ~force[p]
  /\ \/ /\ temp[TempName(p)] # Nobody /\ ~Exists(Goal(p))
        /\ SetTarget(p)
        /\ GoTo(p, "unlink")
        /\ UNCHANGED <<at, temp, content, stuck>>
     \/ /\ temp[TempName(p)] = Nobody \/ Exists(Goal(p))
        /\ GoTo(p, "cleanup")
        /\ UNCHANGED <<at, target, temp, content, stuck>>
     \/ Broken(p, "publish")

Unlink(p) ==
  /\ pc[p] = "unlink"
  /\ \/ /\ temp[TempName(p)] # Nobody
        /\ SetTemp(p, Nobody)
        /\ Advance(p)
        /\ UNCHANGED <<target, content, stuck>>
     \/ /\ temp[TempName(p)] = Nobody
        /\ GoTo(p, "cleanup")
        /\ UNCHANGED <<at, target, temp, content, stuck>>
     \/ Broken(p, "remove")

\* Fault: an error leaves the temporary file.
CleanupNothing(p) ==
  /\ pc[p] = "cleanup"
  /\ GoTo(p, "failed")
  /\ UNCHANGED <<at, target, temp, content, stuck>>

\* Every error after the temporary name was chosen: remove it, whatever it
\* stands for, and report the first error.
Cleanup(p) ==
  /\ pc[p] = "cleanup"
  /\ GoTo(p, "failed")
  /\ \/ /\ SetTemp(p, Nobody)
        /\ UNCHANGED stuck
     \/ /\ "remove" \in Faults
        /\ stuck' = stuck \cup {p}
        /\ UNCHANGED temp
  /\ UNCHANGED <<at, target, content>>

-----------------------------------------------------------------------------
(***************************************************************************)
(* Kills and power losses.                                                 *)
(***************************************************************************)
Kill(p) ==
  /\ pc[p] \in Live
  /\ GoTo(p, "dead")
  /\ UNCHANGED <<at, target, temp, content, stuck>>

\* What was not synced may be gone, in any file.
PowerLoss ==
  /\ \E p \in Processes : pc[p] \in Live
  /\ pc' = [p \in Processes |-> IF pc[p] \in Live THEN "dead" ELSE pc[p]]
  /\ \E lost \in SUBSET {f \in Files : content[f] = "written"} :
       content' = [f \in Files |->
                     IF f \in lost THEN "partial" ELSE content[f]]
  /\ UNCHANGED <<at, target, temp, stuck>>

Ended == /\ \A p \in Processes : pc[p] \in {"done", "failed", "dead"}
         /\ UNCHANGED vars

Step(p) ==
  \/ Start(p) \/ Look(p) \/ Begin(p) \/ Create(p) \/ Fill(p) \/ Sync(p)
  \/ Rename(p) \/ HardLink(p) \/ Unlink(p) \/ Cleanup(p) \/ Kill(p)

Next == /\ PowerLoss \/ Ended \/ \E p \in Processes : Step(p)
        /\ UNCHANGED <<force, pid>>

Spec == Init /\ [][Next]_vars

-----------------------------------------------------------------------------
(***************************************************************************)
(* Properties.                                                             *)
(***************************************************************************)
\* "Partial output is never left at the target path" (docs/cli.md:373): what
\* a destination stands for is complete and stored, whoever was killed,
\* whichever call failed, and even if the power failed.
TargetsAreWhole ==
  \A path \in Paths :
    target[path] \in {Nobody, Existing} \/ content[target[path]] = "stored"

\* An existing destination is replaced only by a process that was given
\* --force, and by a file of that process; it never disappears.  This is what
\* the hard link is for: path.exists() is read long before.
ExistingIsKept ==
  [][\A path \in Paths :
       Exists(path) /\ target'[path] # target[path] =>
         \E p \in Processes : force[p] /\ target'[path] = <<p, at[p]>>]_vars

\* A process that reports success has written every destination of its plan,
\* and they are still its own unless another process was given --force.
SuccessMeansWritten ==
  \A p \in Processes : pc[p] = "done" =>
    \A i \in DOMAIN Plan[p] :
      \/ target[Plan[p][i]] = <<p, i>>
      \/ \E q \in Processes \ {p} : force[q] /\ Exists(Plan[p][i])

\* "Temporary files are cleaned up on every error path" (docs/cli.md:373): one
\* that is left is that of a live process, or of a killed one, or remove_file
\* itself failed.
NoLitter ==
  \A t \in TempNames : temp[t] # Nobody =>
    \E p \in Processes :
      /\ temp[t][1] = p
      /\ pc[p] \in Writing \cup {"dead"} \/ p \in stuck

\* The error path of one process, which removes a name it may not have
\* created, never removes the temporary file another one is writing.
OthersLeaveMyTemp ==
  \A p \in Processes :
    pc[p] \in {"fill", "sync", "publish"} => temp[TempName(p)] = Mine(p)

\* What docs/profiles.md:187-189 and the comment at main.rs:408 say of the
\* check made first: a failed import leaves none of its files behind.
FailedRunLeavesNoPartialSet ==
  \A p \in Processes : pc[p] = "failed" =>
    \/ \A i \in DOMAIN Plan[p] : target[Plan[p][i]] = <<p, i>>
    \/ \A i \in DOMAIN Plan[p] : target[Plan[p][i]] # <<p, i>>
=============================================================================
