-------------------------- MODULE PublishDirectory --------------------------
(***************************************************************************)
(* How `synth`, `simulate` and `export` publish a directory                *)
(* (crates/jsonrtl-cli/src/toolchain.rs: publish, ScratchDirectory and     *)
(* rename_new).                                                            *)
(*                                                                         *)
(* Every process looks for the destination, fills a private directory      *)
(* beside it, and renames that one to the destination.  On Linux the       *)
(* rename is one call that refuses an existing destination; elsewhere the  *)
(* name is first claimed with an empty directory.  Leaving publish drops   *)
(* the private directory.                                                  *)
(*                                                                         *)
(* External: the file system, and what a rename does to a directory that   *)
(* is there: Unix replaces an empty one, and so may Windows, by version.   *)
(***************************************************************************)
EXTENDS Naturals

CONSTANTS
  Processes,  \* CLI processes that publish to one destination
  Parts,      \* how many files each writes
  Platforms,  \* among "linux", "unix" (any other Unix) and "windows"
  Faults      \* the calls that may fail for an outside reason

Calls == {"scratch", "populate", "claim", "rename", "remove"}

Someone == "someone"  \* another program

ASSUME PublishDirectoryAssumption ==
  /\ Someone \notin Processes
  /\ Parts \in Nat
  /\ Platforms \subseteq {"linux", "unix", "windows"}
  /\ Faults \subseteq Calls

VARIABLES
  platform,     \* the one the program was built for
  pc,           \* where each process is
  destination,  \* what is at the destination
  scratch,      \* processes whose private directory exists
  files,        \* files each process has written into it
  stuck         \* processes whose clean-up failed

vars == <<platform, pc, destination, scratch, files, stuck>>

Absent     == <<"absent", Someone>>
Other      == <<"other", Someone>>
Empty(p)   == <<"empty", p>>
Project(p) == <<"project", p>>

Empties == {Empty(p) : p \in Processes \cup {Someone}}
Live    == {"scratch", "populate", "rename", "claim", "release", "undo", "drop"}

Init ==
  /\ platform \in Platforms
  /\ pc = [p \in Processes |-> "idle"]
  /\ destination \in {Absent, Empty(Someone), Other}
  /\ scratch = {} /\ stuck = {}
  /\ files = [p \in Processes |-> 0]

-----------------------------------------------------------------------------
GoTo(p, s) == pc' = [pc EXCEPT ![p] = s]

\* The call fails, for a reason of its own, and changes nothing else.
Broken(p, call, next) ==
  /\ call \in Faults
  /\ GoTo(p, next)
  /\ UNCHANGED <<destination, scratch, files, stuck>>

\* new_destination.
Look(p) ==
  /\ pc[p] = "idle"
  /\ GoTo(p, IF destination = Absent THEN "scratch" ELSE "failed")
  /\ UNCHANGED <<destination, scratch, files, stuck>>

\* ScratchDirectory::new_in, with a name no other process uses.
NewScratch(p) ==
  /\ pc[p] = "scratch"
  /\ \/ /\ scratch' = scratch \cup {p}
        /\ GoTo(p, "populate")
        /\ UNCHANGED <<destination, files, stuck>>
     \/ Broken(p, "scratch", "failed")

\* Fault: the directory is published while files are still missing.
PopulateEarly(p) ==
  /\ pc[p] = "populate"
  /\ \/ /\ files[p] < Parts
        /\ files' = [files EXCEPT ![p] = @ + 1]
        /\ UNCHANGED <<pc, destination, scratch, stuck>>
     \/ /\ GoTo(p, IF platform = "linux" THEN "rename" ELSE "claim")
        /\ UNCHANGED <<destination, scratch, files, stuck>>

\* populate writes one file more, or it is done and rename_new begins.
Populate(p) ==
  /\ pc[p] = "populate"
  /\ \/ /\ files[p] < Parts
        /\ files' = [files EXCEPT ![p] = @ + 1]
        /\ UNCHANGED <<pc, destination, scratch, stuck>>
     \/ /\ files[p] = Parts
        /\ GoTo(p, IF platform = "linux" THEN "rename" ELSE "claim")
        /\ UNCHANGED <<destination, scratch, files, stuck>>
     \/ Broken(p, "populate", "drop")

-----------------------------------------------------------------------------
(***************************************************************************)
(* rename_new.                                                             *)
(***************************************************************************)
\* Elsewhere than on Linux: create_dir claims the name.
Claim(p) ==
  /\ pc[p] = "claim"
  /\ \/ /\ destination = Absent
        /\ destination' = Empty(p)
        /\ GoTo(p, IF platform = "windows" THEN "release" ELSE "rename")
        /\ UNCHANGED <<scratch, files, stuck>>
     \/ /\ destination # Absent
        /\ GoTo(p, "drop")
        /\ UNCHANGED <<destination, scratch, files, stuck>>
     \/ Broken(p, "claim", "drop")

\* Windows only: remove_dir gives the name up again before the rename.
ReleaseName(p) ==
  /\ pc[p] = "release"
  /\ \/ /\ destination \in Empties
        /\ destination' = Absent
        /\ GoTo(p, "rename")
        /\ UNCHANGED <<scratch, files, stuck>>
     \/ /\ destination \notin Empties
        /\ GoTo(p, "drop")
        /\ UNCHANGED <<destination, scratch, files, stuck>>
     \/ /\ "remove" \in Faults
        /\ stuck' = stuck \cup {p}
        /\ GoTo(p, "drop")
        /\ UNCHANGED <<destination, scratch, files>>

\* Fault: the rename replaces whatever is there.
MayReplaceAnything == TRUE

\* Whether the rename of this platform may take the name, and may refuse it.
MayReplace == \/ destination = Absent
              \/ platform # "linux" /\ destination \in Empties
MayRefuse  == /\ destination # Absent
              /\ ~(platform = "unix" /\ destination \in Empties)

\* What the error path of the rename does: Linux drops the private directory,
\* the others remove the destination before.
AfterRename == IF platform = "linux" THEN "drop" ELSE "undo"

Rename(p) ==
  /\ pc[p] = "rename"
  /\ \/ /\ MayReplace
        /\ destination' = Project(p)
        /\ scratch' = scratch \ {p}
        /\ GoTo(p, "done")
        /\ UNCHANGED <<files, stuck>>
     \/ /\ MayRefuse
        /\ GoTo(p, AfterRename)
        /\ UNCHANGED <<destination, scratch, files, stuck>>
     \/ Broken(p, "rename", AfterRename)

\* Fault: the destination is removed with all its contents.
UndoAll(p) ==
  /\ pc[p] = "undo"
  /\ GoTo(p, "drop")
  /\ destination' = Absent
  /\ UNCHANGED <<scratch, files, stuck>>

\* Fault: the name stays claimed.
UndoNothing(p) ==
  /\ pc[p] = "undo"
  /\ GoTo(p, "drop")
  /\ UNCHANGED <<destination, scratch, files, stuck>>

\* remove_dir(destination): whichever empty directory is there.
Undo(p) ==
  /\ pc[p] = "undo"
  /\ GoTo(p, "drop")
  /\ \/ /\ destination' = IF destination \in Empties THEN Absent
                          ELSE destination
        /\ UNCHANGED stuck
     \/ /\ "remove" \in Faults
        /\ stuck' = stuck \cup {p}
        /\ UNCHANGED destination
  /\ UNCHANGED <<scratch, files>>

\* Drop for ScratchDirectory, on every error path; after a rename there is
\* nothing at its path any more.
Drop(p) ==
  /\ pc[p] = "drop"
  /\ GoTo(p, "failed")
  /\ \/ /\ scratch' = scratch \ {p}
        /\ UNCHANGED stuck
     \/ /\ "remove" \in Faults
        /\ stuck' = stuck \cup {p}
        /\ UNCHANGED scratch
  /\ UNCHANGED <<destination, files>>

-----------------------------------------------------------------------------
Kill(p) ==
  /\ pc[p] \in Live
  /\ GoTo(p, "dead")
  /\ UNCHANGED <<destination, scratch, files, stuck>>

\* Another program takes the name, with an empty directory or with content.
Intrude ==
  /\ destination = Absent
  /\ destination' \in {Empty(Someone), Other}
  /\ UNCHANGED <<pc, scratch, files, stuck>>

Ended == /\ \A p \in Processes : pc[p] \in {"done", "failed", "dead"}
         /\ UNCHANGED vars

Step(p) == \/ Look(p) \/ NewScratch(p) \/ Populate(p) \/ Claim(p)
           \/ ReleaseName(p) \/ Rename(p) \/ Undo(p) \/ Drop(p) \/ Kill(p)

Next == /\ Intrude \/ Ended \/ \E p \in Processes : Step(p)
        /\ UNCHANGED platform

Spec == Init /\ [][Next]_vars

-----------------------------------------------------------------------------
(***************************************************************************)
(* Properties.                                                             *)
(***************************************************************************)
\* "Failures leave no partial project at --out" (docs/cli.md:228): a project
\* at the destination has all its files, and its process reported success.
PublishedIsWhole ==
  \A p \in Processes : destination = Project(p) =>
    files[p] = Parts /\ pc[p] = "done"

\* A process that reports success published, and is the only one: of two that
\* race, at most one is told that its files are there.
SuccessMeansPublished ==
  \A p \in Processes : pc[p] = "done" => destination = Project(p)

\* A failed run leaves neither its private directory nor the empty directory
\* it claimed the name with, unless a removal failed.
FailureLeavesNothing ==
  \A p \in Processes \ stuck : pc[p] \in {"done", "failed"} =>
    p \notin scratch /\ destination # Empty(p)

\* "Existing destinations are preserved" (docs/cli.md:328-329): what has content
\* is never replaced nor removed, and an empty directory only by the process
\* that claimed the name with it.  On Windows the name is given up before the
\* rename, and what is empty then may be anybody's.
ContentIsKept ==
  [][destination # Absent /\ destination' # destination =>
       \/ \E p \in Processes : destination = Empty(p) /\ pc'[p] # pc[p]
       \/ platform = "windows" /\ destination \in Empties]_vars
=============================================================================
