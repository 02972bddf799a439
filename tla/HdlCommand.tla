----------------------------- MODULE HdlCommand -----------------------------
(***************************************************************************)
(* The commands that run tools (crates/jsonrtl-cli/src/hdl.rs: check,      *)
(* synth, simulate, tools; export.rs: export_project), one of which is     *)
(* followed from its first look at the destination to its end.  Tools run  *)
(* in a private workspace, as ToolRun promises; what they made is read,    *)
(* checked and published, as in PublishDirectory, among other processes    *)
(* that publish to the same destination.                                   *)
(*                                                                         *)
(* Of the files in the workspace one is modelled, the one that the command *)
(* checks: the netlist, or the compiled simulation program.                *)
(***************************************************************************)
EXTENDS PublishDirectory

CONSTANT Me  \* the process that is followed; the others are about to publish

ASSUME HdlCommandAssumption == Me \in Processes /\ Parts > 0

Saving   == {"synth", "simulate", "export"}
Commands == {"check", "tools"} \cup Saving

\* The file as the tools left it: missing or of no use, or one of two that are
\* good, so that one can take the place of the other.
Made == {"useless", "one", "two"}

VARIABLES
  command,    \* one of Commands
  count,      \* how many tools it runs
  phase,      \* "look", "prepare", "tools", "logs", "publish", "done", "failed"
  tool,       \* which tool is running
  run, left,  \* the run of the tool, and what is left of tools
  result,     \* the file
  image,      \* <<>>, or <<the file>> when it was read
  reserved,   \* the workspace has a file with the name of a log
  available,  \* tools: every tool so far was recognized
  saved       \* <<>>, or <<the file>> in the directory to be published

hdlVars == <<command, count, phase, tool, run, left, result, image, reserved,
             available, saved>>
allVars == <<vars, hdlVars>>

Job == INSTANCE ToolRun

HdlInit ==
  /\ Init /\ Job!Init
  /\ command \in Commands
  /\ count \in CASE command = "check"              -> {1, 2}
                 [] command \in {"synth", "export"} -> {1}
                 [] command = "simulate"            -> {2}
                 [] command = "tools"               -> {3}
  /\ phase = "look" /\ tool = 1
  /\ result = "useless" /\ image = <<>> /\ saved = <<>>
  /\ reserved = FALSE /\ available = TRUE

-----------------------------------------------------------------------------
\* A step of the command, as far as the directory to be published is not touched.
Inside == UNCHANGED <<vars, command, count>>

Goes(to) ==
  /\ phase' = to
  /\ UNCHANGED <<tool, run, left, result, image, reserved, available, saved>>

\* new_destination, before anything is done; check and tools have none.
LookFirst ==
  /\ phase = "look"
  /\ Goes(IF command \in Saving /\ destination # Absent THEN "failed" ELSE "prepare")
  /\ Inside

\* An argument is not supported, a source is not text, the workspace cannot be
\* made: no tool is run.
Prepare ==
  /\ phase = "prepare"
  /\ Goes("tools") \/ Goes("failed")
  /\ Inside

RunTool ==
  /\ phase = "tools" /\ (Job!Start \/ Job!Return)
  /\ UNCHANGED <<phase, tool, result, image, reserved, available, saved>> /\ Inside

ToolChanges ==
  /\ Job!Change \/ Job!Stop
  /\ UNCHANGED <<phase, tool, result, image, reserved, available, saved>> /\ Inside

\* A process of a tool changes the file, or makes one with a reserved name.
ChangeFile ==
  /\ left # {} /\ phase \notin {"done", "failed"}
  /\ \/ result' \in Made \ {result} /\ UNCHANGED reserved
     \/ reserved' = TRUE /\ UNCHANGED result
  /\ UNCHANGED <<phase, tool, run, left, image, available, saved>> /\ Inside

\* Any failure of a tool is that of the command, except of `tools`.
ToolFails ==
  /\ phase = "tools" /\ run = "failed" /\ command # "tools"
  /\ Goes("failed") /\ Inside

-----------------------------------------------------------------------------
Ran == phase = "tools" /\ run = "ok"

NextTool == Job!Again /\ tool' = tool + 1

\* check: Icarus, Yosys, or one after the other.
CheckNext ==
  /\ Ran /\ command = "check"
  /\ \/ /\ tool < count /\ NextTool
        /\ UNCHANGED <<phase, result, image, reserved, available, saved>>
     \/ tool = count /\ Goes("done")
  /\ Inside

\* tools: failures are reported, and each tool has a Job of its own.
Probe ==
  /\ phase = "tools" /\ run \in {"ok", "failed"} /\ command = "tools"
  /\ \E recognized \in BOOLEAN : available' = (available /\ run = "ok" /\ recognized)
  /\ IF tool < count
     THEN run' = "idle" /\ tool' = tool + 1 /\ UNCHANGED phase
     ELSE phase' = (IF available' THEN "done" ELSE "failed") /\ UNCHANGED <<run, tool>>
  /\ UNCHANGED <<left, result, image, reserved, saved>> /\ Inside

\* Fault: a missing file is waited for.
ReadWaits ==
  /\ Ran /\ command \in Saving /\ image = <<>>
  /\ result # "useless" /\ image' = <<result>>
  /\ IF tool < count THEN NextTool /\ UNCHANGED phase
     ELSE phase' = "publish" /\ UNCHANGED <<tool, run, left>>
  /\ UNCHANGED <<result, reserved, available, saved>> /\ Inside

\* read_regular, and what the command asks of the file.  simulate goes on to run
\* it, the others are through with their tools.
ReadResult ==
  /\ Ran /\ command \in Saving /\ image = <<>>
  /\ \/ result = "useless" /\ Goes("failed")
     \/ /\ result # "useless" /\ image' = <<result>>
        /\ IF tool < count THEN NextTool /\ UNCHANGED phase
           ELSE phase' = "publish" /\ UNCHANGED <<tool, run, left>>
        /\ UNCHANGED <<result, reserved, available, saved>>
  /\ Inside

\* Fault: the program is not read again after the simulation.
CompareNothing ==
  /\ Ran /\ command = "simulate" /\ image # <<>>
  /\ Goes("logs") /\ Inside

\* The test bench has run: has it changed its program?
Compare ==
  /\ Ran /\ command = "simulate" /\ image # <<>>
  /\ Goes(IF image = <<result>> THEN "logs" ELSE "failed") /\ Inside

\* The names of the logs must be free.
CheckReserved ==
  /\ phase = "logs"
  /\ Goes(IF reserved THEN "failed" ELSE "publish") /\ Inside

\* A file cannot be read or written, or the scan of the results refuses them.
Fails ==
  /\ \/ Ran /\ command \in Saving
     \/ phase = "logs"
     \/ phase = "publish" /\ pc[Me] = "idle"
  /\ Goes("failed") /\ Inside

-----------------------------------------------------------------------------
(***************************************************************************)
(* publish.                                                                *)
(***************************************************************************)
\* copy_artifacts reads every file again when it is copied, the one that is
\* modelled among them; export writes what it has in memory.
Copied == IF files'[Me] = 1 /\ files[Me] = 0
          THEN IF command = "export" THEN image ELSE <<result>>
          ELSE saved

Ending == IF pc'[Me] = "done" THEN "done" ELSE IF pc'[Me] = "failed" THEN "failed" ELSE "publish"

MyStep == Look(Me) \/ NewScratch(Me) \/ Populate(Me) \/ Claim(Me) \/ ReleaseName(Me)
            \/ Rename(Me) \/ Undo(Me) \/ Drop(Me)

Save ==
  /\ phase = "publish" /\ MyStep /\ UNCHANGED platform
  /\ saved' = Copied /\ phase' = Ending
  /\ UNCHANGED <<command, count, tool, run, left, result, image, reserved, available>>

\* The command is killed while it publishes, others publish, and other programs
\* take the name.
Outside ==
  /\ \/ phase = "publish" /\ Kill(Me)
     \/ \E p \in Processes \ {Me} : Step(p)
     \/ Intrude
  /\ UNCHANGED <<platform, hdlVars>>

-----------------------------------------------------------------------------
CommandStep ==
  \/ LookFirst \/ Prepare \/ RunTool \/ ToolFails \/ CheckNext \/ Probe \/ ReadResult
  \/ Compare \/ CheckReserved \/ Save

HdlNext == CommandStep \/ ToolChanges \/ ChangeFile \/ Fails \/ Outside

\* The command is scheduled, and a run of a tool returns, as ToolRun promises.
HdlSpec == HdlInit /\ [][HdlNext]_allVars /\ WF_allVars(CommandStep)

-----------------------------------------------------------------------------
\* What a command publishes is what it has checked, and none of its logs has
\* replaced a file of the test bench, unless a process of a tool was out of reach
\* when its run returned, and may have changed a file after it was checked.  On
\* Unix that is one that has left the group; elsewhere any that the child has
\* started and that outlived it, since only the child is stopped
\* (docs/cli.md:335-336).
PublishedAsChecked ==
  destination = Project(Me) /\ "stray" \notin left =>
    saved = image /\ saved # <<>> /\ (command = "simulate" => ~reserved)

\* A command ends, whatever its tools do, unless it is killed.
CommandReturns == phase = "prepare" ~> phase \in {"done", "failed"} \/ pc[Me] = "dead"
=============================================================================
