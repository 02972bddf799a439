------------------------------ MODULE ToolJob -------------------------------
(***************************************************************************)
(* How the CLI runs external HDL tools (crates/jsonrtl-cli/src/            *)
(* toolchain.rs, Job::run, Capture, RunningChild).                         *)
(*                                                                         *)
(* The tools of one command run one after the other under one deadline and *)
(* one log limit.  Around each tool run a child process with whatever it   *)
(* forks, two reader threads that drain its pipes into bounded buffers and *)
(* count every byte in one shared counter, and the loop that polls them.   *)
(* The loop reads the counter, the clock, the workspace, the exit status   *)
(* and the readers' flags at different moments, one step each.             *)
(*                                                                         *)
(* External: the processes and the pipes.  The child may start one helper, *)
(* which may let go of the pipes.  On Unix it is in the process group that *)
(* is killed with the child, unless it leaves it; elsewhere only the child *)
(* is, and a helper that lives then goes on.                               *)
(***************************************************************************)
EXTENDS Integers

CONSTANTS
  Platforms,    \* "unix" and "windows", which stands for all that is not Unix
  Tools,        \* number of tools the command runs
  CaptureLimit, \* MAX_CAPTURE_BYTES, in units of one write
  MaxWrites,    \* bound: units the processes of a command write
  Deadline      \* the clock value at which the shared deadline passes

ASSUME ToolJobAssumption ==
  /\ Platforms \subseteq {"unix", "windows"}
  /\ Tools \in Nat \ {0}
  /\ CaptureLimit \in Nat /\ MaxWrites \in Nat
  /\ Deadline \in Nat \ {0}

Streams == {"stdout", "stderr"}

VARIABLES
  platform,  \* the one the program was built for
  pc,        \* where Job::run is
  tool,      \* which tool of the command is running
  outcome,   \* what the last finished run returned
  now,       \* the clock
  captured,  \* bytes counted, over both streams and all tools
  child,     \* the child process
  status,    \* its exit status, as try_wait reported it
  exit,      \* its exit status, as it ended
  helper,    \* a process the child started: "within" reach of stop, or a "stray"
  attached,  \* the helper holds the pipes open
  pipe,      \* units in each pipe
  sent,      \* units the tool's processes wrote to each stream
  reader,    \* where each reader thread is
  chunk,     \* what it read last, and the counter before that read
  kept,      \* units in each capture buffer
  broken,    \* streams whose reader met a read error
  oversize,  \* the workspace is over its limits
  writes     \* units written over the whole command (bound)

procs == <<child, exit, helper, attached, oversize>>
io    == <<pipe, sent, reader, chunk, kept, broken, captured, writes>>
vars  == <<platform, pc, tool, outcome, now, status, procs, io>>

-----------------------------------------------------------------------------
Alive(p)   == p \in {"running", "within", "stray"}
Writers    == Alive(child) \/ (Alive(helper) /\ attached)
ReadEnd(s) == reader[s] # "gone"

Init ==
  /\ platform \in Platforms
  /\ pc = "idle" /\ tool = 1 /\ outcome = "none" /\ now = 0
  /\ captured = 0 /\ writes = 0
  /\ child = "none" /\ status = "none" /\ exit = "none"
  /\ helper = "none" /\ attached = FALSE
  /\ pipe = [s \in Streams |-> 0] /\ sent = [s \in Streams |-> 0]
  /\ reader = [s \in Streams |-> "gone"]
  /\ chunk = [s \in Streams |-> [n |-> 0, previous |-> 0]]
  /\ kept = [s \in Streams |-> 0] /\ broken = {}
  /\ oversize = FALSE

-----------------------------------------------------------------------------
(***************************************************************************)
(* The processes (external).                                               *)
(***************************************************************************)
Environment == UNCHANGED <<platform, pc, tool, outcome, now, status, captured, reader,
                           chunk, kept, broken>>

\* A process writes to a pipe somebody reads; the other end may be gone, and
\* then the write fails, which ends the child (on Unix by SIGPIPE).
Write(s) ==
  /\ Writers
  /\ writes < MaxWrites
  /\ IF ReadEnd(s)
     THEN /\ pipe' = [pipe EXCEPT ![s] = @ + 1]
          /\ sent' = [sent EXCEPT ![s] = @ + 1]
          /\ writes' = writes + 1
          /\ UNCHANGED <<child, exit>>
     ELSE /\ Alive(child)
          /\ child' = "zombie" /\ exit' = "failure"
          /\ UNCHANGED <<pipe, sent, writes>>
  /\ UNCHANGED <<helper, attached, oversize>>
  /\ Environment

ChildExits ==
  /\ Alive(child)
  /\ child' = "zombie"
  /\ exit' \in {"success", "failure"}
       \cup (IF platform = "windows" THEN {} ELSE {"limit_signal"})
  /\ UNCHANGED <<helper, attached, oversize, pipe, sent, writes>>
  /\ Environment

ForkHelper ==
  /\ Alive(child) /\ helper = "none"
  /\ helper' = "within" /\ attached' = TRUE
  /\ UNCHANGED <<child, exit, oversize, pipe, sent, writes>>
  /\ Environment

\* The helper closes the pipes, leaves the process group, or exits.
HelperStep ==
  /\ Alive(helper)
  /\ \/ /\ helper' = IF helper = "stray" THEN "dead_stray" ELSE "dead"
        /\ attached' = FALSE
     \/ /\ helper = "within" /\ platform # "windows"
        /\ helper' = "stray" /\ UNCHANGED attached
     \/ attached /\ attached' = FALSE /\ UNCHANGED helper
  /\ UNCHANGED <<child, exit, oversize, pipe, sent, writes>>
  /\ Environment

FillWorkspace ==
  /\ Alive(child) \/ Alive(helper)
  /\ ~oversize /\ oversize' = TRUE
  /\ UNCHANGED <<child, exit, helper, attached, pipe, sent, writes>>
  /\ Environment

Tick ==
  /\ now < Deadline
  /\ now' = now + 1
  /\ UNCHANGED <<platform, pc, tool, outcome, status, procs, io>>

-----------------------------------------------------------------------------
(***************************************************************************)
(* Capture::start: the reader threads.                                     *)
(***************************************************************************)
Reading == UNCHANGED <<platform, pc, tool, outcome, now, status, procs, sent, writes>>

\* A read returns n units, and the shared counter is advanced by all of them.
ReadChunk(s) ==
  /\ reader[s] = "reading"
  /\ \E n \in 1..pipe[s] :
       /\ pipe' = [pipe EXCEPT ![s] = @ - n]
       /\ chunk' = [chunk EXCEPT ![s] = [n |-> n, previous |-> captured]]
       /\ captured' = captured + n
  /\ reader' = [reader EXCEPT ![s] = "counted"]
  /\ UNCHANGED <<kept, broken>>
  /\ Reading

\* Only what still fits under the limit is kept; past it the reader stops.
Take(c) ==
  LET room == IF c.previous >= CaptureLimit THEN 0 ELSE CaptureLimit - c.previous
  IN  IF c.n <= room THEN c.n ELSE room

StoreChunk(s) ==
  /\ reader[s] = "counted"
  /\ kept' = [kept EXCEPT ![s] = @ + Take(chunk[s])]
  /\ reader' = [reader EXCEPT ![s] =
                  IF chunk[s].previous + chunk[s].n > CaptureLimit
                  THEN "finished" ELSE "reading"]
  /\ chunk' = [chunk EXCEPT ![s] = [n |-> 0, previous |-> 0]]
  /\ UNCHANGED <<pipe, captured, broken>>
  /\ Reading

EndOfFile(s) ==
  /\ reader[s] = "reading"
  /\ pipe[s] = 0 /\ ~Writers
  /\ reader' = [reader EXCEPT ![s] = "finished"]
  /\ UNCHANGED <<pipe, chunk, captured, kept, broken>>
  /\ Reading

ReadError(s) ==
  /\ reader[s] = "reading"
  /\ broken' = broken \cup {s}
  /\ reader' = [reader EXCEPT ![s] = "finished"]
  /\ UNCHANGED <<pipe, chunk, captured, kept>>
  /\ Reading

\* `done` is published, and the thread ends, which closes its pipe.
Publish(s) ==
  /\ reader[s] = "finished"
  /\ reader' = [reader EXCEPT ![s] = "gone"]
  /\ UNCHANGED <<pipe, chunk, captured, kept, broken>>
  /\ Reading

Done(s) == reader[s] = "gone"

-----------------------------------------------------------------------------
(***************************************************************************)
(* RunningChild::stop: on Unix SIGKILL to the process group, everywhere the *)
(* child is killed and waited for.  Every early return drops the           *)
(* RunningChild.                                                           *)
(***************************************************************************)
\* Fault: on Unix too only the child is killed.
StopChildOnly ==
  /\ child' = "reaped"
  /\ exit' = IF Alive(child) THEN "failure" ELSE exit
  /\ UNCHANGED <<helper, attached, oversize>>

\* What has become of a helper that was there when its child was stopped.
Stopped == IF platform = "windows" THEN "stray" ELSE "dead"

Stop ==
  /\ child' = "reaped"
  /\ exit' = IF Alive(child) THEN "failure" ELSE exit
  /\ helper' = IF helper = "within" THEN Stopped ELSE helper
  /\ attached' = (attached /\ helper' # "dead")
  /\ UNCHANGED oversize

GoOn(next) ==
  /\ pc' = next
  /\ UNCHANGED <<platform, tool, outcome, now, status, procs, io>>

Return(result) ==
  /\ outcome' = result
  /\ pc' = "ended"
  /\ Stop
  /\ UNCHANGED <<platform, tool, now, status, io>>

-----------------------------------------------------------------------------
(***************************************************************************)
(* Job::run.                                                               *)
(***************************************************************************)
Start ==
  /\ pc = "idle"
  /\ IF now >= Deadline
     THEN /\ outcome' = "tool_timeout" /\ pc' = "ended"
          /\ UNCHANGED <<platform, tool, now, status, procs, io>>
     ELSE GoOn("spawn")

\* The tool cannot be started: there is no child to stop.
SpawnFails ==
  /\ pc = "spawn"
  /\ outcome' = "tool_unavailable" /\ pc' = "ended"
  /\ UNCHANGED <<platform, tool, now, status, procs, io>>

\* Fault: every tool gets a log limit of its own.
SpawnResetsCounter ==
  /\ pc = "spawn"
  /\ child' = "running" /\ exit' = "none" /\ status' = "none"
  /\ pipe' = [s \in Streams |-> 0] /\ sent' = [s \in Streams |-> 0]
  /\ reader' = [s \in Streams |-> "ready"]
  /\ kept' = [s \in Streams |-> 0] /\ broken' = {}
  /\ captured' = 0
  /\ pc' = "readers"
  /\ UNCHANGED <<platform, tool, outcome, now, chunk, helper, attached, oversize, writes>>

\* The child starts; the counter goes on from the last tool.
Spawn ==
  /\ pc = "spawn"
  /\ child' = "running" /\ exit' = "none" /\ status' = "none"
  /\ pipe' = [s \in Streams |-> 0] /\ sent' = [s \in Streams |-> 0]
  /\ reader' = [s \in Streams |-> "ready"]
  /\ kept' = [s \in Streams |-> 0] /\ broken' = {}
  /\ pc' = "readers"
  /\ UNCHANGED <<platform, tool, outcome, now, chunk, captured, helper, attached,
                 oversize, writes>>

StartReaders ==
  /\ pc = "readers"
  /\ reader' = [s \in Streams |-> "reading"]
  /\ pc' = "limit"
  /\ UNCHANGED <<platform, tool, outcome, now, status, procs, pipe, sent, chunk, kept,
                 broken, captured, writes>>

\* A thread cannot be created: the child is stopped, and the reader of stdout
\* may run on without the other.
ReadersFail ==
  /\ pc = "readers"
  /\ \E started \in {{}, {"stdout"}} :
       reader' = [s \in Streams |-> IF s \in started THEN "reading" ELSE "gone"]
  /\ outcome' = "io_failure" /\ pc' = "ended"
  /\ Stop
  /\ UNCHANGED <<platform, tool, now, status, pipe, sent, chunk, kept, broken, captured,
                 writes>>

\* check_capture_limit, at the head of the loop and once more after it.
CheckLimit ==
  /\ pc = "limit"
  /\ IF captured > CaptureLimit THEN Return("resource_limit") ELSE GoOn("clock")

\* Fault: the deadline is not looked at once the child has ended.
CheckClockOfChild ==
  /\ pc = "clock"
  /\ IF now >= Deadline /\ status = "none" THEN Return("tool_timeout")
     ELSE GoOn("scan") \/ GoOn("wait")

CheckClock ==
  /\ pc = "clock"
  /\ IF now >= Deadline THEN Return("tool_timeout")
     ELSE GoOn("scan") \/ GoOn("wait")     \* a scan is due every 50 ms

ScanWorkspace ==
  /\ pc = "scan"
  /\ \/ IF oversize THEN Return("resource_limit") ELSE GoOn("wait")
     \/ Return("io_failure")

TryWaitFails == pc = "wait" /\ status = "none" /\ Return("io_failure")

TryWait ==
  /\ pc = "wait"
  /\ status' = IF child = "zombie" THEN exit ELSE status
  /\ child' = IF child = "zombie" THEN "reaped" ELSE child
  /\ pc' = "eof"
  /\ UNCHANGED <<platform, tool, outcome, now, exit, helper, attached, oversize, io>>

\* Leave the loop once the child has ended and both readers are done.
CheckDone ==
  /\ pc = "eof"
  /\ IF status # "none" /\ \A s \in Streams : Done(s)
     THEN GoOn("recheck") ELSE GoOn("limit")

\* Fault: the counter is not looked at after the loop.
RecheckNothing == pc = "recheck" /\ GoOn("errors")

\* The readers may have counted more after the check at the loop's head.
Recheck ==
  /\ pc = "recheck"
  /\ IF captured > CaptureLimit THEN Return("resource_limit") ELSE GoOn("errors")

CheckReadErrors ==
  /\ pc = "errors"
  /\ IF broken # {} THEN Return("tool_output") ELSE GoOn("stop")

\* Whatever the tool left within reach is killed before the last scan.
StopGroup ==
  /\ pc = "stop"
  /\ Stop
  /\ pc' = "rescan"
  /\ UNCHANGED <<platform, tool, outcome, now, status, io>>

Rescan ==
  /\ pc = "rescan"
  /\ \/ IF oversize THEN Return("resource_limit") ELSE GoOn("status")
     \/ Return("io_failure")

CheckStatus ==
  /\ pc = "status"
  /\ \/ status = "limit_signal" /\ Return("resource_limit")
     \/ status = "failure" /\ Return("tool_failed")
     \/ /\ status = "success"
        /\ outcome' = "ok" /\ pc' = "between"
        /\ UNCHANGED <<platform, tool, now, status, procs, io>>

\* The command runs its next tool with the same Job, or is through.
NextTool ==
  /\ pc = "between"
  /\ tool < Tools
  /\ tool' = tool + 1
  /\ pc' = "idle"
  /\ UNCHANGED <<platform, outcome, now, status, procs, io>>

-----------------------------------------------------------------------------
Poll == \/ Start \/ Spawn \/ StartReaders \/ CheckLimit \/ CheckClock
        \/ ScanWorkspace \/ TryWait \/ CheckDone \/ Recheck \/ CheckReadErrors \/ StopGroup \/ Rescan
        \/ CheckStatus

ReaderStep(s) == ReadChunk(s) \/ StoreChunk(s) \/ EndOfFile(s) \/ Publish(s)

JobStep == \/ Start \/ SpawnFails \/ Spawn \/ StartReaders \/ ReadersFail
           \/ CheckLimit \/ CheckClock \/ ScanWorkspace \/ TryWaitFails \/ TryWait
           \/ CheckDone \/ Recheck \/ CheckReadErrors \/ StopGroup \/ Rescan
           \/ CheckStatus

\* What goes on beside the loop: the reader threads, the processes, the clock.
BesideStep == \/ \E s \in Streams : \/ ReadChunk(s) \/ StoreChunk(s) \/ EndOfFile(s)
                                    \/ ReadError(s) \/ Publish(s) \/ Write(s)
              \/ ChildExits \/ ForkHelper \/ HelperStep \/ FillWorkspace \/ Tick

Next == JobStep \/ NextTool \/ BesideStep

\* The polling thread and the readers are scheduled and time passes; no process
\* has to write, to exit or to let go of a pipe.
Spec ==
  /\ Init /\ [][Next]_vars
  /\ WF_vars(Poll) /\ WF_vars(Tick)
  /\ \A s \in Streams : WF_vars(ReaderStep(s))

-----------------------------------------------------------------------------
Succeeded == outcome = "ok" /\ pc = "between"

\* Output returned as success is everything the tool wrote to both streams: a
\* reader that stopped at the limit, failed, or was still busy when the loop
\* looked never makes a truncated log pass for a whole one.
OkOutputIsComplete == Succeeded => \A s \in Streams : kept[s] = sent[s]

\* The limit is on the log of the whole command: the tools that succeeded wrote
\* no more than it in all, and no buffer ever holds more.
LogLimitIsShared ==
  /\ Succeeded => writes <= CaptureLimit
  /\ kept["stdout"] + kept["stderr"] <= CaptureLimit

\* A run never returns, with success or with an error, while the child still
\* runs, or on Unix a process of its group.
NothingLeftRunning ==
  pc \in {"between", "ended"} =>
    /\ child \in {"none", "reaped"}
    /\ helper = "stray" \/ ~Alive(helper)

-----------------------------------------------------------------------------
(***************************************************************************)
(* What a command sees of all this.                                        *)
(***************************************************************************)
RunOf == CASE pc \in {"idle", "spawn"} -> "idle"
           [] pc = "between"           -> "ok"
           [] pc = "ended"             -> "failed"
           [] OTHER                    -> "running"

LeftOf ==
  (IF Alive(child) THEN {"child"} ELSE {})
    \cup (IF helper = "within" THEN {"helper"} ELSE {})
    \cup (IF helper \in {"stray", "dead_stray"} THEN {"stray"} ELSE {})

Promise == INSTANCE ToolRun WITH run <- RunOf, left <- LeftOf

\* A run returns, whatever the tool does: it may hang, flood its pipes, or leave
\* a helper that holds them open.  And when it has returned, with success or with
\* an error, the child is gone, and on Unix its process group with it.
ImplementsToolRun == Promise!Spec
=============================================================================
