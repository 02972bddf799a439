------------------------------ MODULE ToolRun -------------------------------
(***************************************************************************)
(* What Job::run promises the commands that run tools (crates/jsonrtl-cli/ *)
(* src/toolchain.rs): it comes back whatever the tool does.  When it has,  *)
(* the child is gone, and on Unix all that has not left its process group. *)
(* Elsewhere only the child is stopped, and the processes it has started   *)
(* may live on.  ToolJob is what keeps the promise.                        *)
(***************************************************************************)
VARIABLES
  platform,  \* the one the program was built for; "windows" is all but Unix
  run,       \* "idle", "running", "ok" or "failed"
  left       \* what there is of the tools: the "child" that runs, a "helper" it
             \* has started, a "stray" that was out of reach when it was stopped

vars == <<platform, run, left>>

Init == run = "idle" /\ left = {}

\* The tool starts; or it cannot, or the deadline has passed.
Start ==
  /\ run = "idle"
  /\ \/ run' = "running" /\ left' = left \cup {"child"}
     \/ run' = "failed" /\ UNCHANGED left
  /\ UNCHANGED platform

\* Processes start others and end.  On Unix one that leaves the group is out of
\* reach, and may do as it likes.
Change ==
  /\ \/ "child" \in left /\ left' \in {left \ {"child"}, left \cup {"helper"}}
     \/ "helper" \in left /\ left' = left \ {"helper"}
     \/ /\ platform # "windows" /\ "helper" \in left
        /\ \E others \in {{}, {"helper"}} :
             left' = (left \ {"helper"}) \cup others \cup {"stray"}
  /\ UNCHANGED <<platform, run>>

\* RunningChild::stop: helpers are reached by way of the group, which is Unix only.
Stopped ==
  (left \cap {"stray"})
    \cup (IF platform = "windows" /\ "helper" \in left THEN {"stray"} ELSE {})

Stop ==
  /\ run = "running"
  /\ left' = Stopped
  /\ UNCHANGED <<platform, run>>

Return ==
  /\ run = "running"
  /\ run' \in {"ok", "failed"}
  /\ left' = Stopped
  /\ UNCHANGED platform

\* The command goes on with another tool.
Again == run = "ok" /\ run' = "idle" /\ UNCHANGED <<platform, left>>

Next == Start \/ Change \/ Stop \/ Return \/ Again

Spec == Init /\ [][Next]_vars /\ WF_vars(Start) /\ WF_vars(Return)
=============================================================================
