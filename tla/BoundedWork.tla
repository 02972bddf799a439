---------------------------- MODULE BoundedWork -----------------------------
(***************************************************************************)
(* What RouterBuilder::max_concurrent_kernel_work promises                 *)
(* (crates/jsonrtl-api/src/lib.rs): at any time at most Slots kernel jobs  *)
(* of a router exist, whatever becomes of the requests that started them,  *)
(* and a request starts at most one job.                                   *)
(***************************************************************************)
EXTENDS Naturals, FiniteSets

CONSTANTS Requests, Slots

VARIABLES
  active,     \* requests whose kernel job exists and has not ended
  finished    \* requests whose kernel job has ended

Init == active = {} /\ finished = {}

Begin(r) ==
  /\ r \notin active \cup finished
  /\ Cardinality(active) < Slots
  /\ active' = active \cup {r}
  /\ UNCHANGED finished

End(r) ==
  /\ r \in active
  /\ active' = active \ {r}
  /\ finished' = finished \cup {r}

Next == \E r \in Requests : Begin(r) \/ End(r)

\* What may happen, and with it that a job which has begun ends.
Safety == Init /\ [][Next]_<<active, finished>>
Spec == Safety /\ \A r \in Requests : WF_<<active, finished>>(End(r))
=============================================================================
