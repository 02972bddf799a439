--------------------------- MODULE ToolJobProofs ----------------------------
(***************************************************************************)
(* What holds of ToolJob for any number of tools, any limit on the log and *)
(* any deadline.                                                           *)
(*                                                                         *)
(* The argument is an account of units: what was written is counted or     *)
(* still in a pipe, what was counted under the limit is kept or about to   *)
(* be, and a reader that is through has met the end of its pipe, an error  *)
(* or the limit.  After the loop the readers are gone, so what is looked   *)
(* at there does not change any more.                                      *)
(***************************************************************************)
EXTENDS ToolJob, TLAPS

Before  == {"idle", "spawn"}
Loop    == {"limit", "clock", "scan", "wait", "eof"}
After   == {"errors", "stop", "rescan", "status", "between"}
Exits   == {"none", "success", "failure", "limit_signal"}
Readers == {"ready", "reading", "counted", "finished", "gone"}

TypeOK ==
  /\ pc \in Before \cup {"readers", "recheck", "ended"} \cup Loop \cup After
  /\ child \in {"none", "running", "zombie", "reaped"}
  /\ status \in Exits /\ exit \in Exits
  /\ helper \in {"none", "within", "stray", "dead", "dead_stray"}
  /\ attached \in BOOLEAN
  /\ captured \in Nat /\ writes \in Nat
  /\ pipe \in [Streams -> Nat] /\ sent \in [Streams -> Nat] /\ kept \in [Streams -> Nat]
  /\ reader \in [Streams -> Readers]
  /\ chunk \in [Streams -> [n : Nat, previous : Nat]]
  /\ broken \in SUBSET Streams

\* Where what can be reached has been stopped, or has not been started yet.
Quiet ==
  pc \in Before \cup {"rescan", "status", "between", "ended"} =>
    child \in {"none", "reaped"} /\ helper # "within"

\* Outside the loop the readers are gone, and what they left is as it was found.
ReadersGone ==
  pc \in Before \cup {"recheck"} \cup After => \A s \in Streams : reader[s] = "gone"
ReadersReady == pc = "readers" => \A s \in Streams : reader[s] = "ready"
LogFits == pc \in Before \cup After => captured <= CaptureLimit
NoReadError == pc \in Before \cup (After \ {"errors"}) => broken = {}

\* A reader stops at the end of its pipe, at an error, or past the limit.
EndReached ==
  pc # "ended" =>
    \A s \in Streams : reader[s] \in {"finished", "gone"} =>
      \/ s \in broken
      \/ captured > CaptureLimit
      \/ pipe[s] = 0 /\ ~Writers

\* A chunk is part of what has been counted, and is there until it is stored.
ChunkCounted ==
  \A s \in Streams :
    /\ chunk[s].previous + chunk[s].n <= captured
    /\ reader[s] # "counted" => chunk[s].n = 0

Accounted == writes = captured + pipe["stdout"] + pipe["stderr"]

KeptAll ==
  captured <= CaptureLimit =>
    \A s \in Streams : kept[s] + chunk[s].n + pipe[s] = sent[s]

KeptFits ==
  LET all == kept["stdout"] + kept["stderr"]
               + Take(chunk["stdout"]) + Take(chunk["stderr"])
  IN  all <= captured /\ all <= CaptureLimit

JobInv ==
  /\ TypeOK /\ Quiet /\ ReadersGone /\ ReadersReady /\ LogFits /\ NoReadError
  /\ EndReached /\ ChunkCounted /\ Accounted /\ KeptAll /\ KeptFits

-----------------------------------------------------------------------------
LEMMA TakeFacts ==
  ASSUME NEW c \in [n : Nat, previous : Nat]
  PROVE  /\ Take(c) \in Nat /\ Take(c) <= c.n
         /\ c.previous + c.n <= CaptureLimit => Take(c) = c.n
         /\ c.n = 0 => Take(c) = 0
         /\ c.n > 0 => Take(c) + c.previous <= CaptureLimit \/ Take(c) = 0
BY ToolJobAssumption DEF Take

LEMMA InitHolds == Init => JobInv
<1> SUFFICES ASSUME Init PROVE JobInv
  OBVIOUS
<1>1. TypeOK /\ Quiet
  BY DEF Init, TypeOK, Quiet, Before, Exits, Readers
<1>2. ReadersGone /\ ReadersReady /\ LogFits /\ NoReadError /\ EndReached
  BY ToolJobAssumption
  DEF Init, ReadersGone, ReadersReady, LogFits, NoReadError, EndReached, Writers, Alive
<1>3. ChunkCounted /\ Accounted /\ KeptAll
  BY DEF Init, ChunkCounted, Accounted, KeptAll, Streams
<1>4. KeptFits
  BY ToolJobAssumption DEF Init, KeptFits, Take, Streams
<1>5. QED
  BY <1>1, <1>2, <1>3, <1>4 DEF JobInv

-----------------------------------------------------------------------------
\* What is in the pipes and buffers is accounted for by the io variables alone.
LEMMA IoStays ==
  ASSUME JobInv, io' = io
  PROVE  ChunkCounted' /\ Accounted' /\ KeptAll' /\ KeptFits'
BY DEF JobInv, io, ChunkCounted, Accounted, KeptAll, KeptFits, Take

\* A process that writes does so all the time before a step that starts none.
LEMMA EndStays ==
  ASSUME JobInv, io' = io, Writers' => Writers, pc # "ended"
  PROVE  EndReached'
BY DEF JobInv, io, EndReached

LEMMA GoOnHolds ==
  ASSUME JobInv, NEW next, io' = io, procs' = procs, status' \in Exits, pc' = next,
         \/ next \in Loop /\ pc \in Loop
         \/ next = "recheck" /\ pc = "eof" /\ \A s \in Streams : Done(s)
         \/ next = "errors" /\ pc = "recheck" /\ captured <= CaptureLimit
         \/ next = "stop" /\ pc = "errors" /\ broken = {}
         \/ next = "status" /\ pc = "rescan"
         \/ next = "between" /\ pc = "status"
         \/ next = "idle" /\ pc = "between"
         \/ next = "spawn" /\ pc = "idle"
         \/ next = "ended" /\ pc \in Before
  PROVE  JobInv'
<1>1. TypeOK' /\ Quiet'
  BY DEF JobInv, TypeOK, Quiet, procs, io, Before, Loop, After
<1>2. ReadersGone' /\ ReadersReady' /\ LogFits' /\ NoReadError'
  BY DEF JobInv, TypeOK, ReadersGone, ReadersReady, LogFits, NoReadError, io, Before, Loop, After, Done
<1>3. EndReached'
  <2>1. Writers' => Writers
    BY DEF Writers, Alive, procs
  <2>2. pc # "ended"
    BY DEF Loop, Before
  <2>3. QED
    BY <2>1, <2>2, EndStays
<1>4. QED
  BY <1>1, <1>2, <1>3, IoStays DEF JobInv

LEMMA ReturnHolds ==
  ASSUME JobInv, Stop, pc' = "ended", io' = io \/ UNCHANGED <<pipe, sent, chunk, kept, broken, captured, writes>>,
         reader' \in [Streams -> Readers], status' = status,
         \A s \in Streams : reader'[s] = reader[s] \/ reader[s] = "ready"
  PROVE  JobInv'
<1>1. TypeOK' /\ Quiet'
  BY DEF JobInv, TypeOK, Quiet, io, Stop, Stopped, Before, Loop, After, Exits
<1>2. ReadersGone' /\ ReadersReady' /\ LogFits' /\ NoReadError' /\ EndReached'
  BY DEF ReadersGone, ReadersReady, LogFits, NoReadError, EndReached, Before, After
<1>3. ChunkCounted' /\ Accounted' /\ KeptAll' /\ KeptFits'
  BY DEF JobInv, TypeOK, io, ChunkCounted, Accounted, KeptAll, KeptFits, Take, Readers
<1>4. QED
  BY <1>1, <1>2, <1>3 DEF JobInv

-----------------------------------------------------------------------------
LEMMA LoopHolds ==
  ASSUME JobInv,
         Start \/ SpawnFails \/ CheckLimit \/ CheckClock \/ ScanWorkspace
           \/ TryWaitFails \/ CheckDone \/ Recheck \/ CheckReadErrors \/ Rescan
           \/ CheckStatus \/ NextTool
  PROVE  JobInv'
<1>1. CASE Start \/ SpawnFails
  BY <1>1, GoOnHolds DEF JobInv, TypeOK, Start, SpawnFails, GoOn, Before
<1>2. ASSUME NEW result, Return(result) PROVE JobInv'
  BY <1>2, ReturnHolds DEF Return, JobInv, TypeOK, io
<1>3. CASE CheckLimit \/ CheckClock \/ ScanWorkspace
  BY <1>2, <1>3, GoOnHolds
  DEF JobInv, TypeOK, CheckLimit, CheckClock, ScanWorkspace, GoOn, Loop
<1>4. CASE TryWaitFails
  BY <1>2, <1>4 DEF TryWaitFails
<1>5. CASE CheckDone
  BY <1>5, GoOnHolds DEF JobInv, TypeOK, CheckDone, GoOn, Loop
<1>6. CASE Recheck \/ CheckReadErrors
  BY <1>2, <1>6, GoOnHolds, ToolJobAssumption
  DEF JobInv, TypeOK, Recheck, CheckReadErrors, GoOn
<1>7. CASE Rescan \/ CheckStatus \/ NextTool
  BY <1>2, <1>7, GoOnHolds DEF JobInv, TypeOK, Rescan, CheckStatus, NextTool, GoOn
<1>8. QED
  BY <1>1, <1>3, <1>4, <1>5, <1>6, <1>7

LEMMA TryWaitHolds ==
  ASSUME JobInv, TryWait
  PROVE  JobInv'
<1>1. TypeOK' /\ Quiet'
  BY DEF JobInv, TypeOK, Quiet, TryWait, io, Before, Loop, After, Exits
<1>2. ReadersGone' /\ ReadersReady' /\ LogFits' /\ NoReadError'
  BY DEF TryWait, ReadersGone, ReadersReady, LogFits, NoReadError, Before, After
<1>3. EndReached'
  <2>1. Writers' => Writers
    BY DEF Writers, Alive, TryWait
  <2>2. QED
    BY <2>1, EndStays DEF TryWait
<1>4. QED
  BY <1>1, <1>2, <1>3, IoStays DEF JobInv, TryWait

LEMMA StopGroupHolds ==
  ASSUME JobInv, StopGroup
  PROVE  JobInv'
<1>1. TypeOK' /\ Quiet'
  BY DEF JobInv, TypeOK, Quiet, StopGroup, Stop, Stopped, io, Before, Loop, After, Exits
<1>2. ReadersGone' /\ ReadersReady' /\ LogFits' /\ NoReadError'
  BY DEF JobInv, StopGroup, ReadersGone, ReadersReady, LogFits, NoReadError, Before, After, io
<1>3. EndReached'
  <2>1. Writers' => Writers
    BY DEF Writers, Alive, StopGroup, Stop
  <2>2. QED
    BY <2>1, EndStays DEF StopGroup
<1>4. QED
  BY <1>1, <1>2, <1>3, IoStays DEF JobInv, StopGroup

LEMMA SpawnHolds ==
  ASSUME JobInv, Spawn
  PROVE  JobInv'
<1>1. /\ \A s \in Streams : reader[s] = "gone" /\ pipe[s] = 0 /\ chunk[s].n = 0
      /\ captured <= CaptureLimit
  BY ToolJobAssumption
  DEF JobInv, TypeOK, Spawn, ReadersGone, ReadersReady, LogFits, NoReadError, EndReached, ChunkCounted, Before
<1>2. TypeOK' /\ Quiet'
  BY DEF JobInv, TypeOK, Quiet, Spawn, Before, Loop, After, Exits, Readers
<1>3. ReadersGone' /\ ReadersReady' /\ LogFits' /\ NoReadError' /\ EndReached'
  BY DEF Spawn, ReadersGone, ReadersReady, LogFits, NoReadError, EndReached, Before, After
<1>4. ChunkCounted' /\ Accounted' /\ KeptAll'
  BY <1>1 DEF JobInv, TypeOK, Spawn, ChunkCounted, Accounted, KeptAll, Streams
<1>5. KeptFits'
  <2>1. Take(chunk["stdout"]) = 0 /\ Take(chunk["stderr"]) = 0
    BY <1>1, TakeFacts DEF JobInv, TypeOK, Streams
  <2>2. QED
    BY <2>1, ToolJobAssumption DEF JobInv, TypeOK, Spawn, KeptFits, Take, Streams
<1>6. QED
  BY <1>2, <1>3, <1>4, <1>5 DEF JobInv

LEMMA ReadersStart ==
  ASSUME JobInv, StartReaders \/ ReadersFail
  PROVE  JobInv'
<1>1. CASE StartReaders
  <2>1. TypeOK' /\ Quiet'
    BY <1>1 DEF JobInv, TypeOK, Quiet, StartReaders, procs, Before, Loop, After, Readers
  <2>2. ReadersGone' /\ ReadersReady' /\ LogFits' /\ NoReadError' /\ EndReached'
    BY <1>1 DEF StartReaders, ReadersGone, ReadersReady, LogFits, NoReadError, EndReached, Before, After
  <2>3. ChunkCounted' /\ Accounted' /\ KeptAll' /\ KeptFits'
    BY <1>1 DEF JobInv, StartReaders, ReadersReady, ChunkCounted, Accounted, KeptAll, KeptFits, Take
  <2>4. QED
    BY <2>1, <2>2, <2>3 DEF JobInv
<1>2. CASE ReadersFail
  <2>1. reader' \in [Streams -> Readers] /\ \A s \in Streams : reader[s] = "ready"
    BY <1>2 DEF JobInv, ReadersReady, ReadersFail, Readers
  <2>2. Stop /\ pc' = "ended" /\ status' = status
        /\ UNCHANGED <<pipe, sent, chunk, kept, broken, captured, writes>>
    BY <1>2 DEF ReadersFail
  <2>3. QED
    BY <2>1, <2>2, ReturnHolds
<1>3. QED
  BY <1>1, <1>2

-----------------------------------------------------------------------------
\* A reader that still works is neither before nor after the loop, so that what
\* holds there is not touched.
LEMMA AtWork ==
  ASSUME JobInv, NEW s \in Streams, reader[s] # "gone",
         UNCHANGED pc, reader[s] # "ready" \/ UNCHANGED reader
  PROVE  ReadersGone' /\ ReadersReady' /\ LogFits' /\ NoReadError'
BY DEF JobInv, ReadersGone, ReadersReady, LogFits, NoReadError, Before, After

LEMMA ReadChunkHolds ==
  ASSUME JobInv, NEW s \in Streams, ReadChunk(s)
  PROVE  JobInv'
<1>1. PICK n \in 1..pipe[s] :
        /\ pipe' = [pipe EXCEPT ![s] = @ - n]
        /\ chunk' = [chunk EXCEPT ![s] = [n |-> n, previous |-> captured]]
        /\ captured' = captured + n
  BY DEF ReadChunk
<1>2. n \in Nat \ {0} /\ pipe[s] - n \in Nat
  BY <1>1 DEF JobInv, TypeOK
<1>3. TypeOK' /\ Quiet'
  BY <1>1, <1>2 DEF JobInv, TypeOK, Quiet, ReadChunk, Reading, procs, Readers
<1>4. ReadersGone' /\ ReadersReady' /\ LogFits' /\ NoReadError'
  BY AtWork DEF ReadChunk, Reading
<1>5. EndReached'
  <2>1. Writers' = Writers
    BY DEF ReadChunk, Reading, procs, Writers, Alive
  <2>2. captured > CaptureLimit => captured' > CaptureLimit
    BY <1>1, <1>2, ToolJobAssumption DEF JobInv, TypeOK
  <2>3. \A t \in Streams : reader'[t] \in {"finished", "gone"} =>
          t # s /\ reader[t] = reader'[t] /\ pipe[t] = pipe'[t]
    BY <1>1 DEF JobInv, TypeOK, ReadChunk
  <2>4. QED
    BY <2>1, <2>2, <2>3 DEF JobInv, EndReached, ReadChunk, Reading
<1>6. ChunkCounted'
  BY <1>1, <1>2 DEF JobInv, TypeOK, ChunkCounted, ReadChunk
<1>9. Accounted'
  BY <1>1, <1>2 DEF JobInv, TypeOK, Accounted, ReadChunk, Reading, Streams
<1>10. KeptAll'
  <2>1. chunk[s].n = 0 /\ captured <= captured'
    BY <1>1, <1>2 DEF JobInv, TypeOK, ChunkCounted, ReadChunk
  <2>2. captured' <= CaptureLimit => captured <= CaptureLimit
    BY <1>1, <1>2, <2>1, ToolJobAssumption DEF JobInv, TypeOK
  <2>3. \A t \in Streams : chunk'[t].n + pipe'[t] = chunk[t].n + pipe[t]
    BY <1>1, <1>2, <2>1 DEF JobInv, TypeOK
  <2>4. \A t \in Streams : kept[t] + chunk[t].n + pipe[t] = kept[t] + chunk'[t].n + pipe'[t]
    BY <1>1, <1>2, <2>3 DEF JobInv, TypeOK
  <2>5. QED
    BY <2>2, <2>4 DEF JobInv, KeptAll, ReadChunk, Reading
<1>7. KeptFits'
  <2>1. /\ Take(chunk[s]) = 0
        /\ Take(chunk'[s]) <= n
        /\ captured + Take(chunk'[s]) <= CaptureLimit \/ Take(chunk'[s]) = 0
        /\ Take(chunk'[s]) \in Nat
    BY <1>1, <1>2, TakeFacts DEF JobInv, TypeOK, ChunkCounted, ReadChunk
  <2>2. \A t \in Streams \ {s} : Take(chunk'[t]) = Take(chunk[t]) /\ Take(chunk[t]) \in Nat
    BY <1>1, TakeFacts DEF JobInv, TypeOK
  <2>3. CASE s = "stdout"
    BY <1>1, <1>2, <2>1, <2>2, <2>3, ToolJobAssumption DEF JobInv, TypeOK, KeptFits, ReadChunk, Streams
  <2>4. CASE s = "stderr"
    BY <1>1, <1>2, <2>1, <2>2, <2>4, ToolJobAssumption DEF JobInv, TypeOK, KeptFits, ReadChunk, Streams
  <2>5. QED
    BY <2>3, <2>4 DEF Streams
<1>8. QED
  BY <1>3, <1>4, <1>5, <1>6, <1>9, <1>10, <1>7 DEF JobInv

LEMMA StoreChunkHolds ==
  ASSUME JobInv, NEW s \in Streams, StoreChunk(s)
  PROVE  JobInv'
<1>1. /\ Take(chunk[s]) \in Nat
      /\ captured <= CaptureLimit => Take(chunk[s]) = chunk[s].n
  BY TakeFacts, ToolJobAssumption DEF JobInv, TypeOK, ChunkCounted
<1>2. TypeOK' /\ Quiet'
  BY <1>1 DEF JobInv, TypeOK, Quiet, StoreChunk, Reading, procs, Readers
<1>3. ReadersGone' /\ ReadersReady' /\ LogFits' /\ NoReadError'
  BY AtWork DEF StoreChunk, Reading
<1>4. EndReached'
  <2>1. Writers' = Writers
    BY DEF StoreChunk, Reading, procs, Writers, Alive
  <2>2. reader'[s] = "finished" => captured > CaptureLimit
    BY ToolJobAssumption DEF JobInv, TypeOK, ChunkCounted, StoreChunk
  <2>3. QED
    BY <2>1, <2>2 DEF JobInv, TypeOK, EndReached, StoreChunk, Reading
<1>5. ChunkCounted' /\ Accounted' /\ KeptAll'
  BY <1>1 DEF JobInv, TypeOK, ChunkCounted, Accounted, KeptAll, StoreChunk, Reading, Streams
<1>6. KeptFits'
  <2>1. Take(chunk'[s]) = 0
    BY TakeFacts, ToolJobAssumption DEF JobInv, TypeOK, StoreChunk, Take
  <2>2. \A t \in Streams \ {s} : Take(chunk'[t]) = Take(chunk[t]) /\ Take(chunk[t]) \in Nat
    BY TakeFacts DEF JobInv, TypeOK, StoreChunk
  <2>3. CASE s = "stdout"
    BY <1>1, <2>1, <2>2, <2>3 DEF JobInv, TypeOK, KeptFits, StoreChunk, Streams
  <2>4. CASE s = "stderr"
    BY <1>1, <2>1, <2>2, <2>4 DEF JobInv, TypeOK, KeptFits, StoreChunk, Streams
  <2>5. QED
    BY <2>3, <2>4 DEF Streams
<1>7. QED
  BY <1>2, <1>3, <1>4, <1>5, <1>6 DEF JobInv

LEMMA ReaderEnds ==
  ASSUME JobInv, NEW s \in Streams, EndOfFile(s) \/ ReadError(s) \/ Publish(s)
  PROVE  JobInv'
<1>1. /\ pc' = pc /\ procs' = procs /\ reader[s] \in {"reading", "finished"}
      /\ UNCHANGED <<status, pipe, sent, chunk, kept, captured, writes>>
      /\ broken' \in {broken, broken \cup {s}}
      /\ \E r \in {"finished", "gone"} : reader' = [reader EXCEPT ![s] = r]
  BY DEF EndOfFile, ReadError, Publish, Reading
<1>2. TypeOK' /\ Quiet'
  BY <1>1 DEF JobInv, TypeOK, Quiet, procs, Readers
<1>3. ReadersGone' /\ ReadersReady' /\ LogFits' /\ NoReadError'
  BY <1>1, AtWork
<1>4. EndReached'
  <2>1. Writers' = Writers
    BY <1>1 DEF procs, Writers, Alive
  <2>2. pc # "ended" => s \in broken' \/ captured > CaptureLimit \/ (pipe[s] = 0 /\ ~Writers)
    BY DEF JobInv, EndReached, EndOfFile, ReadError, Publish
  <2>3. QED
    BY <1>1, <2>1, <2>2 DEF JobInv, TypeOK, EndReached
<1>5. ChunkCounted'
  BY <1>1 DEF JobInv, TypeOK, ChunkCounted
<1>6. Accounted' /\ KeptAll' /\ KeptFits'
  BY <1>1 DEF JobInv, Accounted, KeptAll, KeptFits, Take
<1>7. QED
  BY <1>2, <1>3, <1>4, <1>5, <1>6 DEF JobInv

\* What a process does, but for writing: it has not been stopped.
LEMMA ProcsHold ==
  ASSUME JobInv, io' = io, UNCHANGED <<pc, status>>, Writers' => Writers, Quiet',
         child' \in {"none", "running", "zombie", "reaped"}, exit' \in Exits,
         helper' \in {"none", "within", "stray", "dead", "dead_stray"},
         attached' \in BOOLEAN
  PROVE  JobInv'
<1>1. TypeOK'
  BY DEF JobInv, TypeOK, io
<1>2. ReadersGone' /\ ReadersReady' /\ LogFits' /\ NoReadError'
  BY DEF JobInv, ReadersGone, ReadersReady, LogFits, NoReadError, io
<1>3. EndReached'
  BY EndStays DEF EndReached
<1>4. QED
  BY <1>1, <1>2, <1>3, IoStays DEF JobInv

LEMMA WriteHolds ==
  ASSUME JobInv, NEW s \in Streams, Write(s)
  PROVE  JobInv'
<1>1. CASE ReadEnd(s)
  <2>1. /\ pipe' = [pipe EXCEPT ![s] = @ + 1] /\ sent' = [sent EXCEPT ![s] = @ + 1]
        /\ writes' = writes + 1 /\ procs' = procs /\ Writers /\ Environment
    BY <1>1 DEF Write, procs
  <2>2. TypeOK' /\ Quiet'
    BY <2>1 DEF JobInv, TypeOK, Quiet, procs, Environment
  <2>3. ReadersGone' /\ ReadersReady' /\ LogFits' /\ NoReadError'
    BY <2>1, <1>1, AtWork DEF ReadEnd, Environment
  <2>4. EndReached'
    <3>1. Writers' = Writers
      BY <2>1 DEF procs, Writers, Alive
    <3>2. QED
      BY <2>1, <3>1 DEF JobInv, EndReached, Environment
  <2>5. ChunkCounted' /\ Accounted' /\ KeptAll'
    BY <2>1 DEF JobInv, TypeOK, ChunkCounted, Accounted, KeptAll, Environment, Streams
  <2>6. KeptFits'
    BY <2>1 DEF JobInv, KeptFits, Environment, Take
  <2>7. QED
    BY <2>2, <2>3, <2>4, <2>5, <2>6 DEF JobInv
<1>2. CASE ~ReadEnd(s)
  <2>1. /\ Alive(child) /\ child' = "zombie" /\ exit' = "failure"
        /\ io' = io /\ UNCHANGED <<pc, status, helper, attached>>
    BY <1>2 DEF Write, io, Environment
  <2>2. Quiet' /\ (Writers' => Writers)
    BY <2>1 DEF JobInv, Quiet, Writers, Alive
  <2>3. QED
    BY <2>1, <2>2, ProcsHold DEF JobInv, TypeOK, Exits
<1>3. QED
  BY <1>1, <1>2

\* None of the processes that can be reached lives after the stop.
LEMMA ProcessHolds ==
  ASSUME JobInv, ChildExits \/ ForkHelper \/ HelperStep \/ FillWorkspace \/ Tick
  PROVE  JobInv'
<1>1. io' = io /\ UNCHANGED <<pc, status>>
  BY DEF ChildExits, ForkHelper, HelperStep, FillWorkspace, Tick, Environment, io
<1>2. /\ child' \in {"none", "running", "zombie", "reaped"} /\ exit' \in Exits
      /\ attached' \in BOOLEAN
      /\ helper' \in {"none", "within", "stray", "dead", "dead_stray"}
  BY DEF JobInv, TypeOK, ChildExits, ForkHelper, HelperStep, FillWorkspace, Tick, procs, Exits
<1>3. Quiet'
  BY <1>1 DEF JobInv, Quiet, ChildExits, ForkHelper, HelperStep, FillWorkspace, Tick,
              Alive, procs
<1>4. Writers' => Writers
  BY DEF ChildExits, ForkHelper, HelperStep, FillWorkspace, Tick, Writers, Alive, procs
<1>5. QED
  BY <1>1, <1>2, <1>3, <1>4, ProcsHold

-----------------------------------------------------------------------------
LEMMA StepHolds == JobInv /\ [Next]_vars => JobInv'
<1> SUFFICES ASSUME JobInv, [Next]_vars PROVE JobInv'
  OBVIOUS
<1>1. CASE JobStep \/ NextTool
  BY <1>1, LoopHolds, TryWaitHolds, StopGroupHolds, SpawnHolds, ReadersStart DEF JobStep
<1>2. CASE BesideStep
  BY <1>2, ReadChunkHolds, StoreChunkHolds, ReaderEnds, WriteHolds, ProcessHolds DEF BesideStep
<1>3. CASE UNCHANGED vars
  <2>1. /\ io' = io /\ UNCHANGED <<pc, status, child, exit, helper, attached>>
    BY <1>3 DEF vars, procs
  <2>2. TypeOK' /\ Quiet' /\ ReadersGone' /\ ReadersReady' /\ LogFits' /\ NoReadError' /\ EndReached'
    BY <2>1
    DEF JobInv, TypeOK, Quiet, ReadersGone, ReadersReady, LogFits, NoReadError, EndReached, io, Writers, Alive
  <2>3. QED
    BY <2>1, <2>2, IoStays DEF JobInv
<1>4. QED
  BY <1>1, <1>2, <1>3 DEF Next

LEMMA JobInvariant == Spec => []JobInv
BY InitHolds, StepHolds, PTL DEF Spec

\* Whatever a run of a tool returns, its child is gone, and on Unix its process
\* group (Job::run and the drop of RunningChild).
THEOREM NothingIsLeftRunning == Spec => []NothingLeftRunning
<1>1. JobInv => NothingLeftRunning
  BY DEF JobInv, TypeOK, Quiet, NothingLeftRunning, Alive
<1>2. QED
  BY <1>1, JobInvariant, PTL

\* Output that is returned as success is all that the tool wrote to its pipes
\* (Capture, and the checks after the loop of Job::run).
THEOREM OkOutputIsWhole == Spec => []OkOutputIsComplete
<1>1. JobInv => OkOutputIsComplete
  BY ToolJobAssumption
  DEF JobInv, TypeOK, OkOutputIsComplete, Succeeded, ReadersGone, ReadersReady, LogFits, NoReadError,
      EndReached, ChunkCounted, KeptAll, After
<1>2. QED
  BY <1>1, JobInvariant, PTL

\* One limit holds for the log of all tools of a command (MAX_CAPTURE_BYTES).
THEOREM LogLimitHoldsForCommand == Spec => []LogLimitIsShared
<1>1. JobInv => LogLimitIsShared
  <2> SUFFICES ASSUME JobInv PROVE LogLimitIsShared
    OBVIOUS
  <2>1. Take(chunk["stdout"]) \in Nat /\ Take(chunk["stderr"]) \in Nat
    BY TakeFacts DEF JobInv, TypeOK, Streams
  <2>2. kept["stdout"] + kept["stderr"] <= CaptureLimit
    BY <2>1, ToolJobAssumption DEF JobInv, TypeOK, KeptFits, Streams
  <2>3. Succeeded => writes <= CaptureLimit
    BY ToolJobAssumption
    DEF JobInv, TypeOK, Succeeded, ReadersGone, ReadersReady, LogFits, NoReadError, EndReached, Accounted,
        After, Streams
  <2>4. QED
    BY <2>2, <2>3 DEF LogLimitIsShared
<1>2. QED
  BY <1>1, JobInvariant, PTL
-----------------------------------------------------------------------------
(***************************************************************************)
(* ToolRun, as far as safety goes.                                         *)
(***************************************************************************)
\* What a command sees of a run.
Seen == <<platform, RunOf, LeftOf>>

LEMMA BesideKeepsPromise ==
  ASSUME JobInv, BesideStep
  PROVE  [Promise!Next]_Seen
<1>1. ASSUME UNCHANGED <<platform, pc, child, helper>>
      PROVE  UNCHANGED Seen
  BY <1>1 DEF Seen, RunOf, LeftOf, Alive
<1>2. ASSUME NEW s \in Streams, ReadChunk(s) \/ StoreChunk(s) \/ EndOfFile(s) \/ ReadError(s) \/ Publish(s)
      PROVE  UNCHANGED <<platform, pc, child, helper>>
  BY <1>2 DEF ReadChunk, StoreChunk, EndOfFile, ReadError, Publish, Reading, procs
<1>3. CASE UNCHANGED <<platform, pc, child, helper>>
  BY <1>1, <1>3
<1>4. ASSUME Alive(child), child' = "zombie", UNCHANGED <<platform, pc, helper>>
      PROVE  [Promise!Next]_Seen
  BY <1>4 DEF Seen, RunOf, LeftOf, Alive, Promise!Next, Promise!Change
<1>5. ASSUME NEW s \in Streams, Write(s)
      PROVE  [Promise!Next]_Seen
  BY <1>3, <1>4, <1>5 DEF Write, Environment
<1>6. CASE ChildExits
  BY <1>4, <1>6 DEF ChildExits, Environment
<1>7. CASE ForkHelper
  BY <1>7 DEF ForkHelper, Environment, Seen, RunOf, LeftOf, Alive, Promise!Next, Promise!Change
<1>8. CASE HelperStep
  BY <1>8 DEF HelperStep, Environment, Seen, RunOf, LeftOf, Alive, Promise!Next, Promise!Change
<1>9. CASE FillWorkspace \/ Tick
  BY <1>3, <1>9 DEF FillWorkspace, Tick, Environment, procs
<1>10. QED
  BY <1>2, <1>3, <1>5, <1>6, <1>7, <1>8, <1>9 DEF BesideStep

LEMMA JobStepKeepsPromise ==
  ASSUME JobInv, JobStep \/ NextTool
  PROVE  [Promise!Next]_Seen
<1> DEFINE NotRunning == {"idle", "spawn", "between", "ended"}
<1>1. ASSUME NEW next, GoOn(next), pc \notin NotRunning, next \notin NotRunning
      PROVE  UNCHANGED Seen
  BY <1>1 DEF GoOn, Seen, RunOf, LeftOf, Alive, procs
<1>2. ASSUME Stop, pc' = "ended", platform' = platform, pc \notin NotRunning
      PROVE  Promise!Next
  BY <1>2
  DEF Stop, Stopped, RunOf, LeftOf, Alive, JobInv, TypeOK, Promise!Next, Promise!Return, Promise!Stopped
<1>3. ASSUME NEW result, Return(result), pc \notin NotRunning
      PROVE  Promise!Next
  BY <1>2, <1>3 DEF Return
<1>4. CASE Start \/ SpawnFails
  BY <1>4 DEF Start, SpawnFails, GoOn, Seen, RunOf, LeftOf, Alive, procs, Promise!Next, Promise!Start
<1>5. CASE Spawn
  BY <1>5 DEF Spawn, JobInv, TypeOK, Quiet, Before, Seen, RunOf, LeftOf, Alive, Promise!Next, Promise!Start
<1>6. CASE StartReaders \/ ReadersFail
  BY <1>2, <1>6 DEF StartReaders, ReadersFail, Seen, RunOf, LeftOf, Alive, procs
<1>7. CASE CheckLimit \/ CheckClock \/ ScanWorkspace \/ TryWaitFails \/ CheckDone
  BY <1>1, <1>3, <1>7 DEF CheckLimit, CheckClock, ScanWorkspace, TryWaitFails, CheckDone
<1>8. CASE TryWait
  BY <1>8 DEF TryWait, Seen, RunOf, LeftOf, Alive
<1>9. CASE Recheck \/ CheckReadErrors \/ Rescan
  BY <1>1, <1>3, <1>9 DEF Recheck, CheckReadErrors, Rescan
<1>10. CASE StopGroup
  BY <1>10
  DEF StopGroup, Stop, Stopped, JobInv, TypeOK, Seen, RunOf, LeftOf, Alive, Promise!Next, Promise!Stop,
      Promise!Stopped
<1>11. CASE CheckStatus
  <2>1. CASE \E result : Return(result)
    BY <1>3, <1>11, <2>1 DEF CheckStatus
  <2>2. CASE pc = "status" /\ pc' = "between" /\ procs' = procs /\ platform' = platform
    BY <2>2
    DEF JobInv, TypeOK, Quiet, procs, RunOf, LeftOf, Alive, Promise!Next, Promise!Return, Promise!Stopped
  <2>3. QED
    BY <1>11, <2>1, <2>2 DEF CheckStatus
<1>12. CASE NextTool
  BY <1>12 DEF NextTool, procs, Seen, RunOf, LeftOf, Alive, Promise!Next, Promise!Again
<1>13. QED
  BY <1>4, <1>5, <1>6, <1>7, <1>8, <1>9, <1>10, <1>11, <1>12 DEF JobStep

\* Every step of a run is one that ToolRun allows the command to see, whatever
\* the tool, the readers and the clock do: above all, no return but with the child
\* gone, and on Unix its process group.
THEOREM JobKeepsPromise == Spec => Promise!Init /\ [][Promise!Next]_Seen
<1>1. Init => Promise!Init
  BY DEF Init, Promise!Init, RunOf, LeftOf, Alive
<1>2. JobInv /\ [Next]_vars => [Promise!Next]_Seen
  <2>1. CASE UNCHANGED vars
    BY <2>1 DEF vars, procs, Seen, RunOf, LeftOf, Alive
  <2>2. QED
    BY <2>1, BesideKeepsPromise, JobStepKeepsPromise DEF Next
<1>3. QED
  BY <1>1, <1>2, JobInvariant, PTL DEF Spec
=============================================================================
