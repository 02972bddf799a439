-------------------------- MODULE HdlCommandProofs ---------------------------
(***************************************************************************)
(* What holds of a publication of a directory, of a command that runs      *)
(* tools and publishes what they made, for any number of files, any other  *)
(* processes, platforms and faults, and of what the command export makes   *)
(* of a design, for any design.                                            *)
(***************************************************************************)
EXTENDS HdlCommand, NetlistExport, FiniteSetTheorems, WellFoundedInduction, TLAPS

-----------------------------------------------------------------------------
(***************************************************************************)
(* Publication.                                                            *)
(*                                                                         *)
(* A claimed name ties the destination to one process: off Windows a       *)
(* process that is about to rename, or to undo its claim, finds its own    *)
(* empty directory there.                                                  *)
(***************************************************************************)
States == Live \cup {"idle", "done", "failed", "dead"}

Contents == {Absent, Other} \cup Empties \cup {Project(p) : p \in Processes}

TypeOK ==
  /\ platform \in {"linux", "unix", "windows"}
  /\ pc \in [Processes -> States]
  /\ destination \in Contents
  /\ scratch \in SUBSET Processes
  /\ files \in [Processes -> Nat]
  /\ stuck \in SUBSET Processes

\* The platform decides which of the calls of rename_new are made.
PathOfPlatform ==
  \A p \in Processes :
    /\ pc[p] = "claim" => platform # "linux"
    /\ pc[p] = "release" => platform = "windows"
    /\ pc[p] = "undo" => platform # "linux"

FilesBeforeRename ==
  \A p \in Processes :
    pc[p] \in {"claim", "release", "rename", "done"} => files[p] = Parts

DoneIsPublished ==
  \A p \in Processes : pc[p] = "done" <=> destination = Project(p)

ScratchIsHeld ==
  \A p \in scratch :
    \/ pc[p] \in {"populate", "claim", "release", "rename", "undo", "drop", "dead"}
    \/ p \in stuck

ClaimIsHeld ==
  \A p \in Processes : destination = Empty(p) =>
    /\ platform # "linux"
    /\ pc[p] \in {"release", "rename", "undo", "dead"} \/ p \in stuck

\* Off Windows a claimed name stays claimed until the rename or its undoing.
RenameHasClaim ==
  \A p \in Processes :
    platform = "unix" /\ pc[p] \in {"rename", "undo"} => destination = Empty(p)

PublishInv ==
  /\ TypeOK /\ PathOfPlatform /\ FilesBeforeRename /\ DoneIsPublished
  /\ ScratchIsHeld /\ ClaimIsHeld /\ RenameHasClaim

-----------------------------------------------------------------------------
\* What is at the destination says who put it there.
LEMMA ContentsDiffer ==
  /\ Absent # Other
  /\ \A p, q : /\ Empty(p) # Absent /\ Empty(p) # Other /\ Project(p) # Absent
               /\ Project(p) # Other /\ Empty(p) # Project(q)
               /\ Empty(p) = Empty(q) => p = q
               /\ Project(p) = Project(q) => p = q
BY DEF Absent, Other, Empty, Project

LEMMA SomeoneElse ==
  ASSUME NEW p \in Processes
  PROVE  /\ Empty(p) # Empty(Someone) /\ Empty(p) \in Empties
         /\ Empty(p) \in Contents /\ Project(p) \in Contents
BY PublishDirectoryAssumption DEF Empty, Empties, Contents

\* Published projects are not among the empty directories.
LEMMA EmptiesAreEmpty ==
  /\ Absent \notin Empties /\ Other \notin Empties
  /\ \A p : Project(p) \notin Empties
  /\ \A d \in Empties : \E p \in Processes \cup {Someone} : d = Empty(p)
BY DEF Empties, Empty, Absent, Other, Project

\* A step of one process leaves the others where they are.
LEMMA OneProcess ==
  ASSUME TypeOK, NEW p \in Processes, NEW s \in States, GoTo(p, s)
  PROVE  /\ pc' \in [Processes -> States] /\ pc'[p] = s
         /\ \A q \in Processes : q # p => pc'[q] = pc[q]
BY DEF GoTo, TypeOK

\* What publications hold at every step, whatever fails and whoever is killed.
THEOREM PublishInvariant == Spec => []PublishInv
<1>1. Init => PublishInv
  BY PublishDirectoryAssumption, ContentsDiffer, SomeoneElse, EmptiesAreEmpty
     DEF Init, PublishInv, TypeOK, PathOfPlatform, FilesBeforeRename,
         DoneIsPublished, ScratchIsHeld, ClaimIsHeld, RenameHasClaim,
         States, Live, Contents, Empties
<1>2. PublishInv /\ [Next]_vars => PublishInv'
  <2> SUFFICES ASSUME PublishInv, [Next]_vars PROVE PublishInv'
    OBVIOUS
  <2> USE DEF PublishInv, PathOfPlatform, FilesBeforeRename, DoneIsPublished,
              ScratchIsHeld, ClaimIsHeld, RenameHasClaim
  <2>1. CASE UNCHANGED vars
    BY <2>1 DEF vars, TypeOK
  <2>2. CASE Intrude /\ UNCHANGED platform
    BY <2>2, ContentsDiffer, SomeoneElse, PublishDirectoryAssumption
       DEF Intrude, TypeOK, Contents, Empties
  <2> SUFFICES ASSUME NEW p \in Processes, Step(p), platform' = platform
               PROVE  PublishInv'
    BY <2>1, <2>2 DEF Next, Ended
  <2> USE ContentsDiffer, SomeoneElse, OneProcess
  <2>3. CASE Look(p)
    BY <2>3 DEF Look, TypeOK, States, Live
  <2>4. CASE NewScratch(p)
    BY <2>4 DEF NewScratch, Broken, TypeOK, States, Live
  <2>5. CASE Populate(p)
    BY <2>5 DEF Populate, Broken, TypeOK, States, Live
  <2>6. CASE Claim(p)
    BY <2>6 DEF Claim, Broken, TypeOK, States, Live
  <2>7. CASE ReleaseName(p)
    BY <2>7, EmptiesAreEmpty DEF ReleaseName, TypeOK, States, Live, Contents
  <2>8. CASE Rename(p)
    BY <2>8, EmptiesAreEmpty
       DEF Rename, Broken, MayReplace, MayRefuse, AfterRename, TypeOK, States, Live
  <2>9. CASE Undo(p)
    BY <2>9, EmptiesAreEmpty DEF Undo, TypeOK, States, Live, Contents
  <2>10. CASE Drop(p)
    BY <2>10 DEF Drop, TypeOK, States, Live
  <2>11. CASE Kill(p)
    BY <2>11 DEF Kill, TypeOK, States, Live
  <2>12. QED
    BY <2>3, <2>4, <2>5, <2>6, <2>7, <2>8, <2>9, <2>10, <2>11 DEF Step
<1>3. QED
  BY <1>1, <1>2, PTL DEF Spec

\* A project at the destination is whole and was reported: publish renames only
\* what populate finished.
THEOREM Published == Spec => []PublishedIsWhole
<1>1. PublishInv => PublishedIsWhole
  BY DEF PublishInv, DoneIsPublished, FilesBeforeRename, PublishedIsWhole
<1>2. QED
  BY <1>1, PublishInvariant, PTL

\* Whoever is told of success is the one whose project is there.
THEOREM Success == Spec => []SuccessMeansPublished
<1>1. PublishInv => SuccessMeansPublished
  BY DEF PublishInv, DoneIsPublished, SuccessMeansPublished
<1>2. QED
  BY <1>1, PublishInvariant, PTL

\* A run that ended leaves nothing of its own, however many ran beside it.
THEOREM Failure == Spec => []FailureLeavesNothing
<1>1. PublishInv => FailureLeavesNothing
  BY DEF PublishInv, ScratchIsHeld, ClaimIsHeld, FailureLeavesNothing
<1>2. QED
  BY <1>1, PublishInvariant, PTL

\* What somebody else put at the destination stays, except what is empty on
\* Windows.
THEOREM Kept == Spec => ContentIsKept
<1> DEFINE Keeps == destination # Absent /\ destination' # destination =>
              \/ \E p \in Processes : destination = Empty(p) /\ pc'[p] # pc[p]
              \/ platform = "windows" /\ destination \in Empties
<1>1. PublishInv /\ [Next]_vars => [Keeps]_vars
  <2> SUFFICES ASSUME PublishInv, Next, destination # Absent,
                      destination' # destination
               PROVE  Keeps
    BY DEF vars
  <2>1. PICK p \in Processes : Step(p)
    BY DEF Next, Intrude, Ended, vars
  <2>2. ReleaseName(p) \/ Rename(p) \/ Undo(p)
    BY <2>1 DEF Step, Look, NewScratch, Populate, Claim, Drop, Kill, Broken
  <2>3. /\ pc \in [Processes -> States] /\ platform \in {"linux", "unix", "windows"}
        /\ PathOfPlatform /\ RenameHasClaim /\ ClaimIsHeld
    BY DEF PublishInv, TypeOK
  <2>4. CASE ReleaseName(p)
    BY <2>3, <2>4 DEF ReleaseName, PathOfPlatform
  <2>5. CASE Rename(p)
    BY <2>3, <2>5 DEF Rename, MayReplace, Broken, GoTo, RenameHasClaim
  <2>6. CASE Undo(p)
    BY <2>3, <2>6 DEF Undo, GoTo, RenameHasClaim, PathOfPlatform
  <2>7. QED
    BY <2>2, <2>4, <2>5, <2>6
<1>2. QED
  BY <1>1, PublishInvariant, PTL DEF Spec, ContentIsKept

-----------------------------------------------------------------------------
(***************************************************************************)
(* A command publishes as PublishDirectory says, so that what is proved of *)
(* that is true of commands.                                               *)
(***************************************************************************)
LEMMA StepPublishes == [HdlNext]_allVars => [Next]_vars
<1> SUFFICES ASSUME HdlNext, ~UNCHANGED vars PROVE Next
  BY DEF allVars
<1>1. ~Inside
  BY DEF Inside
<1>2. Save \/ Outside
  BY <1>1
  DEF HdlNext, CommandStep, LookFirst, Prepare, RunTool, ToolFails, CheckNext, Probe,
      ReadResult, Compare, CheckReserved, ToolChanges, ChangeFile, Fails
<1>3. CASE Save
  BY <1>3, HdlCommandAssumption DEF Save, MyStep, Next, Step
<1>4. CASE Outside
  BY <1>4, HdlCommandAssumption DEF Outside, Next, Step
<1>5. QED
  BY <1>2, <1>3, <1>4

\* Whatever a command does before, and whatever its tools do, it publishes as
\* publish promises (export_project, copy_artifacts).
THEOREM CommandsPublish == HdlSpec => Spec
<1>1. HdlInit => Init
  BY DEF HdlInit
<1>2. QED
  BY <1>1, StepPublishes, PTL DEF HdlSpec, Spec

-----------------------------------------------------------------------------
LeftOK ==
  /\ left \subseteq {"child", "helper", "stray"}
  /\ run # "running" => left \subseteq {"stray"}

\* From the first look at what a tool made, and from the last.
Settled == command \in Saving /\ phase \in {"logs", "publish", "done"}

SettledRan == Settled => run = "ok" /\ image # <<>>

ImageIsResult ==
  "stray" \notin left /\ phase \in {"logs", "publish"} => image = <<result>>

NothingReserved ==
  "stray" \notin left /\ phase \in {"publish", "done"} /\ command = "simulate" => ~reserved

SavedIsImage ==
  "stray" \notin left /\ files[Me] > 0 => saved = image /\ image # <<>>

OnlyPublishing ==
  /\ files[Me] > 0 => phase \in {"publish", "done", "failed"}
  /\ pc[Me] = "done" => phase = "done"
  /\ phase \in {"logs", "publish"} => command \in Saving

\* simulate reads its program after the first of two tools.
ReadEarly ==
  /\ command = "simulate" => count = 2 /\ (image = <<>> => tool = 1)
  /\ phase = "logs" => command = "simulate"

CheckedInv ==
  /\ LeftOK /\ SettledRan /\ ImageIsResult /\ NothingReserved
  /\ SavedIsImage /\ OnlyPublishing /\ ReadEarly

-----------------------------------------------------------------------------
LEMMA InitChecked == HdlInit => CheckedInv
BY HdlCommandAssumption
DEF HdlInit, Init, Job!Init, CheckedInv, LeftOK, Settled, SettledRan, ImageIsResult,
    NothingReserved, SavedIsImage, OnlyPublishing, ReadEarly, Saving, Commands

\* A return leaves only what was out of reach, and that does not come back into it.
LEMMA LeftHolds == CheckedInv /\ HdlNext => LeftOK' /\ ("stray" \in left => "stray" \in left')
<1> SUFFICES ASSUME CheckedInv, HdlNext
             PROVE  LeftOK' /\ ("stray" \in left => "stray" \in left')
  OBVIOUS
<1>1. CASE RunTool
  BY <1>1 DEF CheckedInv, LeftOK, RunTool, Job!Start, Job!Return, Job!Stopped
<1>2. CASE ToolChanges
  BY <1>2 DEF CheckedInv, LeftOK, ToolChanges, Job!Change, Job!Stop, Job!Stopped
<1>3. CASE CheckNext \/ Probe \/ ReadResult
  BY <1>3 DEF CheckedInv, LeftOK, CheckNext, Probe, ReadResult, NextTool, Goes, Job!Again
<1>4. CASE UNCHANGED <<run, left>>
  BY <1>4 DEF CheckedInv, LeftOK
<1>5. QED
  BY <1>1, <1>2, <1>3, <1>4
  DEF HdlNext, CommandStep, LookFirst, Prepare, ToolFails, Compare, CheckReserved, Save,
      ChangeFile, Fails, Outside, Goes, hdlVars

\* Steps of the command before it publishes.
LEMMA InsideHolds ==
  ASSUME TypeOK, CheckedInv, Inside, LeftOK',
         LookFirst \/ Prepare \/ RunTool \/ ToolFails \/ CheckNext \/ Probe \/ ReadResult
           \/ Compare \/ CheckReserved \/ Fails \/ ToolChanges
  PROVE  CheckedInv'
<1> USE DEF CheckedInv, Settled, SettledRan, ImageIsResult, NothingReserved, SavedIsImage,
            OnlyPublishing, ReadEarly, Inside, vars, LeftOK, Saving
<1>1. CASE LookFirst \/ Prepare \/ ToolFails
  BY <1>1 DEF LookFirst, Prepare, ToolFails, Goes
<1>2. CASE RunTool
  BY <1>2 DEF RunTool, Job!Start, Job!Return, Job!Stopped
<1>3. CASE ToolChanges
  BY <1>3 DEF ToolChanges, Job!Change, Job!Stop, Job!Stopped
<1>4. CASE CheckNext
  BY <1>4 DEF CheckNext, Ran, NextTool, Job!Again, Goes
<1>5. CASE Probe
  BY <1>5 DEF Probe
<1>6. CASE ReadResult
  BY <1>6 DEF ReadResult, Ran, NextTool, Job!Again, Goes
<1>7. CASE Compare \/ CheckReserved \/ Fails
  BY <1>7 DEF Compare, CheckReserved, Fails, Ran, Goes
<1>8. QED
  BY <1>1, <1>2, <1>3, <1>4, <1>5, <1>6, <1>7

\* A tool that has been stopped, and all its processes with it, changes nothing.
LEMMA ChangeHolds ==
  ASSUME TypeOK, CheckedInv, ChangeFile, LeftOK'
  PROVE  CheckedInv'
<1>1. "stray" \in left \/ run = "running"
  BY DEF ChangeFile, CheckedInv, LeftOK
<1>2. QED
  BY <1>1
  DEF ChangeFile, CheckedInv, Settled, SettledRan, ImageIsResult, NothingReserved,
      SavedIsImage, OnlyPublishing, ReadEarly, Inside, vars, LeftOK, Saving

LEMMA SaveHolds ==
  ASSUME TypeOK, TypeOK', CheckedInv, Save, LeftOK'
  PROVE  CheckedInv'
<1>1. /\ files[Me] \in Nat /\ pc'[Me] \in States
      /\ files'[Me] = files[Me] \/ files'[Me] = files[Me] + 1
  BY HdlCommandAssumption
  DEF TypeOK, Save, MyStep, Look, NewScratch, Populate, Claim, ReleaseName, Rename, Undo,
      Drop, Broken
<1>2. Settled /\ (Settled' => Settled) /\ phase' \in {"publish", "done", "failed"}
  BY DEF CheckedInv, OnlyPublishing, Settled, Save, Ending
<1>3. "stray" \notin left => image = <<result>> /\ image # <<>>
  BY <1>2 DEF CheckedInv, ImageIsResult, SettledRan, Save
<1>4. "stray" \notin left /\ files'[Me] > 0 => saved' = image
  BY <1>1, <1>3 DEF CheckedInv, SavedIsImage, Save, Copied
<1>5. SavedIsImage'
  BY <1>3, <1>4 DEF SavedIsImage, Save
<1>6. OnlyPublishing'
  BY <1>2 DEF CheckedInv, OnlyPublishing, Save, Ending
<1>7. SettledRan' /\ ImageIsResult' /\ NothingReserved' /\ ReadEarly'
  BY <1>2
  DEF CheckedInv, SettledRan, Settled, ImageIsResult, NothingReserved, ReadEarly, Save,
      Ending
<1>8. QED
  BY <1>5, <1>6, <1>7 DEF CheckedInv

\* Others do not touch what is this command's own.
LEMMA OutsideHolds ==
  ASSUME TypeOK, CheckedInv, Outside \/ UNCHANGED allVars
  PROVE  CheckedInv'
<1>1. /\ UNCHANGED hdlVars /\ files'[Me] = files[Me]
      /\ pc'[Me] = pc[Me] \/ pc'[Me] = "dead"
  BY HdlCommandAssumption
  DEF TypeOK, Outside, allVars, vars, Kill, Intrude, Step, Look, NewScratch, Populate, Claim,
      ReleaseName, Rename, Undo, Drop, Broken, GoTo
<1>2. QED
  BY <1>1
  DEF CheckedInv, hdlVars, Settled, SettledRan, ImageIsResult, NothingReserved, SavedIsImage,
      OnlyPublishing, ReadEarly, LeftOK, Saving

LEMMA StepChecked == TypeOK /\ TypeOK' /\ CheckedInv /\ [HdlNext]_allVars => CheckedInv'
<1> SUFFICES ASSUME TypeOK, TypeOK', CheckedInv, HdlNext \/ UNCHANGED allVars
             PROVE  CheckedInv'
  OBVIOUS
<1>1. CASE HdlNext
  <2>1. LeftOK'
    BY <1>1, LeftHolds
  <2>2. CASE Save
    BY <2>1, <2>2, SaveHolds
  <2>3. CASE ChangeFile
    BY <2>1, <2>3, ChangeHolds
  <2>4. CASE Outside
    BY <2>4, OutsideHolds
  <2>5. CASE Inside /\ ~ChangeFile
    BY <1>1, <2>1, <2>2, <2>4, <2>5, InsideHolds DEF HdlNext, CommandStep
  <2>6. QED
    BY <1>1, <2>2, <2>3, <2>4, <2>5
    DEF HdlNext, CommandStep, LookFirst, Prepare, RunTool, ToolFails, CheckNext, Probe,
        ReadResult, Compare, CheckReserved, ToolChanges, Fails
<1>2. CASE UNCHANGED allVars
  BY <1>2, OutsideHolds
<1>3. QED
  BY <1>1, <1>2

\* What is at the destination is what was checked (synth_inner, simulate_inner,
\* export_project), if no process of a tool was out of reach when its run returned:
\* on Unix one that has left its group, elsewhere any that outlived the child.
THEOREM CheckedIsPublished == HdlSpec => []PublishedAsChecked
<1>1. PublishInv => TypeOK
  BY DEF PublishInv
<1>2. PublishInv /\ CheckedInv => PublishedAsChecked
  <2> SUFFICES ASSUME PublishInv, CheckedInv, destination = Project(Me), "stray" \notin left
               PROVE  saved = image /\ saved # <<>> /\ (command = "simulate" => ~reserved)
    BY DEF PublishedAsChecked
  <2>1. pc[Me] = "done" /\ files[Me] = Parts
    BY HdlCommandAssumption DEF PublishInv, DoneIsPublished, FilesBeforeRename
  <2>2. phase = "done" /\ files[Me] > 0
    BY <2>1, HdlCommandAssumption DEF CheckedInv, OnlyPublishing
  <2>3. QED
    BY <2>2 DEF CheckedInv, SavedIsImage, NothingReserved
<1>3. HdlSpec => []PublishInv
  BY CommandsPublish, PublishInvariant, PTL
<1>4. QED
  BY <1>1, <1>2, <1>3, InitChecked, StepChecked, PTL DEF HdlSpec

-----------------------------------------------------------------------------
(***************************************************************************)
(* The exporter: induction, and functions that are defined by recursion,   *)
(* by a smallest counterexample.                                           *)
(***************************************************************************)
\* Of natural numbers there is a least one.
LEMMA Least ==
  ASSUME NEW T, T \subseteq Nat, T # {}
  PROVE  \E x \in T : \A y \in T : x <= y
<1> DEFINE R == {ss \in Nat \X Nat : ss[1] < ss[2]}
<1>1. IsWellFoundedOn(R, Nat)
  BY NatLessThanWellFounded DEF OpToRel
<1>2. PICK x \in T : \A y \in T : ~ (<<y, x>> \in R)
  <2> HIDE DEF R
  <2> QED
    BY <1>1, WFMin
<1>3. \A y \in T : x <= y
  <2> SUFFICES ASSUME NEW y \in T
               PROVE  x <= y
    OBVIOUS
  <2>1. <<y, x>> \in Nat \X Nat /\ <<y, x>>[1] = y /\ <<y, x>>[2] = x
    OBVIOUS
  <2>2. ~(y < x)
    BY <1>2, <2>1
  <2>3. QED
    BY <2>2
<1>4. QED
  BY <1>3

\* A set of numbers up to n that is closed under successors holds them all.
LEMMA Induction ==
  ASSUME NEW n \in Nat, NEW T, 0 \in T,
         \A i \in 1..n : i - 1 \in T => i \in T
  PROVE  \A i \in 0..n : i \in T
<1> DEFINE Bad == {i \in 0..n : i \notin T}
<1>1. SUFFICES ASSUME Bad # {}
               PROVE  FALSE
  OBVIOUS
<1>2. PICK x \in Bad : \A y \in Bad : x <= y
  <2>1. Bad \subseteq Nat
    OBVIOUS
  <2> HIDE DEF Bad
  <2>2. QED
    BY <1>1, <2>1, Least
<1>3. x \in 1..n /\ x - 1 \in 0..n
  BY <1>2
<1>4. x - 1 \in T
  BY <1>2, <1>3
<1>5. QED
  BY <1>2, <1>3, <1>4

\* A function that is defined by recursion exists: it begins with `base`, and
\* step[i] makes its value for i of the one before.
Recursive(n, S, base, step) == n \in Nat /\ base \in S /\ step \in [1..n -> [S -> S]]

Follows(f, n, base, step) == f[0] = base /\ \A i \in 1..n : f[i] = step[i][f[i - 1]]

HasSolution(n, S, base, step) == \E f \in [0..n -> S] : Follows(f, n, base, step)

LEMMA Recursion ==
  ASSUME NEW n, NEW S, NEW base, NEW step, Recursive(n, S, base, step)
  PROVE  HasSolution(n, S, base, step)
<1> DEFINE T == {m \in 0..n : HasSolution(m, S, base, step)}
<1>1. n \in Nat /\ base \in S /\ step \in [1..n -> [S -> S]]
  BY DEF Recursive
<1>2. 0 \in T
  <2>1. /\ [i \in 0..0 |-> base] \in [0..0 -> S]
        /\ Follows([i \in 0..0 |-> base], 0, base, step)
    BY <1>1 DEF Follows
  <2>2. HasSolution(0, S, base, step)
    BY <2>1 DEF HasSolution
  <2>3. QED
    BY <1>1, <2>2
<1>3. ASSUME NEW m \in 1..n, m - 1 \in T
      PROVE  m \in T
  <2>1. PICK f \in [0..m - 1 -> S] : Follows(f, m - 1, base, step)
    BY <1>3 DEF HasSolution
  <2>2. m \in Nat /\ m - 1 \in 0..m - 1 /\ f[m - 1] \in S
    BY <1>1
  <2> DEFINE last == step[m][f[m - 1]]
             g == [i \in 0..m |-> IF i = m THEN last ELSE f[i]]
  <2>3. last \in S
    BY <1>1, <2>2
  <2> HIDE DEF last
  <2>4. g \in [0..m -> S]
    BY <1>1, <2>3
  <2>5. \A i \in 0..m - 1 : g[i] = f[i]
    BY <1>1
  <2>6. g[m] = last
    BY <1>1
  <2> HIDE DEF g
  <2>7. Follows(g, m, base, step)
    <3>1. g[0] = base
      BY <2>1, <2>2, <2>5 DEF Follows
    <3>2. ASSUME NEW i \in 1..m - 1
          PROVE  g[i] = step[i][g[i - 1]]
      BY <1>1, <2>1, <2>5, <3>2 DEF Follows
    <3>3. g[m] = step[m][g[m - 1]]
      BY <2>2, <2>5, <2>6 DEF last
    <3>4. QED
      BY <2>2, <3>1, <3>2, <3>3 DEF Follows
  <2>8. HasSolution(m, S, base, step)
    BY <2>4, <2>7 DEF HasSolution
  <2>9. QED
    BY <1>1, <2>8
<1>4. \A m \in 0..n : m \in T
  <2> HIDE DEF T
  <2>1. QED
    BY <1>1, <1>2, <1>3, Induction
<1>5. QED
  BY <1>1, <1>4

-----------------------------------------------------------------------------
(***************************************************************************)
(* Functions that return at the first error.                               *)
(***************************************************************************)
\* Either no check fails, or the first that does says how.
LEMMA FirstFailureIs ==
  ASSUME NEW checks, DOMAIN checks \subseteq Nat
  PROVE  \/ /\ FirstFailure(checks) = "ok"
            /\ \A i \in DOMAIN checks : ~checks[i][1]
         \/ \E i \in DOMAIN checks :
              /\ checks[i][1] /\ FirstFailure(checks) = checks[i][2]
              /\ \A j \in DOMAIN checks : j < i => ~checks[j][1]
<1> DEFINE failed == {i \in DOMAIN checks : checks[i][1]}
           first  == CHOOSE i \in failed : \A j \in failed : i <= j
<1>1. CASE failed = {}
  BY <1>1 DEF FirstFailure
<1>2. CASE failed # {}
  <2>1. PICK i \in failed : \A j \in failed : i <= j
    <3>1. failed \subseteq Nat
      OBVIOUS
    <3> HIDE DEF failed
    <3>2. QED
      BY <1>2, <3>1, Least
  <2>2. first \in failed /\ \A j \in failed : first <= j
    <3> HIDE DEF failed
    <3>1. QED
      BY <2>1
  <2>3. FirstFailure(checks) = checks[first][2]
    BY <1>2 DEF FirstFailure
  <2> HIDE DEF first
  <2>4. \A j \in DOMAIN checks : j < first => ~checks[j][1]
    <3>1. SUFFICES ASSUME NEW j \in DOMAIN checks, j < first, checks[j][1]
                   PROVE  FALSE
      OBVIOUS
    <3>2. j \in failed /\ first <= j /\ j \in Nat /\ first \in Nat
      BY <2>2, <3>1
    <3>3. QED
      BY <3>1, <3>2
  <2>5. QED
    BY <2>2, <2>3, <2>4
<1>3. QED
  BY <1>1, <1>2

LEMMA FirstErrorIs ==
  ASSUME NEW outcomes, DOMAIN outcomes \subseteq Nat
  PROVE  \/ /\ FirstError(outcomes) = "ok"
            /\ \A i \in DOMAIN outcomes : outcomes[i] = "ok"
         \/ \E i \in DOMAIN outcomes :
              outcomes[i] # "ok" /\ FirstError(outcomes) = outcomes[i]
<1> DEFINE checks == [i \in DOMAIN outcomes |-> <<outcomes[i] # "ok", outcomes[i]>>]
<1>1. DOMAIN checks = DOMAIN outcomes
  OBVIOUS
<1>2. \A i \in DOMAIN outcomes :
        (checks[i][1] <=> outcomes[i] # "ok") /\ checks[i][2] = outcomes[i]
  OBVIOUS
<1>3. FirstError(outcomes) = FirstFailure(checks)
  BY DEF FirstError
<1> HIDE DEF checks
<1>4. CASE \A i \in DOMAIN checks : ~checks[i][1]
  <2>1. FirstFailure(checks) = "ok"
    BY <1>1, <1>4, FirstFailureIs
  <2>2. QED
    BY <1>1, <1>2, <1>3, <1>4, <2>1
<1>5. CASE \E i \in DOMAIN checks : checks[i][1] /\ FirstFailure(checks) = checks[i][2]
  BY <1>1, <1>2, <1>3, <1>5
<1>6. QED
  BY <1>1, <1>4, <1>5, FirstFailureIs
-----------------------------------------------------------------------------
(***************************************************************************)
(* The parts of a module: what is "ok" of them is as it should be, and for *)
(* what is refused for its "structure" the netlist is not sound.           *)
(***************************************************************************)
LEMMA SetOf ==
  ASSUME NEW s, s \in Seq(ToSet(s))
  PROVE  /\ Len(s) \in Nat /\ DOMAIN s = 1..Len(s)
         /\ \A i \in 1..Len(s) : s[i] \in ToSet(s)
         /\ \A e \in ToSet(s) : \E i \in 1..Len(s) : s[i] = e
BY DEF ToSet

Outcomes == {"ok", "structure", "unsupported", "limit"}

LEMMA BitsAreDefined ==
  ASSUME NEW bits, IsBits(bits)
  PROVE  /\ BitsOutcome(bits) \in Outcomes
         /\ BitsOutcome(bits) = "ok" <=> \A bit \in ToSet(bits) : DefinedBit(bit)
<1> DEFINE checks == [i \in DOMAIN bits |->
                        IF IsWire(bits[i]) THEN <<bits[i][2] < 2, "structure">>
                        ELSE <<bits[i][2] \notin {"0", "1"}, "unsupported">>]
<1>1. BitsOutcome(bits) = FirstFailure(checks)
  BY DEF BitsOutcome
<1>2. DOMAIN checks = DOMAIN bits /\ DOMAIN bits \subseteq Nat
  BY SetOf DEF IsBits
<1>3. ASSUME NEW i \in DOMAIN bits
      PROVE  /\ checks[i][1] <=> ~DefinedBit(bits[i])
             /\ checks[i][2] \in Outcomes /\ checks[i][2] # "ok"
  <2>1. CASE IsWire(bits[i])
    <3>1. bits[i] \in ToSet(bits)
      BY DEF ToSet
    <3>2. bits[i][2] \in Nat
      BY <2>1, <3>1 DEF IsBits
    <3> DEFINE low == bits[i][2] < 2
    <3>3. checks[i] = <<low, "structure">>
      BY <2>1
    <3> HIDE DEF checks, low
    <3>4. (checks[i][1] <=> low) /\ checks[i][2] = "structure"
      BY <3>3
    <3>5. DefinedBit(bits[i]) <=> bits[i][2] >= 2
      BY <2>1 DEF DefinedBit
    <3>6. QED
      BY <3>2, <3>4, <3>5 DEF Outcomes, low
  <2>2. CASE ~IsWire(bits[i])
    <3>1. checks[i] = <<bits[i][2] \notin {"0", "1"}, "unsupported">>
      BY <2>2
    <3>2. QED
      BY <2>2, <3>1 DEF DefinedBit, Outcomes
  <2>3. QED
    BY <2>1, <2>2
<1> HIDE DEF checks
<1>4. CASE \A i \in DOMAIN checks : ~checks[i][1]
  <2>1. FirstFailure(checks) = "ok"
    BY <1>2, <1>4, FirstFailureIs
  <2>2. \A bit \in ToSet(bits) : DefinedBit(bit)
    BY <1>2, <1>3, <1>4 DEF ToSet
  <2>3. QED
    BY <1>1, <2>1, <2>2 DEF Outcomes
<1>5. CASE \E i \in DOMAIN checks : checks[i][1]
  <2>1. PICK i \in DOMAIN checks : checks[i][1] /\ FirstFailure(checks) = checks[i][2]
    BY <1>2, <1>5, FirstFailureIs
  <2>2. bits[i] \in ToSet(bits) /\ ~DefinedBit(bits[i])
    BY <1>2, <1>3, <2>1 DEF ToSet
  <2>3. BitsOutcome(bits) \in Outcomes /\ BitsOutcome(bits) # "ok"
    BY <1>1, <1>2, <1>3, <2>1
  <2>4. QED
    BY <2>2, <2>3
<1>6. QED
  BY <1>4, <1>5

\* What Sound asks of one port.
PortIsShaped(port) ==
  /\ Len(port.bits) \in 1..ExportLimits.portBits /\ port.upto \in 0..1
  /\ port.offset + Len(port.bits) <= ExportLimits.offset

\* An input drives wires, each of them once, and none that an input before it
\* drives.
DrivesAlone(module, i) ==
  LET bits == module.ports[i].bits IN
  /\ \A j \in 1..Len(bits) : IsWire(bits[j]) /\ bits[j] \notin InputPortBits(module, i - 1)
  /\ \A j, k \in 1..Len(bits) : bits[j] = bits[k] => j = k

LEMMA Distinct ==
  ASSUME NEW s, s \in Seq(ToSet(s))
  PROVE  Cardinality(ToSet(s)) = Len(s) <=> \A j, k \in 1..Len(s) : s[j] = s[k] => j = k
<1>1. Len(s) \in Nat /\ DOMAIN s = 1..Len(s)
  BY SetOf
<1>2. IsFiniteSet(1..Len(s)) /\ Cardinality(1..Len(s)) = Len(s)
  BY <1>1, FS_Interval
<1>3. s \in Surjection(1..Len(s), ToSet(s))
  BY <1>1, SetOf DEF Surjection
<1>4. Cardinality(ToSet(s)) = Len(s) <=> s \in Injection(1..Len(s), ToSet(s))
  BY <1>2, <1>3, FS_Surjection
<1>5. s \in [1..Len(s) -> ToSet(s)]
  BY <1>1, SetOf
<1>6. QED
  BY <1>1, <1>4, <1>5 DEF Injection, IsInjective

\* Three checks, one after another.
LEMMA ThreeChecks ==
  ASSUME NEW a, NEW b, NEW c, NEW x, NEW y, NEW z
  PROVE  FirstFailure(<<<<a, x>>, <<b, y>>, <<c, z>>>>)
           = IF a THEN x ELSE IF b THEN y ELSE IF c THEN z ELSE "ok"
<1> DEFINE checks == <<<<a, x>>, <<b, y>>, <<c, z>>>>
<1>1. DOMAIN checks = 1..3 /\ DOMAIN checks \subseteq Nat
  OBVIOUS
<1>2. checks[1][1] <=> a
  OBVIOUS
<1>3. checks[2][1] <=> b
  OBVIOUS
<1>4. checks[3][1] <=> c
  OBVIOUS
<1>5. checks[1][2] = x /\ checks[2][2] = y /\ checks[3][2] = z
  OBVIOUS
<1> HIDE DEF checks
<1>6. \A i \in DOMAIN checks : i = 1 \/ i = 2 \/ i = 3
  BY <1>1
<1>7. 1 \in DOMAIN checks /\ 2 \in DOMAIN checks /\ 3 \in DOMAIN checks
  BY <1>1
<1>8. CASE \A i \in DOMAIN checks : ~checks[i][1]
  <2>1. ~a /\ ~b /\ ~c
    BY <1>2, <1>3, <1>4, <1>7, <1>8
  <2>2. FirstFailure(checks) = "ok"
    BY <1>1, <1>8, FirstFailureIs
  <2>3. QED
    BY <2>1, <2>2 DEF checks
<1>9. CASE \E i \in DOMAIN checks : checks[i][1]
  <2>1. PICK i \in DOMAIN checks :
          /\ checks[i][1] /\ FirstFailure(checks) = checks[i][2]
          /\ \A j \in DOMAIN checks : j < i => ~checks[j][1]
    BY <1>1, <1>9, FirstFailureIs
  <2>2. CASE i = 1
    BY <1>2, <1>5, <2>1, <2>2 DEF checks
  <2>3. CASE i = 2
    <3>1. ~a /\ b
      BY <1>2, <1>3, <1>7, <2>1, <2>3
    <3>2. QED
      BY <1>5, <2>1, <2>3, <3>1 DEF checks
  <2>4. CASE i = 3
    <3>1. ~a /\ ~b /\ c
      BY <1>2, <1>3, <1>4, <1>7, <2>1, <2>4
    <3>2. QED
      BY <1>5, <2>1, <2>4, <3>1 DEF checks
  <2>5. QED
    BY <1>6, <2>2, <2>3, <2>4
<1>10. QED
  BY <1>8, <1>9

\* A port as it is checked.
LEMMA PortIsChecked ==
  ASSUME NEW module, IsModule(module), NEW i \in 1..Len(module.ports),
         NEW port, port = module.ports[i]
  PROVE  /\ PortOutcome(module, i) \in Outcomes
         /\ PortOutcome(module, i) = "ok" =>
              /\ PortIsShaped(port) /\ \A bit \in ToSet(port.bits) : DefinedBit(bit)
              /\ port.direction \in {"input", "output"}
              /\ port.direction = "input" => DrivesAlone(module, i)
         /\ PortOutcome(module, i) = "structure" =>
              \/ ~PortIsShaped(port) \/ \E bit \in ToSet(port.bits) : ~DefinedBit(bit)
              \/ port.direction = "input" /\ ~DrivesAlone(module, i)
<1> DEFINE size == Len(port.bits)
           wrong == port.upto > 1 \/ port.offset + size > ExportLimits.offset
           fits == FirstFailure(
             <<<<size = 0, "structure">>, <<size > ExportLimits.portBits, "limit">>,
               <<wrong, "structure">>>>)
           drives ==
             /\ \A j \in 1..size : IsWire(port.bits[j])
             /\ Cardinality(ToSet(port.bits)) = size
             /\ ToSet(port.bits) \cap InputPortBits(module, i - 1) = {}
           end == CASE port.direction = "input"  -> IF drives THEN "ok" ELSE "structure"
                    [] port.direction = "output" -> "ok"
                    [] OTHER                     -> "unsupported"
<1>1. PortOutcome(module, i) = Then(fits, Then(BitsOutcome(port.bits), end))
  BY DEF PortOutcome
<1>2. /\ IsBits(port.bits) /\ port.upto \in Nat /\ port.offset \in Int
      /\ port.bits \in Seq(ToSet(port.bits)) /\ size \in Nat
  <2>1. port \in ToSet(module.ports)
    BY SetOf DEF IsModule
  <2>2. IsBits(port.bits) /\ port.upto \in Nat /\ port.offset \in Int
    BY <2>1 DEF IsModule
  <2>3. port.bits \in Seq(ToSet(port.bits))
    BY <2>2 DEF IsBits
  <2>4. QED
    BY <2>2, <2>3
<1>3. ExportLimits.portBits \in Nat /\ ExportLimits.offset \in Nat
  BY YosysNetlistAssumption
<1>4. fits = IF size = 0 THEN "structure" ELSE IF size > ExportLimits.portBits THEN "limit"
             ELSE IF wrong THEN "structure" ELSE "ok"
  <2> DEFINE none == size = 0
             many == size > ExportLimits.portBits
  <2>1. fits = FirstFailure(<<<<none, "structure">>, <<many, "limit">>, <<wrong, "structure">>>>)
    OBVIOUS
  <2> HIDE DEF none, many, wrong, fits
  <2>2. fits = IF none THEN "structure" ELSE IF many THEN "limit"
               ELSE IF wrong THEN "structure" ELSE "ok"
    BY <2>1, ThreeChecks
  <2>3. QED
    BY <2>2 DEF none, many
<1>5. PortIsShaped(port) <=> size # 0 /\ ~(size > ExportLimits.portBits) /\ ~wrong
  <2>1. size \in 1..ExportLimits.portBits <=> size # 0 /\ ~(size > ExportLimits.portBits)
    BY <1>2, <1>3
  <2>2. port.upto \in 0..1 <=> ~(port.upto > 1)
    BY <1>2
  <2>3. port.offset + size <= ExportLimits.offset <=> ~(port.offset + size > ExportLimits.offset)
    BY <1>2, <1>3
  <2>4. QED
    BY <2>1, <2>2, <2>3 DEF PortIsShaped
<1>6. fits = "ok" <=> PortIsShaped(port)
  <2> HIDE DEF fits, wrong, size
  <2>1. QED
    BY <1>4, <1>5
<1>7. fits \in {"ok", "structure", "limit"}
  <2> HIDE DEF fits, wrong, size
  <2>1. QED
    BY <1>4
<1>8. drives <=> DrivesAlone(module, i)
  <2>1. Cardinality(ToSet(port.bits)) = size
          <=> \A j, k \in 1..size : port.bits[j] = port.bits[k] => j = k
    BY <1>2, Distinct
  <2>2. ToSet(port.bits) \cap InputPortBits(module, i - 1) = {}
          <=> \A j \in 1..size : port.bits[j] \notin InputPortBits(module, i - 1)
    <3> DEFINE bits == port.bits
               before == InputPortBits(module, i - 1)
    <3>1. /\ \A j \in 1..size : bits[j] \in ToSet(bits)
          /\ \A e \in ToSet(bits) : \E j \in 1..size : bits[j] = e
      BY <1>2, SetOf
    <3> HIDE DEF bits, size, before
    <3>2. ToSet(bits) \cap before = {} <=> \A j \in 1..size : bits[j] \notin before
      BY <3>1
    <3>3. QED
      BY <3>2 DEF bits, before
  <2>3. QED
    BY <2>1, <2>2 DEF DrivesAlone
<1>9. /\ end = "ok" => /\ port.direction \in {"input", "output"}
                       /\ port.direction = "input" => drives
      /\ end = "structure" => port.direction = "input" /\ ~drives
      /\ end \in {"ok", "structure", "unsupported"}
  <2> HIDE DEF drives
  <2>1. CASE port.direction = "input"
    BY <2>1
  <2>2. CASE port.direction = "output"
    BY <2>2
  <2>3. CASE port.direction \notin {"input", "output"}
    BY <2>3
  <2>4. QED
    BY <2>1, <2>2, <2>3
<1>10. /\ BitsOutcome(port.bits) \in Outcomes
       /\ BitsOutcome(port.bits) = "ok" <=> \A bit \in ToSet(port.bits) : DefinedBit(bit)
  BY <1>2, BitsAreDefined
<1> HIDE DEF fits, drives, end, size, wrong
<1>11. QED
  BY <1>1, <1>6, <1>7, <1>8, <1>9, <1>10 DEF Then, Outcomes

-----------------------------------------------------------------------------
(***************************************************************************)
(* What drives a bit.                                                      *)
(***************************************************************************)
IsInputOf(module, p, bit) ==
  /\ module.ports[p].direction = "input"
  /\ \E k \in 1..Len(module.ports[p].bits) : module.ports[p].bits[k] = bit

LEMMA InputBitIs ==
  ASSUME NEW module, IsModule(module), NEW i \in 0..Len(module.ports), NEW bit
  PROVE  bit \in InputPortBits(module, i) <=> \E p \in 1..i : IsInputOf(module, p, bit)
<1>1. bit \in InputPortBits(module, i) <=>
        \E p \in 1..i : /\ module.ports[p].direction = "input"
                        /\ bit \in ToSet(module.ports[p].bits)
  <2> DEFINE bits(p) == ToSet(module.ports[p].bits)
             inputs == {p \in 1..i : module.ports[p].direction = "input"}
  <2>1. InputPortBits(module, i) = UNION {bits(p) : p \in inputs}
    BY DEF InputPortBits
  <2> HIDE DEF bits, inputs
  <2>2. bit \in InputPortBits(module, i) <=> \E p \in inputs : bit \in bits(p)
    BY <2>1
  <2>3. QED
    BY <2>2 DEF bits, inputs
<1>2. ASSUME NEW p \in 1..i
      PROVE  bit \in ToSet(module.ports[p].bits)
               <=> \E k \in 1..Len(module.ports[p].bits) : module.ports[p].bits[k] = bit
  <2>1. module.ports[p] \in ToSet(module.ports)
    <3>1. module.ports \in Seq(ToSet(module.ports))
      BY DEF IsModule
    <3>2. Len(module.ports) \in Nat
      BY <3>1, SetOf
    <3>3. p \in 1..Len(module.ports)
      BY <3>2
    <3>4. QED
      BY <3>1, <3>3, SetOf
  <2>2. module.ports[p].bits \in Seq(ToSet(module.ports[p].bits))
    BY <2>1 DEF IsModule, IsBits
  <2> DEFINE bits == module.ports[p].bits
  <2>3. bits \in Seq(ToSet(bits))
    BY <2>2
  <2> HIDE DEF bits
  <2>4. bit \in ToSet(bits) <=> \E k \in 1..Len(bits) : bits[k] = bit
    BY <2>3, SetOf
  <2>5. QED
    BY <2>4 DEF bits
<1>3. QED
  BY <1>1, <1>2 DEF IsInputOf

\* A place drives a bit.
LEMMA PlaceDrives ==
  ASSUME NEW module, IsModule(module), NEW bit
  PROVE  /\ \A p \in 1..Len(module.ports) : \A k \in 1..Len(module.ports[p].bits) :
              module.ports[p].direction = "input" /\ module.ports[p].bits[k] = bit
                => <<"port", p, k>> \in DriversOf(module, bit)
         /\ \A c \in 1..Len(module.cells) :
              OutputBit(module.cells[c]) = bit => <<"cell", c, 1>> \in DriversOf(module, bit)
         /\ \A d \in DriversOf(module, bit) :
              \/ \E p \in 1..Len(module.ports) : \E k \in 1..Len(module.ports[p].bits) :
                   /\ module.ports[p].direction = "input" /\ module.ports[p].bits[k] = bit
                   /\ d = <<"port", p, k>>
              \/ \E c \in 1..Len(module.cells) :
                   OutputBit(module.cells[c]) = bit /\ d = <<"cell", c, 1>>
<1>1. DOMAIN module.ports = 1..Len(module.ports) /\ DOMAIN module.cells = 1..Len(module.cells)
  BY SetOf DEF IsModule
<1>2. ASSUME NEW p \in 1..Len(module.ports)
      PROVE  DOMAIN module.ports[p].bits = 1..Len(module.ports[p].bits)
  <2>1. module.ports[p] \in ToSet(module.ports)
    BY SetOf DEF IsModule
  <2>2. QED
    BY <2>1, SetOf DEF IsModule, IsBits
<1>3. ASSUME NEW d
      PROVE  d \in DriversOf(module, bit) <=>
               \/ \E p \in {q \in DOMAIN module.ports : module.ports[q].direction = "input"} :
                    \E k \in {j \in DOMAIN module.ports[p].bits :
                               module.ports[p].bits[j] = bit} :
                      d = <<"port", p, k>>
               \/ \E c \in {e \in DOMAIN module.cells : OutputBit(module.cells[e]) = bit} :
                    d = <<"cell", c, 1>>
  <2> DEFINE inputs == {q \in DOMAIN module.ports : module.ports[q].direction = "input"}
             Places(p) == {<<"port", p, k>> : k \in {j \in DOMAIN module.ports[p].bits :
                                                     module.ports[p].bits[j] = bit}}
             cells == {<<"cell", c, 1>> : c \in {e \in DOMAIN module.cells :
                                                  OutputBit(module.cells[e]) = bit}}
  <2>1. DriversOf(module, bit) = (UNION {Places(p) : p \in inputs}) \cup cells
    BY DEF DriversOf
  <2>2. d \in UNION {Places(p) : p \in inputs} <=> \E p \in inputs : d \in Places(p)
    <3> HIDE DEF Places, inputs
    <3>1. QED
      BY Zenon
  <2>3. \A p : d \in Places(p) <=>
               \E k \in {j \in DOMAIN module.ports[p].bits : module.ports[p].bits[j] = bit} :
                 d = <<"port", p, k>>
    OBVIOUS
  <2>4. d \in cells <=>
          \E c \in {e \in DOMAIN module.cells : OutputBit(module.cells[e]) = bit} :
            d = <<"cell", c, 1>>
    OBVIOUS
  <2>5. d \in DriversOf(module, bit) <=> (\E p \in inputs : d \in Places(p)) \/ d \in cells
    <3> HIDE DEF Places, inputs, cells
    <3>1. QED
      BY <2>1, <2>2
  <2>6. QED
    BY <2>3, <2>4, <2>5, Zenon
<1>4. ASSUME NEW d
      PROVE  d \in DriversOf(module, bit) <=>
               \/ \E p \in 1..Len(module.ports) : \E k \in 1..Len(module.ports[p].bits) :
                    /\ module.ports[p].direction = "input" /\ module.ports[p].bits[k] = bit
                    /\ d = <<"port", p, k>>
               \/ \E c \in 1..Len(module.cells) :
                    OutputBit(module.cells[c]) = bit /\ d = <<"cell", c, 1>>
  BY <1>1, <1>2, <1>3, Zenon
<1>5. QED
  BY <1>4, Zenon

\* What two places drive, or a place if it is a constant, is not driven well.
LEMMA DrivenTwice ==
  ASSUME NEW module, NEW bit, NEW d \in DriversOf(module, bit),
         NEW e \in DriversOf(module, bit), d # e \/ ~IsWire(bit)
  PROVE  ~DrivenWell(module, bit)
BY DEF DrivenWell

LEMMA DrivenCounts ==
  ASSUME NEW module, NEW bit
  PROVE  /\ bit \in InputPortBits(module, Len(module.ports)) => bit \in Bits(module)
         /\ \A c \in 1..Len(module.cells) :
              bit = OutputBit(module.cells[c]) => bit \in Bits(module)
         /\ bit \in ReadBits(module) => bit \in Bits(module)
BY DEF Bits, DrivenBits

LEMMA InputIsUnsound ==
  ASSUME NEW module, IsModule(module), NEW i \in 1..Len(module.ports),
         module.ports[i].direction = "input", ~DrivesAlone(module, i)
  PROVE  ~Sound(module)
<1> DEFINE bits == module.ports[i].bits
<1>1. Len(module.ports) \in Nat
  BY SetOf DEF IsModule
<1>2. ASSUME NEW j \in 1..Len(bits)
      PROVE  /\ bits[j] \in Bits(module)
             /\ <<"port", i, j>> \in DriversOf(module, bits[j])
  <2>1. Len(module.ports) \in 0..Len(module.ports)
    BY <1>1
  <2>2. bits[j] \in InputPortBits(module, Len(module.ports))
    <3>1. \E p \in 1..Len(module.ports) : IsInputOf(module, p, bits[j])
      BY DEF IsInputOf
    <3>2. QED
      BY <2>1, <3>1, InputBitIs
  <2>3. QED
    BY <2>2, DrivenCounts, PlaceDrives
<1>3. ASSUME NEW j \in 1..Len(bits), ~DrivenWell(module, bits[j])
      PROVE  ~Sound(module)
  BY <1>2, <1>3 DEF Sound
<1>4. CASE \E j \in 1..Len(bits) : ~IsWire(bits[j])
  BY <1>2, <1>3, <1>4, DrivenTwice
<1>5. CASE \E j \in 1..Len(bits) : bits[j] \in InputPortBits(module, i - 1)
  <2>1. PICK j \in 1..Len(bits) : bits[j] \in InputPortBits(module, i - 1)
    BY <1>5
  <2>2. PICK n \in 0..Len(module.ports) : n = i - 1
    BY <1>1
  <2>a. bits[j] \in InputPortBits(module, n)
    BY <2>1, <2>2
  <2>3. PICK p \in 1..n : IsInputOf(module, p, bits[j])
    BY <2>a, InputBitIs
  <2>4. PICK k \in 1..Len(module.ports[p].bits) : module.ports[p].bits[k] = bits[j]
    BY <2>3 DEF IsInputOf
  <2>5. p \in 1..Len(module.ports) /\ p # i
    BY <1>1, <2>2
  <2>6. <<"port", p, k>> \in DriversOf(module, bits[j])
    BY <2>3, <2>4, <2>5, PlaceDrives DEF IsInputOf
  <2>7. <<"port", p, k>> # <<"port", i, j>>
    BY <2>5
  <2>8. QED
    BY <1>2, <1>3, <2>6, <2>7, DrivenTwice
<1>6. CASE \E j, k \in 1..Len(bits) : bits[j] = bits[k] /\ j # k
  <2>1. PICK j \in 1..Len(bits), k \in 1..Len(bits) : bits[j] = bits[k] /\ j # k
    BY <1>6
  <2>2. <<"port", i, k>> \in DriversOf(module, bits[j]) /\ <<"port", i, k>> # <<"port", i, j>>
    BY <1>2, <2>1
  <2>3. QED
    BY <1>2, <1>3, <2>2, DrivenTwice
<1>7. QED
  BY <1>4, <1>5, <1>6 DEF DrivesAlone

-----------------------------------------------------------------------------
(***************************************************************************)
(* Nets and cells.                                                         *)
(***************************************************************************)
LEMMA NetIsChecked ==
  ASSUME NEW net, IsBits(net.bits)
  PROVE  /\ NetOutcome(net) \in Outcomes
         /\ NetOutcome(net) = "ok" =>
              net.attributes = {} /\ \A bit \in ToSet(net.bits) : DefinedBit(bit)
         /\ NetOutcome(net) = "structure" => \E bit \in ToSet(net.bits) : ~DefinedBit(bit)
BY BitsAreDefined DEF NetOutcome, AttributesOutcome, Then, Outcomes

\* The pins of a cell.
CellPins(cell) == ToSet(InputsOf(cell.kind)) \cup {OutputOf(cell.kind)}

PinIsSound(cell, pin, direction) ==
  /\ pin \in DOMAIN cell.connections /\ Len(cell.connections[pin]) = 1
  /\ pin \in DOMAIN cell.directions /\ cell.directions[pin] = direction
  /\ DefinedBit(cell.connections[pin][1])

LEMMA PinIsChecked ==
  ASSUME NEW cell, NEW pin, NEW direction,
         pin \in DOMAIN cell.connections => IsBits(cell.connections[pin])
  PROVE  /\ PinOutcome(cell, pin, direction) \in Outcomes
         /\ PinOutcome(cell, pin, direction) = "ok" <=> PinIsSound(cell, pin, direction)
<1> DEFINE bits == cell.connections[pin]
           fits == /\ Len(bits) = 1 /\ pin \in DOMAIN cell.directions
                   /\ cell.directions[pin] = direction
<1>1. CASE pin \notin DOMAIN cell.connections
  BY <1>1 DEF PinOutcome, PinIsSound, Outcomes
<1>2. CASE pin \in DOMAIN cell.connections
  <2>1. PinOutcome(cell, pin, direction)
          = Then(IF fits THEN "ok" ELSE "structure", BitsOutcome(bits))
    BY <1>2 DEF PinOutcome
  <2>2. /\ BitsOutcome(bits) \in Outcomes
        /\ BitsOutcome(bits) = "ok" <=> \A bit \in ToSet(bits) : DefinedBit(bit)
    BY <1>2, BitsAreDefined
  <2>3. fits => \A e : e \in ToSet(bits) <=> e = bits[1]
    <3>1. bits \in Seq(ToSet(bits))
      BY <1>2 DEF IsBits
    <3> HIDE DEF bits
    <3>2. ASSUME Len(bits) = 1
          PROVE  \A e : e \in ToSet(bits) <=> e = bits[1]
      BY <3>1, <3>2, SetOf
    <3>3. QED
      BY <3>2
  <2>4. PinIsSound(cell, pin, direction) <=> fits /\ DefinedBit(bits[1])
    BY <1>2 DEF PinIsSound
  <2> HIDE DEF fits, bits
  <2>5. QED
    BY <2>1, <2>2, <2>3, <2>4 DEF Then, Outcomes
<1>3. QED
  BY <1>1, <1>2

\* No pin is named twice.
LEMMA PinsDiffer ==
  ASSUME NEW cell, NEW n, n = Len(InputsOf(cell.kind))
  PROVE  /\ n \in Nat /\ DOMAIN InputsOf(cell.kind) = 1..n
         /\ IsFiniteSet(CellPins(cell)) /\ Cardinality(CellPins(cell)) = n + 1
         /\ OutputOf(cell.kind) \notin ToSet(InputsOf(cell.kind))
<1> DEFINE pins == InputsOf(cell.kind)
           out  == OutputOf(cell.kind)
<1>1. \/ pins = <<"A", "B">> /\ out = "Y"
      \/ pins = <<"A">> /\ out = "Y"
      \/ pins = <<"D", "E">> /\ out = "Q"
      \/ pins = <<"D", "C">> /\ out \in {"Y", "Q"}
      \/ pins = <<"D", "C", "R">> /\ out \in {"Y", "Q"}
  BY DEF InputsOf, OutputOf, IsSequential
<1>2. n = Len(pins)
  OBVIOUS
<1>3. CellPins(cell) = ToSet(pins) \cup {out}
  BY DEF CellPins
<1> HIDE DEF pins, out
<1>4. pins \in Seq(ToSet(pins)) /\ \A j, k \in 1..Len(pins) : pins[j] = pins[k] => j = k
  BY <1>1 DEF ToSet
<1>5. out \notin ToSet(pins)
  BY <1>1 DEF ToSet
<1>6. Len(pins) \in Nat /\ DOMAIN pins = 1..Len(pins)
  BY <1>4, SetOf
<1>7. Cardinality(ToSet(pins)) = n
  BY <1>2, <1>4, Distinct
<1>8. IsFiniteSet(ToSet(pins))
  <2>1. pins \in Surjection(1..Len(pins), ToSet(pins))
    BY <1>4, <1>6, SetOf DEF Surjection
  <2>2. IsFiniteSet(1..Len(pins))
    BY <1>6, FS_Interval
  <2>3. QED
    BY <2>1, <2>2, FS_Surjection
<1>9. IsFiniteSet(ToSet(pins) \cup {out}) /\ Cardinality(ToSet(pins) \cup {out}) = n + 1
  BY <1>5, <1>7, <1>8, FS_AddElement
<1>10. QED
  BY <1>2, <1>3, <1>5, <1>6, <1>9 DEF pins, out

\* What Sound asks of one cell.
CellIsShaped(cell) ==
  /\ DOMAIN cell.connections = CellPins(cell) /\ DOMAIN cell.directions = CellPins(cell)
  /\ \A pin \in CellPins(cell) :
       /\ Len(cell.connections[pin]) = 1
       /\ cell.directions[pin] = IF pin = OutputOf(cell.kind) THEN "output" ELSE "input"

\* As many names as there are pins, each pin among them, are the pins.
LEMMA AllAreNamed ==
  ASSUME NEW cell, NEW names, IsFiniteSet(names), CellPins(cell) \subseteq names,
         Cardinality(names) = Len(InputsOf(cell.kind)) + 1
  PROVE  names = CellPins(cell)
<1>1. PICK n : n = Len(InputsOf(cell.kind))
  OBVIOUS
<1>2. IsFiniteSet(CellPins(cell)) /\ Cardinality(CellPins(cell)) = n + 1
  BY <1>1, PinsDiffer
<1>3. Cardinality(names) = n + 1
  BY <1>1
<1>4. QED
  BY <1>2, <1>3, FS_Subset

LEMMA CellIsChecked ==
  ASSUME NEW module, IsModule(module), NEW i \in 1..Len(module.cells),
         NEW cell, cell = module.cells[i]
  PROVE  /\ CellOutcome(module, i) \in Outcomes
         /\ CellOutcome(module, i) = "ok" =>
              /\ cell.kind.form # "other" /\ CellIsShaped(cell)
              /\ \A pin \in CellPins(cell) : DefinedBit(cell.connections[pin][1])
              /\ IsWire(OutputBit(cell)) /\ OutputBit(cell) \notin DrivenBits(module, i - 1)
         /\ CellOutcome(module, i) = "structure" =>
              \/ ~CellIsShaped(cell)
              \/ \E pin \in CellPins(cell) : ~DefinedBit(cell.connections[pin][1])
              \/ ~IsWire(OutputBit(cell)) \/ OutputBit(cell) \in DrivenBits(module, i - 1)
<1> DEFINE pins == InputsOf(cell.kind)
           out == OutputOf(cell.kind)
           n == Len(pins)
           names == DOMAIN cell.connections
           ways == DOMAIN cell.directions
           miscounted == Cardinality(names) # n + 1 \/ Cardinality(ways) # n + 1
           shape == FirstFailure(<<<<cell.kind.form = "other", "unsupported">>,
                                   <<cell.parameters # {}, "unsupported">>,
                                   <<miscounted, "structure">>>>)
           inputs == [j \in DOMAIN pins |-> PinOutcome(cell, pins[j], "input")]
           last == PinOutcome(cell, out, "output")
           each == FirstError(Append(inputs, last))
           drives == IsWire(OutputBit(cell)) /\ OutputBit(cell) \notin DrivenBits(module, i - 1)
<1>1. CellOutcome(module, i)
        = Then(AttributesOutcome(cell.attributes),
            Then(shape, Then(each, IF drives THEN "ok" ELSE "structure")))
  BY DEF CellOutcome
<1>2. /\ IsFiniteSet(names) /\ IsFiniteSet(ways)
      /\ \A pin \in names : IsBits(cell.connections[pin])
  <2>1. cell \in ToSet(module.cells)
    BY SetOf DEF IsModule
  <2>2. QED
    BY <2>1 DEF IsModule
<1>3. /\ n \in Nat /\ DOMAIN pins = 1..n
      /\ IsFiniteSet(CellPins(cell)) /\ Cardinality(CellPins(cell)) = n + 1
      /\ out \notin ToSet(pins)
  BY PinsDiffer
<1>4. CellPins(cell) = ToSet(pins) \cup {out}
  BY DEF CellPins
<1>5. \A pin : \A direction :
        /\ PinOutcome(cell, pin, direction) \in Outcomes
        /\ PinOutcome(cell, pin, direction) = "ok" <=> PinIsSound(cell, pin, direction)
  BY <1>2, PinIsChecked
<1>6. /\ each \in Outcomes
      /\ each = "ok" => /\ \A j \in 1..n : PinIsSound(cell, pins[j], "input")
                        /\ PinIsSound(cell, out, "output")
      /\ each # "ok" => \/ \E j \in 1..n : ~PinIsSound(cell, pins[j], "input")
                        \/ ~PinIsSound(cell, out, "output")
  <2> DEFINE all == Append(inputs, last)
  <2>1. inputs \in Seq(Outcomes) /\ Len(inputs) = n /\ last \in Outcomes
    <3>1. inputs \in [1..n -> Outcomes]
      BY <1>3, <1>5
    <3>2. last \in Outcomes
      BY <1>5
    <3> HIDE DEF inputs, last, n
    <3>3. QED
      BY <1>3, <3>1, <3>2
  <2>2. /\ \A j \in 1..n : inputs[j] = "ok" <=> PinIsSound(cell, pins[j], "input")
        /\ last = "ok" <=> PinIsSound(cell, out, "output")
    BY <1>3, <1>5
  <2>3. /\ DOMAIN all = 1..n + 1 /\ all[n + 1] = last
        /\ \A j \in 1..n : all[j] = inputs[j]
    <3> HIDE DEF inputs, last, n
    <3>1. QED
      BY <1>3, <2>1
  <2>4. DOMAIN all \subseteq Nat /\ \A j \in 1..n + 1 : j \in 1..n \/ j = n + 1
    BY <1>3, <2>3
  <2>5. /\ \A j \in DOMAIN all : all[j] \in Outcomes
        /\ 1..n \subseteq DOMAIN all /\ n + 1 \in DOMAIN all
    <3>1. \A j \in 1..n : inputs[j] \in Outcomes
      BY <1>3, <1>5
    <3>2. 1..n \subseteq 1..n + 1 /\ n + 1 \in 1..n + 1
      BY <1>3
    <3> HIDE DEF all, inputs, last, n
    <3>3. QED
      BY <2>1, <2>3, <2>4, <3>1, <3>2
  <2> HIDE DEF all, inputs, last, n
  <2>6. CASE \A j \in DOMAIN all : all[j] = "ok"
    <3>1. each = "ok"
      BY <2>4, <2>6, FirstErrorIs DEF all
    <3>2. QED
      BY <2>2, <2>3, <2>5, <2>6, <3>1 DEF Outcomes
  <2>7. CASE \E j \in DOMAIN all : all[j] # "ok"
    <3>1. PICK j \in DOMAIN all : all[j] # "ok" /\ each = all[j]
      BY <2>4, <2>7, FirstErrorIs DEF all
    <3>2. j \in 1..n \/ j = n + 1
      BY <2>3, <2>4
    <3>3. QED
      BY <2>2, <2>3, <2>5, <3>1, <3>2
  <2>8. QED
    BY <2>6, <2>7
<1>7. shape = IF cell.kind.form = "other" THEN "unsupported"
              ELSE IF cell.parameters # {} THEN "unsupported"
              ELSE IF miscounted THEN "structure" ELSE "ok"
  <2> DEFINE a == cell.kind.form = "other"
             b == cell.parameters # {}
  <2>1. shape = FirstFailure(<<<<a, "unsupported">>, <<b, "unsupported">>,
                               <<miscounted, "structure">>>>)
    OBVIOUS
  <2> HIDE DEF a, b, miscounted, shape
  <2>2. shape = IF a THEN "unsupported" ELSE IF b THEN "unsupported"
                ELSE IF miscounted THEN "structure" ELSE "ok"
    BY <2>1, ThreeChecks
  <2>3. QED
    BY <2>2 DEF a, b
<1>8. /\ shape \in Outcomes
      /\ shape = "ok" => cell.kind.form # "other" /\ ~miscounted
      /\ shape = "structure" => miscounted
  <2> HIDE DEF shape, miscounted
  <2>1. QED
    BY <1>7 DEF Outcomes
<1>9. miscounted => ~CellIsShaped(cell)
  BY <1>3 DEF CellIsShaped
<1>10. ASSUME ~miscounted, \A j \in 1..n : PinIsSound(cell, pins[j], "input"),
              PinIsSound(cell, out, "output")
       PROVE  /\ CellIsShaped(cell)
              /\ \A pin \in CellPins(cell) : DefinedBit(cell.connections[pin][1])
  <2>1. ASSUME NEW pin \in CellPins(cell)
        PROVE  PinIsSound(cell, pin, IF pin = out THEN "output" ELSE "input")
    <3>1. CASE pin = out
      BY <1>10, <3>1
    <3>2. CASE pin # out
      <4>1. PICK j \in 1..n : pin = pins[j]
        BY <1>3, <1>4, <2>1, <3>2 DEF ToSet
      <4>2. PinIsSound(cell, pin, "input")
        BY <1>10, <4>1
      <4>3. QED
        BY <3>2, <4>2
    <3>3. QED
      BY <3>1, <3>2
  <2>2. CellPins(cell) \subseteq names /\ CellPins(cell) \subseteq ways
    BY <2>1 DEF PinIsSound
  <2>3. names = CellPins(cell) /\ ways = CellPins(cell)
    BY <1>2, <1>10, <2>2, AllAreNamed
  <2>4. QED
    BY <2>1, <2>3 DEF CellIsShaped, PinIsSound
<1>11. ASSUME CellIsShaped(cell),
              \A pin \in CellPins(cell) : DefinedBit(cell.connections[pin][1])
       PROVE  /\ \A j \in 1..n : PinIsSound(cell, pins[j], "input")
              /\ PinIsSound(cell, out, "output")
  <2>1. ASSUME NEW j \in 1..n
        PROVE  pins[j] \in CellPins(cell) /\ pins[j] # out
    BY <1>3, <1>4 DEF ToSet
  <2>2. out \in CellPins(cell)
    BY <1>4
  <2>3. QED
    BY <1>11, <2>1, <2>2 DEF CellIsShaped, PinIsSound
<1>12. AttributesOutcome(cell.attributes) \in {"ok", "unsupported"}
  BY DEF AttributesOutcome
<1> HIDE DEF shape, each, drives, miscounted, pins, n, out, names, ways
<1>13. /\ CellOutcome(module, i) \in Outcomes
       /\ CellOutcome(module, i) = "ok" => shape = "ok" /\ each = "ok" /\ drives
       /\ CellOutcome(module, i) = "structure" =>
            shape = "structure" \/ each = "structure" \/ ~drives
  BY <1>1, <1>6, <1>8, <1>12 DEF Then, Outcomes
<1>14. CellOutcome(module, i) = "ok" =>
         /\ cell.kind.form # "other" /\ CellIsShaped(cell)
         /\ \A pin \in CellPins(cell) : DefinedBit(cell.connections[pin][1])
         /\ IsWire(OutputBit(cell)) /\ OutputBit(cell) \notin DrivenBits(module, i - 1)
  BY <1>6, <1>8, <1>10, <1>13 DEF drives
<1>15. CellOutcome(module, i) = "structure" =>
         \/ ~CellIsShaped(cell)
         \/ \E pin \in CellPins(cell) : ~DefinedBit(cell.connections[pin][1])
         \/ ~IsWire(OutputBit(cell)) \/ OutputBit(cell) \in DrivenBits(module, i - 1)
  BY <1>6, <1>8, <1>9, <1>11, <1>13 DEF drives, Outcomes
<1>16. QED
  BY <1>13, <1>14, <1>15

-----------------------------------------------------------------------------
(***************************************************************************)
(* What is refused for its structure is not sound.                         *)
(***************************************************************************)
LEMMA PortIsUnsound ==
  ASSUME NEW module, IsModule(module), NEW i \in 1..Len(module.ports),
         PortOutcome(module, i) = "structure"
  PROVE  ~Sound(module)
<1> DEFINE port == module.ports[i]
<1>1. port \in ToSet(module.ports)
  BY SetOf DEF IsModule
<1>2. \/ ~PortIsShaped(port) \/ \E bit \in ToSet(port.bits) : ~DefinedBit(bit)
      \/ port.direction = "input" /\ ~DrivesAlone(module, i)
  BY PortIsChecked
<1>3. CASE ~PortIsShaped(port)
  BY <1>1, <1>3 DEF Sound, Shaped, PortIsShaped
<1>4. CASE \E bit \in ToSet(port.bits) : ~DefinedBit(bit)
  BY <1>1, <1>4 DEF Sound, NamedBits
<1>5. CASE port.direction = "input" /\ ~DrivesAlone(module, i)
  BY <1>5, InputIsUnsound
<1>6. QED
  BY <1>2, <1>3, <1>4, <1>5

LEMMA NetIsUnsound ==
  ASSUME NEW module, IsModule(module), NEW net \in ToSet(module.nets),
         NetOutcome(net) = "structure"
  PROVE  ~Sound(module)
<1>1. IsBits(net.bits)
  BY DEF IsModule
<1>2. PICK bit \in ToSet(net.bits) : ~DefinedBit(bit)
  BY <1>1, NetIsChecked
<1>3. bit \in NamedBits(module)
  BY <1>2 DEF NamedBits
<1>4. QED
  BY <1>2, <1>3 DEF Sound

\* The bits of the pins of a cell count.
LEMMA PinsCount ==
  ASSUME NEW module, NEW cell \in ToSet(module.cells), NEW pin \in CellPins(cell),
         IsModule(module)
  PROVE  cell.connections[pin][1] \in Bits(module)
<1>1. CASE pin = OutputOf(cell.kind)
  <2>1. PICK c \in 1..Len(module.cells) : cell = module.cells[c]
    BY SetOf DEF IsModule
  <2>2. cell.connections[pin][1] = OutputBit(cell)
    BY <1>1 DEF OutputBit
  <2>3. QED
    BY <2>1, <2>2, DrivenCounts
<1>2. CASE pin \in ToSet(InputsOf(cell.kind))
  <2>1. cell.connections[pin][1] \in InputBitsOf(cell)
    BY <1>2 DEF InputBitsOf, InputBit
  <2>2. cell.connections[pin][1] \in ReadBits(module)
    BY <2>1 DEF ReadBits
  <2>3. QED
    BY <2>2, DrivenCounts
<1>3. QED
  BY <1>1, <1>2 DEF CellPins

\* A bit that is driven by inputs or the cells before one, and by that one.
LEMMA OutputIsUnsound ==
  ASSUME NEW module, IsModule(module), NEW i \in 1..Len(module.cells),
         NEW bit, bit = OutputBit(module.cells[i]),
         ~IsWire(bit) \/ bit \in DrivenBits(module, i - 1)
  PROVE  ~Sound(module)
<1>1. <<"cell", i, 1>> \in DriversOf(module, bit)
  BY PlaceDrives
<1>2. bit \in Bits(module)
  BY DrivenCounts
<1>3. SUFFICES ~DrivenWell(module, bit)
  BY <1>2 DEF Sound
<1>4. CASE ~IsWire(bit)
  BY <1>1, <1>4, DrivenTwice
<1>5. CASE bit \in InputPortBits(module, Len(module.ports))
  <2>1. PICK m \in 0..Len(module.ports) : m = Len(module.ports)
    BY SetOf DEF IsModule
  <2>2. PICK p \in 1..m : IsInputOf(module, p, bit)
    BY <1>5, <2>1, InputBitIs
  <2>3. PICK k \in 1..Len(module.ports[p].bits) : module.ports[p].bits[k] = bit
    BY <2>2 DEF IsInputOf
  <2>4. <<"port", p, k>> \in DriversOf(module, bit) /\ <<"port", p, k>> # <<"cell", i, 1>>
    BY <2>1, <2>2, <2>3, PlaceDrives DEF IsInputOf
  <2>5. QED
    BY <1>1, <2>4, DrivenTwice
<1>6. CASE \E j \in 1..i - 1 : bit = OutputBit(module.cells[j])
  <2>1. PICK j \in 1..i - 1 : bit = OutputBit(module.cells[j])
    BY <1>6
  <2>2. j \in 1..Len(module.cells) /\ j # i
    BY SetOf DEF IsModule
  <2>3. <<"cell", j, 1>> \in DriversOf(module, bit) /\ <<"cell", j, 1>> # <<"cell", i, 1>>
    BY <2>1, <2>2, PlaceDrives
  <2>4. QED
    BY <1>1, <2>3, DrivenTwice
<1>7. QED
  BY <1>4, <1>5, <1>6 DEF DrivenBits

LEMMA CellIsUnsound ==
  ASSUME NEW module, IsModule(module), NEW i \in 1..Len(module.cells),
         CellOutcome(module, i) = "structure"
  PROVE  ~Sound(module)
<1>1. PICK cell : cell = module.cells[i]
  OBVIOUS
<1>2. cell \in ToSet(module.cells)
  BY <1>1, SetOf DEF IsModule
<1>3. \/ ~CellIsShaped(cell)
      \/ \E pin \in CellPins(cell) : ~DefinedBit(cell.connections[pin][1])
      \/ ~IsWire(OutputBit(cell)) \/ OutputBit(cell) \in DrivenBits(module, i - 1)
  BY <1>1, CellIsChecked
<1>4. CASE ~CellIsShaped(cell)
  BY <1>2, <1>4 DEF Sound, Shaped, CellIsShaped, CellPins
<1>5. CASE \E pin \in CellPins(cell) : ~DefinedBit(cell.connections[pin][1])
  BY <1>2, <1>5, PinsCount DEF Sound
<1>6. CASE ~IsWire(OutputBit(cell)) \/ OutputBit(cell) \in DrivenBits(module, i - 1)
  BY <1>1, <1>6, OutputIsUnsound
<1>7. QED
  BY <1>3, <1>4, <1>5, <1>6

-----------------------------------------------------------------------------
(***************************************************************************)
(* All cells, one after another.                                           *)
(***************************************************************************)
LEMMA CellsDefined ==
  ASSUME NEW module, IsModule(module)
  PROVE  /\ CellsUpTo(module)[0] = "ok"
         /\ \A n \in 1..Len(module.cells) :
              CellsUpTo(module)[n] = Then(CellsUpTo(module)[n - 1], CellOutcome(module, n))
<1> DEFINE N == Len(module.cells)
           Is(f) == f = [n \in 0..N |-> IF n = 0 THEN "ok"
                                        ELSE Then(f[n - 1], CellOutcome(module, n))]
           step == [n \in 1..N |-> [how \in Outcomes |-> Then(how, CellOutcome(module, n))]]
<1>1. CellsUpTo(module) = CHOOSE f : Is(f)
  BY DEF CellsUpTo
<1>2. N \in Nat /\ \A n \in 1..N : CellOutcome(module, n) \in Outcomes
  BY SetOf, CellIsChecked DEF IsModule
<1>3. step \in [1..N -> [Outcomes -> Outcomes]] /\ "ok" \in Outcomes
  BY <1>2 DEF Then, Outcomes
<1> HIDE DEF N
<1>4. PICK f \in [0..N -> Outcomes] : f[0] = "ok" /\ \A n \in 1..N : f[n] = step[n][f[n - 1]]
  <2>1. Recursive(N, Outcomes, "ok", step)
    BY <1>2, <1>3 DEF Recursive
  <2> HIDE DEF step
  <2>2. HasSolution(N, Outcomes, "ok", step)
    BY <2>1, Recursion
  <2>3. QED
    BY <2>2 DEF HasSolution, Follows
<1>5. ASSUME NEW n \in 1..N
      PROVE  n - 1 \in 0..N /\ f[n] = Then(f[n - 1], CellOutcome(module, n))
  <2>1. n - 1 \in 0..N /\ f[n - 1] \in Outcomes
    BY <1>2
  <2>2. QED
    BY <1>4, <2>1
<1>6. Is(f)
  <2>1. \A n \in 0..N : f[n] = IF n = 0 THEN "ok" ELSE Then(f[n - 1], CellOutcome(module, n))
    BY <1>2, <1>4, <1>5
  <2>2. QED
    BY <2>1
<1>7. Is(CellsUpTo(module))
  <2> HIDE DEF Is
  <2>1. QED
    BY <1>1, <1>6
<1>8. \A n \in 0..N : CellsUpTo(module)[n]
                        = IF n = 0 THEN "ok"
                          ELSE Then(CellsUpTo(module)[n - 1], CellOutcome(module, n))
  BY <1>7
<1>9. QED
  BY <1>2, <1>8 DEF N

\* Either no cell fails, or the outcome is that of one that does.
LEMMA CellsAreChecked ==
  ASSUME NEW module, IsModule(module)
  PROVE  \/ /\ CellsOutcome(module) = "ok"
            /\ \A i \in 1..Len(module.cells) : CellOutcome(module, i) = "ok"
         \/ \E i \in 1..Len(module.cells) :
              CellOutcome(module, i) # "ok" /\ CellsOutcome(module) = CellOutcome(module, i)
<1> DEFINE N == Len(module.cells)
           upTo == CellsUpTo(module)
           Told(n) == \/ upTo[n] = "ok" /\ \A i \in 1..n : CellOutcome(module, i) = "ok"
                      \/ \E i \in 1..n : /\ CellOutcome(module, i) # "ok"
                                         /\ upTo[n] = CellOutcome(module, i)
           T == {n \in 0..N : Told(n)}
<1>1. N \in Nat
  BY SetOf DEF IsModule
<1>2. upTo[0] = "ok" /\ \A n \in 1..N : upTo[n] = Then(upTo[n - 1], CellOutcome(module, n))
  BY CellsDefined
<1> HIDE DEF N, upTo
<1>3. 0 \in T
  BY <1>1, <1>2
<1>4. ASSUME NEW n \in 1..N, n - 1 \in T
      PROVE  n \in T
  <2>1. upTo[n] = Then(upTo[n - 1], CellOutcome(module, n)) /\ n \in 1..n /\ n \in 0..N
    BY <1>1, <1>2
  <2>2. \A i \in 1..n : i \in 1..n - 1 \/ i = n
    BY <1>1
  <2>3. \A i \in 1..n - 1 : i \in 1..n
    BY <1>1
  <2>4. Told(n - 1)
    BY <1>4
  <2>5. CASE upTo[n - 1] = "ok"
    <3>1. \A i \in 1..n - 1 : CellOutcome(module, i) = "ok"
      BY <2>4, <2>5
    <3>2. upTo[n] = CellOutcome(module, n)
      BY <2>1, <2>5 DEF Then
    <3>3. Told(n)
      BY <2>1, <2>2, <3>1, <3>2
    <3>4. QED
      BY <2>1, <3>3
  <2>6. CASE upTo[n - 1] # "ok"
    <3>1. PICK i \in 1..n - 1 : CellOutcome(module, i) # "ok" /\ upTo[n - 1] = CellOutcome(module, i)
      BY <2>4, <2>6
    <3>2. upTo[n] = upTo[n - 1]
      BY <2>1, <2>6 DEF Then
    <3>3. Told(n)
      BY <2>3, <3>1, <3>2
    <3>4. QED
      BY <2>1, <3>3
  <2>7. QED
    BY <2>5, <2>6
<1>5. \A n \in 0..N : n \in T
  <2> HIDE DEF T
  <2>1. QED
    BY <1>1, <1>3, <1>4, Induction
<1>6. Told(N)
  BY <1>1, <1>5
<1>7. QED
  BY <1>6 DEF N, upTo, CellsOutcome

-----------------------------------------------------------------------------
(***************************************************************************)
(* Cells that wait for one another.                                        *)
(***************************************************************************)
LEMMA LeftDefined ==
  ASSUME NEW module, IsModule(module), NEW gates
  PROVE  /\ LeftAfter(module, gates)[0] = gates
         /\ \A n \in 1..Len(module.cells) :
              LeftAfter(module, gates)[n] = StillWaiting(module, LeftAfter(module, gates)[n - 1])
         /\ \A n \in 0..Len(module.cells) : LeftAfter(module, gates)[n] \subseteq gates
<1> DEFINE N == Len(module.cells)
           Is(f) == f = [n \in 0..N |-> IF n = 0 THEN gates ELSE StillWaiting(module, f[n - 1])]
           S == SUBSET gates
           step == [n \in 1..N |-> [set \in S |-> StillWaiting(module, set)]]
<1>1. LeftAfter(module, gates) = CHOOSE f : Is(f)
  BY DEF LeftAfter
<1>2. N \in Nat
  BY SetOf DEF IsModule
<1>3. step \in [1..N -> [S -> S]] /\ gates \in S
  BY DEF StillWaiting
<1> HIDE DEF N
<1>4. PICK f \in [0..N -> S] : f[0] = gates /\ \A n \in 1..N : f[n] = step[n][f[n - 1]]
  <2>1. Recursive(N, S, gates, step)
    BY <1>2, <1>3 DEF Recursive
  <2> HIDE DEF step, S
  <2>2. HasSolution(N, S, gates, step)
    BY <2>1, Recursion
  <2>3. QED
    BY <2>2 DEF HasSolution, Follows
<1>5. ASSUME NEW n \in 1..N
      PROVE  n - 1 \in 0..N /\ f[n] = StillWaiting(module, f[n - 1])
  <2>1. n - 1 \in 0..N /\ f[n - 1] \in S
    BY <1>2
  <2>2. QED
    BY <1>4, <2>1
<1>6. Is(f)
  <2>1. \A n \in 0..N : f[n] = IF n = 0 THEN gates ELSE StillWaiting(module, f[n - 1])
    BY <1>2, <1>4, <1>5
  <2>2. QED
    BY <2>1
<1>7. Is(LeftAfter(module, gates))
  <2> HIDE DEF Is
  <2>1. QED
    BY <1>1, <1>6
<1> DEFINE remains == LeftAfter(module, gates)
<1>8. \A n \in 0..N : remains[n] = IF n = 0 THEN gates ELSE StillWaiting(module, remains[n - 1])
  BY <1>7
<1> HIDE DEF remains
<1>9. remains[0] = gates /\ \A n \in 1..N : remains[n] = StillWaiting(module, remains[n - 1])
  BY <1>2, <1>8
<1>10. \A n \in 0..N : remains[n] \subseteq gates
  <2> DEFINE T == {n \in 0..N : remains[n] \subseteq gates}
  <2>1. 0 \in T
    BY <1>2, <1>9
  <2>2. \A n \in 1..N : n - 1 \in T => n \in T
    BY <1>2, <1>9 DEF StillWaiting
  <2>3. \A n \in 0..N : n \in T
    <3> HIDE DEF T
    <3>1. QED
      BY <1>2, <2>1, <2>2, Induction
  <2>4. QED
    BY <2>3
<1>11. QED
  BY <1>9, <1>10 DEF remains, N

\* When there have been as many rounds as cells, none of what is left is ready.
LEMMA LeftIsStuck ==
  ASSUME NEW module, IsModule(module), NEW gates \in SUBSET (1..Len(module.cells))
  PROVE  StillWaiting(module, NeverReady(module, gates)) = NeverReady(module, gates)
<1> DEFINE N == Len(module.cells)
           remains == LeftAfter(module, gates)
           Stuck(n) == StillWaiting(module, remains[n]) = remains[n]
           T == {n \in 0..N : Stuck(n) \/ Cardinality(remains[n]) <= N - n}
<1>1. N \in Nat /\ IsFiniteSet(1..N) /\ Cardinality(1..N) = N
  <2>1. N \in Nat
    BY SetOf DEF IsModule
  <2> HIDE DEF N
  <2>2. QED
    BY <2>1, FS_Interval
<1>2. /\ remains[0] = gates
      /\ \A n \in 1..N : remains[n] = StillWaiting(module, remains[n - 1])
      /\ \A n \in 0..N : remains[n] \subseteq gates
  BY LeftDefined
<1>3. gates \subseteq 1..N
  OBVIOUS
<1> HIDE DEF N, remains
<1>4. \A n \in 0..N : /\ IsFiniteSet(remains[n]) /\ Cardinality(remains[n]) \in Nat
                      /\ Cardinality(remains[n]) <= N
  <2>1. ASSUME NEW n \in 0..N
        PROVE  remains[n] \subseteq 1..N
    BY <1>2, <1>3
  <2>2. QED
    BY <1>1, <2>1, FS_Subset, FS_CardinalityType
<1>5. 0 \in T
  BY <1>1, <1>4
<1>6. ASSUME NEW n \in 1..N, n - 1 \in T
      PROVE  n \in T
  <2>1. n \in 0..N /\ n - 1 \in 0..N
    BY <1>1
  <2>2. remains[n] = StillWaiting(module, remains[n - 1])
    BY <1>2
  <2>3. CASE Stuck(n - 1)
    <3>1. remains[n] = remains[n - 1]
      BY <2>2, <2>3
    <3>2. QED
      BY <2>1, <2>2, <2>3, <3>1
  <2>4. CASE ~Stuck(n - 1)
    <3>1. remains[n] \subseteq remains[n - 1] /\ remains[n] # remains[n - 1]
      BY <2>2, <2>4 DEF StillWaiting
    <3>2. IsFiniteSet(remains[n - 1]) /\ Cardinality(remains[n - 1]) <= N - (n - 1)
      BY <1>4, <1>6, <2>1, <2>4
    <3>3. Cardinality(remains[n]) < Cardinality(remains[n - 1])
      <4>1. /\ Cardinality(remains[n]) <= Cardinality(remains[n - 1])
            /\ Cardinality(remains[n]) # Cardinality(remains[n - 1])
        BY <3>1, <3>2, FS_Subset
      <4>2. Cardinality(remains[n]) \in Nat /\ Cardinality(remains[n - 1]) \in Nat
        BY <1>4, <2>1
      <4>3. QED
        BY <4>1, <4>2
    <3>4. Cardinality(remains[n]) <= N - n
      BY <1>1, <1>4, <2>1, <3>2, <3>3
    <3>5. QED
      BY <2>1, <3>4
  <2>5. QED
    BY <2>3, <2>4
<1>7. \A n \in 0..N : n \in T
  <2> HIDE DEF T
  <2>1. QED
    BY <1>1, <1>5, <1>6, Induction
<1>8. Stuck(N)
  <2>1. N \in 0..N /\ N \in T
    BY <1>1, <1>7
  <2>2. CASE Cardinality(remains[N]) <= N - N
    <3>1. IsFiniteSet(remains[N]) /\ Cardinality(remains[N]) = 0
      BY <1>1, <1>4, <2>1, <2>2
    <3>2. remains[N] = {}
      BY <3>1, FS_EmptySet
    <3>3. QED
      BY <3>2 DEF StillWaiting
  <2>3. QED
    BY <2>1, <2>2
<1>9. QED
  BY <1>8 DEF remains, N, NeverReady

\* Cells each of which depends on another of them are never ready.
LEMMA DeadlockedStay ==
  ASSUME NEW module, IsModule(module), NEW gates, NEW cells \in SUBSET gates,
         \A c \in cells : Dependencies(module, c) \cap cells # {}
  PROVE  cells \subseteq NeverReady(module, gates)
<1> DEFINE N == Len(module.cells)
           remains == LeftAfter(module, gates)
           T == {n \in 0..N : cells \subseteq remains[n]}
<1>1. N \in Nat
  BY SetOf DEF IsModule
<1>2. remains[0] = gates /\ \A n \in 1..N : remains[n] = StillWaiting(module, remains[n - 1])
  BY LeftDefined
<1> HIDE DEF N, remains
<1>3. 0 \in T
  BY <1>1, <1>2
<1>4. \A n \in 1..N : n - 1 \in T => n \in T
  <2>1. ASSUME NEW n \in 1..N, n - 1 \in T
        PROVE  n \in T
    <3>1. cells \subseteq remains[n - 1] /\ n \in 0..N
      BY <1>1, <2>1
    <3>2. \A c \in cells : Dependencies(module, c) \cap remains[n - 1] # {}
      BY <3>1
    <3>3. cells \subseteq StillWaiting(module, remains[n - 1])
      BY <3>1, <3>2 DEF StillWaiting
    <3>4. QED
      BY <1>2, <3>1, <3>3
  <2>2. QED
    BY <2>1
<1>5. \A n \in 0..N : n \in T
  <2> HIDE DEF T
  <2>1. QED
    BY <1>1, <1>3, <1>4, Induction
<1>6. cells \subseteq remains[N]
  BY <1>1, <1>5
<1>7. QED
  BY <1>6 DEF remains, N, NeverReady

-----------------------------------------------------------------------------
(***************************************************************************)
(* The netlist as a whole.                                                 *)
(***************************************************************************)
Gates(module) == {i \in DOMAIN module.cells : ~IsSequential(module.cells[i].kind)}

Undriven(module) ==
  {bit \in ReadBits(module) : IsWire(bit)} \ DrivenBits(module, Len(module.cells))

LEMMA GraphIs ==
  ASSUME NEW module
  PROVE  /\ GraphOutcome(module) \in {"ok", "structure"}
         /\ GraphOutcome(module) = "ok" <=>
              Undriven(module) = {} /\ NeverReady(module, Gates(module)) = {}
BY DEF GraphOutcome, Undriven, Gates

\* The bits that are driven are those of the places that drive.
LEMMA DrivenIs ==
  ASSUME NEW module, IsModule(module), NEW bit
  PROVE  bit \in DrivenBits(module, Len(module.cells)) <=> DriversOf(module, bit) # {}
<1>1. PICK m \in 0..Len(module.ports) : m = Len(module.ports)
  <2>1. Len(module.ports) \in Nat
    BY SetOf DEF IsModule
  <2>2. QED
    BY <2>1
<1>2. bit \in DrivenBits(module, Len(module.cells)) <=>
        \/ bit \in InputPortBits(module, m)
        \/ \E c \in 1..Len(module.cells) : bit = OutputBit(module.cells[c])
  BY <1>1 DEF DrivenBits
<1>3. bit \in InputPortBits(module, m) <=> \E p \in 1..m : IsInputOf(module, p, bit)
  BY InputBitIs
<1>4. ASSUME bit \in DrivenBits(module, Len(module.cells))
      PROVE  DriversOf(module, bit) # {}
  <2>1. CASE bit \in InputPortBits(module, m)
    BY <1>1, <1>3, <2>1, PlaceDrives DEF IsInputOf
  <2>2. CASE \E c \in 1..Len(module.cells) : bit = OutputBit(module.cells[c])
    BY <2>2, PlaceDrives
  <2>3. QED
    BY <1>2, <1>4, <2>1, <2>2
<1>5. ASSUME NEW d \in DriversOf(module, bit)
      PROVE  bit \in DrivenBits(module, Len(module.cells))
  <2>1. CASE \E p \in 1..Len(module.ports) : \E k \in 1..Len(module.ports[p].bits) :
               module.ports[p].direction = "input" /\ module.ports[p].bits[k] = bit
    BY <1>1, <1>2, <1>3, <2>1 DEF IsInputOf
  <2>2. CASE \E c \in 1..Len(module.cells) : OutputBit(module.cells[c]) = bit
    BY <1>2, <2>2
  <2>3. QED
    BY <2>1, <2>2, PlaceDrives
<1>6. QED
  BY <1>4, <1>5

LEMMA GraphIsUnsound ==
  ASSUME NEW module, IsModule(module), GraphOutcome(module) = "structure",
         \A i \in 1..Len(module.cells) : CellOutcome(module, i) = "ok"
  PROVE  ~Sound(module)
<1> DEFINE cells == NeverReady(module, Gates(module))
<1>1. DOMAIN module.cells = 1..Len(module.cells) /\ Len(module.cells) \in Nat
  BY SetOf DEF IsModule
<1>2. Undriven(module) # {} \/ cells # {}
  BY GraphIs
<1>3. CASE Undriven(module) # {}
  <2>1. PICK bit \in ReadBits(module) :
          IsWire(bit) /\ bit \notin DrivenBits(module, Len(module.cells))
    BY <1>3 DEF Undriven
  <2>2. ~DrivenWell(module, bit)
    BY <2>1, DrivenIs DEF DrivenWell
  <2>3. QED
    BY <2>1, <2>2, DrivenCounts DEF Sound
<1>4. CASE cells # {}
  <2>1. Gates(module) \in SUBSET (1..Len(module.cells))
    BY <1>1 DEF Gates
  <2>2. StillWaiting(module, cells) = cells
    BY <2>1, LeftIsStuck
  <2>3. cells \subseteq Gates(module)
    <3>1. Len(module.cells) \in 0..Len(module.cells)
      BY <1>1
    <3>2. QED
      BY <3>1, LeftDefined DEF NeverReady
  <2>4. ASSUME NEW c \in cells
        PROVE  /\ module.cells[c].kind.form \in {"nand", "not"}
               /\ \E d \in cells : OutputBit(module.cells[d]) \in InputBitsOf(module.cells[c])
    <3>1. c \in 1..Len(module.cells) /\ ~IsSequential(module.cells[c].kind)
      BY <1>1, <2>3 DEF Gates
    <3>2. module.cells[c] \in ToSet(module.cells)
      BY <3>1, SetOf DEF IsModule
    <3>3. module.cells[c].kind.form \in {"nand", "not", "dff", "latch", "other"}
      BY <3>2 DEF IsModule
    <3>4. module.cells[c].kind.form # "other"
      BY <3>1, CellIsChecked
    <3>5. Dependencies(module, c) \cap cells # {}
      BY <2>2 DEF StillWaiting
    <3>6. QED
      BY <3>1, <3>3, <3>4, <3>5 DEF IsSequential, Dependencies
  <2>5. Deadlocked(module, cells)
    BY <2>4 DEF Deadlocked
  <2>6. cells \in SUBSET DOMAIN module.cells
    BY <2>3 DEF Gates
  <2>7. QED
    BY <1>4, <2>5, <2>6 DEF Sound
<1>5. QED
  BY <1>2, <1>3, <1>4

\* Nothing is driven by two places, and no constant by any.
LEMMA OnePlaceDrives ==
  ASSUME NEW module, IsModule(module),
         \A i \in 1..Len(module.ports) : PortOutcome(module, i) = "ok",
         \A i \in 1..Len(module.cells) : CellOutcome(module, i) = "ok",
         NEW bit, NEW d \in DriversOf(module, bit), NEW e \in DriversOf(module, bit)
  PROVE  d = e /\ IsWire(bit)
<1>1. /\ Len(module.ports) \in Nat /\ Len(module.cells) \in Nat
  BY SetOf DEF IsModule
<1> DEFINE FromPort(x, p, k) ==
             /\ p \in 1..Len(module.ports) /\ k \in 1..Len(module.ports[p].bits)
             /\ module.ports[p].direction = "input" /\ module.ports[p].bits[k] = bit
             /\ x = <<"port", p, k>>
           FromCell(x, c) ==
             /\ c \in 1..Len(module.cells) /\ OutputBit(module.cells[c]) = bit
             /\ x = <<"cell", c, 1>>
<1>2. \A x \in {d, e} : (\E p, k : FromPort(x, p, k)) \/ (\E c : FromCell(x, c))
  BY PlaceDrives
<1>3. \A p \in 1..Len(module.ports) : module.ports[p].direction = "input" => DrivesAlone(module, p)
  BY PortIsChecked
<1>4. \A c \in 1..Len(module.cells) :
        /\ IsWire(OutputBit(module.cells[c]))
        /\ OutputBit(module.cells[c]) \notin DrivenBits(module, c - 1)
  BY CellIsChecked
<1>5. IsWire(bit)
  <2>1. ASSUME NEW p, NEW k, FromPort(d, p, k)
        PROVE  IsWire(bit)
    BY <1>3, <2>1 DEF DrivesAlone
  <2>2. ASSUME NEW c, FromCell(d, c)
        PROVE  IsWire(bit)
    BY <1>4, <2>2
  <2>3. QED
    BY <1>2, <2>1, <2>2
<1>6. ASSUME NEW x, NEW y, NEW p, NEW k, NEW q, NEW j, FromPort(x, p, k), FromPort(y, q, j)
      PROVE  ~(p < q)
  <2>1. SUFFICES ASSUME p < q
                 PROVE  FALSE
    OBVIOUS
  <2>2. PICK n \in 0..Len(module.ports) : n = q - 1 /\ p \in 1..n
    BY <1>1, <1>6, <2>1
  <2>3. bit \in InputPortBits(module, n)
    <3>1. IsInputOf(module, p, bit)
      BY <1>6 DEF IsInputOf
    <3>2. QED
      BY <2>2, <3>1, InputBitIs
  <2>4. bit \notin InputPortBits(module, n)
    <3>1. DrivesAlone(module, q)
      BY <1>3, <1>6
    <3>2. j \in 1..Len(module.ports[q].bits) /\ module.ports[q].bits[j] = bit
      BY <1>6
    <3>3. bit \notin InputPortBits(module, q - 1)
      BY <3>1, <3>2 DEF DrivesAlone
    <3>4. QED
      BY <2>2, <3>3
  <2>5. QED
    BY <2>3, <2>4
<1>7. ASSUME NEW x, NEW y, NEW c, NEW b, FromCell(x, c), FromCell(y, b)
      PROVE  ~(c < b)
  <2>1. SUFFICES ASSUME c < b
                 PROVE  FALSE
    OBVIOUS
  <2>2. c \in 1..b - 1
    BY <1>1, <1>7, <2>1
  <2>3. bit \in DrivenBits(module, b - 1)
    BY <1>7, <2>2 DEF DrivenBits
  <2>4. QED
    BY <1>4, <1>7, <2>3
<1>8. ASSUME NEW x, NEW y, NEW p, NEW k, NEW c, FromPort(x, p, k), FromCell(y, c)
      PROVE  FALSE
  <2>1. PICK m \in 0..Len(module.ports) : m = Len(module.ports)
    BY <1>1
  <2>2. bit \in InputPortBits(module, m)
    <3>1. IsInputOf(module, p, bit) /\ p \in 1..m
      BY <1>8, <2>1 DEF IsInputOf
    <3>2. QED
      BY <3>1, InputBitIs
  <2>3. bit \in DrivenBits(module, c - 1)
    BY <2>1, <2>2 DEF DrivenBits
  <2>4. QED
    BY <1>4, <1>8, <2>3
<1>9. ASSUME NEW p, NEW k, NEW q, NEW j, FromPort(d, p, k), FromPort(e, q, j)
      PROVE  d = e
  <2>1. ~(p < q) /\ ~(q < p)
    BY <1>6, <1>9
  <2>2. p = q
    BY <1>1, <1>9, <2>1
  <2>3. k = j
    BY <1>3, <1>9, <2>2 DEF DrivesAlone
  <2>4. QED
    BY <1>9, <2>2, <2>3
<1>10. ASSUME NEW c, NEW b, FromCell(d, c), FromCell(e, b)
       PROVE  d = e
  <2>1. ~(c < b) /\ ~(b < c)
    BY <1>7, <1>10
  <2>2. c = b
    BY <1>1, <1>10, <2>1
  <2>3. QED
    BY <1>10, <2>2
<1> HIDE DEF FromPort, FromCell
<1>11. QED
  BY <1>2, <1>5, <1>8, <1>9, <1>10

\* When everything is checked, the netlist is sound.
LEMMA CheckedIsSound ==
  ASSUME NEW module, IsModule(module),
         \A i \in 1..Len(module.ports) : PortOutcome(module, i) = "ok",
         \A net \in ToSet(module.nets) : NetOutcome(net) = "ok",
         \A i \in 1..Len(module.cells) : CellOutcome(module, i) = "ok",
         GraphOutcome(module) = "ok"
  PROVE  Sound(module)
<1>1. \A port \in ToSet(module.ports) :
        /\ PortIsShaped(port) /\ \A bit \in ToSet(port.bits) : DefinedBit(bit)
        /\ port.direction \in {"input", "output"}
  <2>1. ASSUME NEW port \in ToSet(module.ports)
        PROVE  \E i \in 1..Len(module.ports) : port = module.ports[i]
    BY SetOf DEF IsModule
  <2>2. QED
    BY <2>1, PortIsChecked
<1>2. \A cell \in ToSet(module.cells) :
        /\ cell.kind.form # "other" /\ CellIsShaped(cell)
        /\ \A pin \in CellPins(cell) : DefinedBit(cell.connections[pin][1])
  <2>1. ASSUME NEW cell \in ToSet(module.cells)
        PROVE  \E i \in 1..Len(module.cells) : cell = module.cells[i]
    BY SetOf DEF IsModule
  <2>2. ASSUME NEW cell \in ToSet(module.cells)
        PROVE  /\ cell.kind.form # "other" /\ CellIsShaped(cell)
               /\ \A pin \in CellPins(cell) : DefinedBit(cell.connections[pin][1])
    <3>1. PICK i \in 1..Len(module.cells) : cell = module.cells[i]
      BY <2>1
    <3>2. CellOutcome(module, i) = "ok"
      OBVIOUS
    <3>3. /\ module.cells[i].kind.form # "other" /\ CellIsShaped(module.cells[i])
          /\ \A pin \in CellPins(module.cells[i]) :
               DefinedBit(module.cells[i].connections[pin][1])
      BY <3>2, CellIsChecked
    <3>4. QED
      BY <3>1, <3>3
  <2>3. QED
    BY <2>2
<1>3. \A net \in ToSet(module.nets) : \A bit \in ToSet(net.bits) : DefinedBit(bit)
  BY NetIsChecked DEF IsModule
<1>4. Shaped(module)
  BY <1>1, <1>2 DEF Shaped, PortIsShaped, CellIsShaped, CellPins
<1>5. \A bit \in NamedBits(module) : DefinedBit(bit)
  BY <1>1, <1>3 DEF NamedBits
<1>6. \A bit \in ReadBits(module) : DefinedBit(bit)
  <2>1. ASSUME NEW cell \in ToSet(module.cells), NEW bit \in InputBitsOf(cell)
        PROVE  DefinedBit(bit)
    <3>1. PICK pin \in ToSet(InputsOf(cell.kind)) : bit = cell.connections[pin][1]
      BY DEF InputBitsOf, InputBit
    <3>2. QED
      BY <1>2, <3>1 DEF CellPins
  <2>2. ASSUME NEW port \in ToSet(module.ports), NEW bit \in ToSet(port.bits)
        PROVE  DefinedBit(bit)
    BY <1>1
  <2>3. QED
    BY <2>1, <2>2 DEF ReadBits
<1>7. \A bit \in DrivenBits(module, Len(module.cells)) : DefinedBit(bit)
  <2>1. ASSUME NEW i \in 1..Len(module.cells)
        PROVE  DefinedBit(OutputBit(module.cells[i]))
    <3>1. module.cells[i] \in ToSet(module.cells)
      BY SetOf DEF IsModule
    <3>2. QED
      BY <1>2, <3>1 DEF OutputBit, CellPins
  <2>2. ASSUME NEW bit \in InputPortBits(module, Len(module.ports))
        PROVE  DefinedBit(bit)
    <3>1. Len(module.ports) \in 0..Len(module.ports)
      <4>1. Len(module.ports) \in Nat
        BY SetOf DEF IsModule
      <4>2. QED
        BY <4>1
    <3>2. PICK p \in 1..Len(module.ports) : IsInputOf(module, p, bit)
      BY <3>1, InputBitIs
    <3>3. module.ports[p] \in ToSet(module.ports)
      BY SetOf DEF IsModule
    <3>4. bit \in ToSet(module.ports[p].bits)
      <4>1. PICK bits : bits = module.ports[p].bits
        OBVIOUS
      <4>2. bits \in Seq(ToSet(bits))
        BY <3>3, <4>1 DEF IsModule, IsBits
      <4>3. \E k \in 1..Len(bits) : bits[k] = bit
        BY <3>2, <4>1 DEF IsInputOf
      <4>4. QED
        BY <4>1, <4>2, <4>3, SetOf
    <3>5. QED
      BY <1>1, <3>3, <3>4
  <2>3. QED
    BY <2>1, <2>2 DEF DrivenBits
<1>8. ASSUME NEW bit \in Bits(module)
      PROVE  DrivenWell(module, bit)
  <2>1. \A d, e \in DriversOf(module, bit) : d = e /\ IsWire(bit)
    BY OnePlaceDrives
  <2>2. CASE IsWire(bit)
    <3>1. bit \in DrivenBits(module, Len(module.cells))
      <4>1. Undriven(module) = {}
        BY GraphIs
      <4>2. QED
        BY <1>8, <2>2, <4>1 DEF Undriven, Bits
    <3>2. PICK d \in DriversOf(module, bit) : TRUE
      BY <3>1, DrivenIs
    <3>3. DriversOf(module, bit) = {d}
      BY <2>1, <3>2
    <3>4. QED
      BY <2>2, <3>3 DEF DrivenWell
  <2>3. CASE ~IsWire(bit)
    BY <2>1, <2>3 DEF DrivenWell
  <2>4. QED
    BY <2>2, <2>3
<1>9. ASSUME NEW cells \in SUBSET DOMAIN module.cells, Deadlocked(module, cells)
      PROVE  cells = {}
  <2>1. cells \in SUBSET Gates(module)
    BY <1>9 DEF Deadlocked, Gates, IsSequential
  <2>2. \A c \in cells : Dependencies(module, c) \cap cells # {}
    BY <1>9, <2>1 DEF Deadlocked, Dependencies, Gates
  <2>3. cells \subseteq NeverReady(module, Gates(module))
    BY <2>1, <2>2, DeadlockedStay
  <2>4. NeverReady(module, Gates(module)) = {}
    BY GraphIs
  <2>5. QED
    BY <2>3, <2>4
<1>10. QED
  BY <1>4, <1>5, <1>6, <1>7, <1>8, <1>9 DEF Sound, Bits

\* A module that passes is sound, and one that is refused for its structure is not.
LEMMA ModuleIsChecked ==
  ASSUME NEW module, IsModule(module)
  PROVE  /\ ModuleOutcome(module) \in Outcomes
         /\ ModuleOutcome(module) = "ok" => Sound(module)
         /\ ModuleOutcome(module) = "structure" => ~Sound(module)
<1> DEFINE own == FirstFailure(
             <<<<AttributesOutcome(module.attributes) # "ok", "unsupported">>,
               <<module.memories # {}, "unsupported">>,
               <<Len(module.cells) > ExportLimits.cells, "limit">>>>)
           ofPorts == [i \in DOMAIN module.ports |-> PortOutcome(module, i)]
           ofNets == [i \in DOMAIN module.nets |-> NetOutcome(module.nets[i])]
           ports == FirstError(ofPorts)
           nets == FirstError(ofNets)
           cells == CellsOutcome(module)
           graph == GraphOutcome(module)
<1>1. ModuleOutcome(module) = Then(own, Then(ports, Then(nets, Then(cells, graph))))
  BY DEF ModuleOutcome
<1>2. own \in {"ok", "unsupported", "limit"}
  <2> DEFINE a == AttributesOutcome(module.attributes) # "ok"
             b == module.memories # {}
             c == Len(module.cells) > ExportLimits.cells
  <2>1. own = FirstFailure(<<<<a, "unsupported">>, <<b, "unsupported">>, <<c, "limit">>>>)
    OBVIOUS
  <2> HIDE DEF a, b, c, own
  <2>2. own = IF a THEN "unsupported" ELSE IF b THEN "unsupported" ELSE IF c THEN "limit"
              ELSE "ok"
    BY <2>1, ThreeChecks
  <2>3. QED
    BY <2>2
<1>3. /\ DOMAIN module.ports = 1..Len(module.ports)
      /\ DOMAIN module.nets = 1..Len(module.nets)
      /\ 1..Len(module.ports) \subseteq Nat /\ 1..Len(module.nets) \subseteq Nat
      /\ \A i \in 1..Len(module.nets) : module.nets[i] \in ToSet(module.nets)
      /\ \A net \in ToSet(module.nets) : \E i \in 1..Len(module.nets) : net = module.nets[i]
  <2>1. /\ Len(module.ports) \in Nat /\ DOMAIN module.ports = 1..Len(module.ports)
    BY SetOf DEF IsModule
  <2>2. module.nets \in Seq(ToSet(module.nets))
    BY DEF IsModule
  <2>3. /\ Len(module.nets) \in Nat /\ DOMAIN module.nets = 1..Len(module.nets)
        /\ \A i \in 1..Len(module.nets) : module.nets[i] \in ToSet(module.nets)
        /\ \A net \in ToSet(module.nets) : \E i \in 1..Len(module.nets) : net = module.nets[i]
    <3>1. PICK s : s = module.nets
      OBVIOUS
    <3>2. s \in Seq(ToSet(s))
      BY <2>2, <3>1
    <3>3. /\ Len(s) \in Nat /\ DOMAIN s = 1..Len(s)
          /\ \A i \in 1..Len(s) : s[i] \in ToSet(s)
          /\ \A net \in ToSet(s) : \E i \in 1..Len(s) : net = s[i]
      BY <3>2, SetOf
    <3>4. QED
      BY <3>1, <3>3
  <2>4. QED
    BY <2>1, <2>3
<1>4. \/ ports = "ok" /\ \A i \in 1..Len(module.ports) : PortOutcome(module, i) = "ok"
      \/ \E i \in 1..Len(module.ports) :
           PortOutcome(module, i) # "ok" /\ ports = PortOutcome(module, i)
  <2>1. /\ DOMAIN ofPorts = 1..Len(module.ports) /\ DOMAIN ofPorts \subseteq Nat
        /\ \A i \in 1..Len(module.ports) : ofPorts[i] = PortOutcome(module, i)
    BY <1>3
  <2> HIDE DEF ofPorts
  <2>2. QED
    BY <2>1, FirstErrorIs
<1>5. \/ nets = "ok" /\ \A net \in ToSet(module.nets) : NetOutcome(net) = "ok"
      \/ \E net \in ToSet(module.nets) : NetOutcome(net) # "ok" /\ nets = NetOutcome(net)
  <2>1. /\ DOMAIN ofNets = 1..Len(module.nets) /\ DOMAIN ofNets \subseteq Nat
        /\ \A i \in 1..Len(module.nets) : ofNets[i] = NetOutcome(module.nets[i])
    BY <1>3
  <2> HIDE DEF ofNets
  <2>2. CASE \A i \in DOMAIN ofNets : ofNets[i] = "ok"
    BY <1>3, <2>1, <2>2, FirstErrorIs
  <2>3. CASE \E i \in DOMAIN ofNets : ofNets[i] # "ok" /\ nets = ofNets[i]
    BY <1>3, <2>1, <2>3
  <2>4. QED
    BY <2>1, <2>2, <2>3, FirstErrorIs
<1>6. ports \in Outcomes /\ (ports = "structure" => ~Sound(module))
  BY <1>4, PortIsChecked, PortIsUnsound DEF Outcomes
<1>7. nets \in Outcomes /\ (nets = "structure" => ~Sound(module))
  <2>1. \A net \in ToSet(module.nets) : NetOutcome(net) \in Outcomes
    BY NetIsChecked DEF IsModule
  <2>2. QED
    BY <1>5, <2>1, NetIsUnsound DEF Outcomes
<1>8. cells \in Outcomes /\ (cells = "structure" => ~Sound(module))
  <2>1. \A i \in 1..Len(module.cells) : CellOutcome(module, i) \in Outcomes
    BY CellIsChecked
  <2>2. \A i \in 1..Len(module.cells) : CellOutcome(module, i) = "structure" => ~Sound(module)
    BY CellIsUnsound
  <2>3. QED
    BY <2>1, <2>2, CellsAreChecked DEF Outcomes
<1>9. graph \in {"ok", "structure"}
  BY GraphIs
<1> HIDE DEF own, ports, nets, cells, graph
<1>10. /\ ModuleOutcome(module) \in Outcomes
       /\ ModuleOutcome(module) = "ok" =>
            ports = "ok" /\ nets = "ok" /\ cells = "ok" /\ graph = "ok"
       /\ ModuleOutcome(module) = "structure" =>
            \/ ports = "structure" \/ nets = "structure" \/ cells = "structure"
            \/ cells = "ok" /\ graph = "structure"
  BY <1>1, <1>2, <1>6, <1>7, <1>8, <1>9 DEF Then, Outcomes
<1>11. ASSUME ModuleOutcome(module) = "ok"
       PROVE  Sound(module)
  <2>1. /\ \A i \in 1..Len(module.ports) : PortOutcome(module, i) = "ok"
        /\ \A net \in ToSet(module.nets) : NetOutcome(net) = "ok"
    BY <1>4, <1>5, <1>10, <1>11
  <2>2. \A i \in 1..Len(module.cells) : CellOutcome(module, i) = "ok"
    BY <1>10, <1>11, CellsAreChecked DEF cells
  <2>3. GraphOutcome(module) = "ok"
    BY <1>10, <1>11 DEF graph
  <2>4. QED
    BY <2>1, <2>2, <2>3, CheckedIsSound
<1>12. ASSUME ModuleOutcome(module) = "structure"
       PROVE  ~Sound(module)
  <2>1. CASE cells = "ok" /\ graph = "structure"
    <3>1. \A i \in 1..Len(module.cells) : CellOutcome(module, i) = "ok"
      BY <2>1, CellsAreChecked DEF cells
    <3>2. QED
      BY <2>1, <3>1, GraphIsUnsound DEF graph
  <2>2. QED
    BY <1>6, <1>7, <1>8, <1>10, <1>12, <2>1
<1>13. QED
  BY <1>10, <1>11, <1>12

\* A module of the source that passes has nothing undefined.
LEMMA SourceIsDefined ==
  ASSUME NEW module, IsModule(module), SourceModuleOutcome(module) = "ok"
  PROVE  WhollyDefined(module)
<1> DEFINE port(p) == Then(IF p.direction = "inout" THEN "unsupported" ELSE "ok",
                           BitsOutcome(p.bits))
           pins(c) == {pin \in DOMAIN c.connections : BitsOutcome(c.connections[pin]) # "ok"}
           cell(c) == Then(AttributesOutcome(c.attributes),
                        IF pins(c) # {}
                        THEN BitsOutcome(c.connections[CHOOSE pin \in pins(c) : TRUE])
                        ELSE IF "unknown" \in c.parameters THEN "unsupported" ELSE "ok")
           ofPorts == [i \in DOMAIN module.ports |-> port(module.ports[i])]
           ofNets == [i \in DOMAIN module.nets |-> NetOutcome(module.nets[i])]
           ofCells == [i \in DOMAIN module.cells |-> cell(module.cells[i])]
<1>1. SourceModuleOutcome(module) =
        Then(AttributesOutcome(module.attributes),
          Then(FirstError(ofPorts), Then(FirstError(ofNets), FirstError(ofCells))))
  BY DEF SourceModuleOutcome
<1>2. /\ DOMAIN module.nets \subseteq Nat /\ DOMAIN module.cells \subseteq Nat
      /\ \A net \in ToSet(module.nets) : \E i \in DOMAIN module.nets : module.nets[i] = net
      /\ \A c \in ToSet(module.cells) : \E i \in DOMAIN module.cells : module.cells[i] = c
  <2>1. ASSUME NEW s, s \in Seq(ToSet(s))
        PROVE  DOMAIN s \subseteq Nat /\ \A e \in ToSet(s) : \E i \in DOMAIN s : s[i] = e
    BY <2>1, SetOf
  <2>2. module.nets \in Seq(ToSet(module.nets)) /\ module.cells \in Seq(ToSet(module.cells))
    BY DEF IsModule
  <2>3. QED
    BY <2>1, <2>2
<1>3. AttributesOutcome(module.attributes) = "ok" /\ FirstError(ofNets) = "ok"
      /\ FirstError(ofCells) = "ok"
  <2> HIDE DEF ofPorts, ofNets, ofCells
  <2>1. QED
    BY <1>1 DEF Then
<1>4. module.attributes = {}
  BY <1>3 DEF AttributesOutcome
<1>5. ASSUME NEW net \in ToSet(module.nets)
      PROVE  net.attributes = {} /\ \A bit \in ToSet(net.bits) : DefinedBit(bit)
  <2>1. /\ DOMAIN ofNets \subseteq Nat
        /\ \A i \in DOMAIN module.nets : i \in DOMAIN ofNets /\ ofNets[i] = NetOutcome(module.nets[i])
    BY <1>2
  <2>2. \A i \in DOMAIN ofNets : ofNets[i] = "ok"
    <3> HIDE DEF ofNets
    <3>1. QED
      BY <1>3, <2>1, FirstErrorIs
  <2>3. NetOutcome(net) = "ok"
    <3> HIDE DEF ofNets
    <3>1. QED
      BY <1>2, <2>1, <2>2
  <2>4. IsBits(net.bits)
    BY DEF IsModule
  <2>5. QED
    BY <2>3, <2>4, NetIsChecked
<1>6. ASSUME NEW c \in ToSet(module.cells)
      PROVE  /\ c.attributes = {} /\ "unknown" \notin c.parameters
             /\ \A pin \in DOMAIN c.connections :
                  \A bit \in ToSet(c.connections[pin]) : DefinedBit(bit)
  <2> HIDE DEF cell
  <2>1. /\ DOMAIN ofCells \subseteq Nat
        /\ \A i \in DOMAIN module.cells : i \in DOMAIN ofCells /\ ofCells[i] = cell(module.cells[i])
    BY <1>2
  <2>2. cell(c) = "ok"
    <3> HIDE DEF ofCells
    <3>1. \A i \in DOMAIN ofCells : ofCells[i] = "ok"
      BY <1>3, <2>1, FirstErrorIs
    <3>2. QED
      BY <1>2, <2>1, <3>1
  <2>3. /\ AttributesOutcome(c.attributes) = "ok" /\ pins(c) = {}
        /\ "unknown" \notin c.parameters
    <3> DEFINE chosen == CHOOSE pin \in pins(c) : TRUE
    <3>1. pins(c) # {} => chosen \in pins(c)
      OBVIOUS
    <3>2. pins(c) # {} => BitsOutcome(c.connections[chosen]) # "ok"
      BY <3>1
    <3>3. cell(c) = Then(AttributesOutcome(c.attributes),
                      IF pins(c) # {} THEN BitsOutcome(c.connections[chosen])
                      ELSE IF "unknown" \in c.parameters THEN "unsupported" ELSE "ok")
      BY DEF cell
    <3> HIDE DEF chosen, pins
    <3>4. QED
      BY <2>2, <3>2, <3>3 DEF Then
  <2>4. ASSUME NEW pin \in DOMAIN c.connections
        PROVE  \A bit \in ToSet(c.connections[pin]) : DefinedBit(bit)
    <3>1. BitsOutcome(c.connections[pin]) = "ok"
      BY <2>3
    <3>2. IsBits(c.connections[pin])
      BY DEF IsModule
    <3>3. QED
      BY <3>1, <3>2, BitsAreDefined
  <2>5. QED
    BY <2>3, <2>4 DEF AttributesOutcome
<1>7. QED
  BY <1>4, <1>5, <1>6 DEF WhollyDefined

\* A source that passes has nothing undefined in any of its modules.
LEMMA SourceIsChecked ==
  ASSUME NEW d \in Designs, NEW top, SourceOutcome(d.source, top) = "ok"
  PROVE  \A m \in ToSet(d.source.modules) : WhollyDefined(m.module)
<1> DEFINE modules == d.source.modules
           each == [i \in DOMAIN modules |-> SourceModuleOutcome(modules[i].module)]
<1>1. modules \in Seq(ToSet(modules)) /\ \A m \in ToSet(modules) : IsModule(m.module)
  BY NetlistExportAssumption
<1>2. FirstError(each) = "ok"
  BY DEF SourceOutcome, Then
<1>3. DOMAIN each \subseteq Nat
  BY <1>1, SetOf
<1>4. \A i \in DOMAIN modules : SourceModuleOutcome(modules[i].module) = "ok"
  <2>1. \A i \in DOMAIN modules : i \in DOMAIN each /\ each[i] = SourceModuleOutcome(modules[i].module)
    OBVIOUS
  <2> HIDE DEF each
  <2>2. QED
    BY <1>2, <1>3, <2>1, FirstErrorIs
<1>5. ASSUME NEW m \in ToSet(modules)
      PROVE  WhollyDefined(m.module)
  <2>1. PICK i \in DOMAIN modules : modules[i] = m
    BY <1>1, SetOf
  <2>2. QED
    BY <1>1, <1>4, <2>1, SourceIsDefined
<1>6. QED
  BY <1>5

\* What the exporter returns is a judgement on the module of the top name.
LEMMA ExportedIs ==
  ASSUME NEW d \in Designs, NEW p, p = Exported(d.netlist, d.top, d.clock),
         p.outcome \in {"ok", "structure"}
  PROVE  p.outcome = "ok" <=>
           Sound(CHOOSE m \in ModulesNamed(d.netlist, d.top) : TRUE)
<1> DEFINE found == ModulesNamed(d.netlist, d.top)
           module == CHOOSE m \in found : TRUE
           parsed == ParseOutcome(d.netlist)
           checked == Then(ModuleOutcome(module), ClockOutcome(module, d.clock))
<1>1. parsed \in {"ok", "limit", "parse"}
  <2> DEFINE a == d.netlist.bytes > ExportLimits.json
             b == ~d.netlist.wellFormed
  <2>1. parsed = FirstFailure(<<<<a, "limit">>, <<b, "parse">>>>)
    BY DEF ParseOutcome
  <2> HIDE DEF a, b, parsed
  <2> DEFINE checks == <<<<a, "limit">>, <<b, "parse">>>>
  <2>2. /\ DOMAIN checks = {1, 2}
        /\ checks[1][2] = "limit" /\ checks[2][2] = "parse"
    OBVIOUS
  <2>3. FirstFailure(checks) = "ok"
        \/ \E i \in DOMAIN checks : FirstFailure(checks) = checks[i][2]
    <3>1. DOMAIN checks \subseteq Nat
      BY <2>2
    <3> HIDE DEF checks
    <3>2. QED
      BY <3>1, FirstFailureIs
  <2>4. parsed = FirstFailure(checks)
    BY <2>1
  <2> HIDE DEF checks
  <2>5. QED
    BY <2>2, <2>3, <2>4
<1>2. parsed = "ok" /\ found # {}
  BY <1>1 DEF Exported, Refused
<1>3. module \in found
  BY <1>2
<1>4. found = {module}
  <2>1. \A m, n \in ToSet(d.netlist.modules) : m.name = n.name => m = n
    BY NetlistExportAssumption
  <2>2. \A m, n \in found : m = n
    BY <2>1 DEF ModulesNamed
  <2> HIDE DEF found, module
  <2>3. QED
    BY <1>3, <2>2
<1>5. IsModule(module)
  <2>1. \A m \in ToSet(d.netlist.modules) : IsModule(m.module)
    BY NetlistExportAssumption
  <2> HIDE DEF module
  <2>2. QED
    BY <1>3, <2>1 DEF ModulesNamed
<1>6. p = ExportedModule(module, d.top, d.clock)
  <2> DEFINE e == ExportedModule(module, d.top, d.clock)
  <2>1. p = CHOOSE r \in {ExportedModule(m, d.top, d.clock) : m \in found} : TRUE
    BY <1>2 DEF Exported
  <2> HIDE DEF found, module
  <2>2. {ExportedModule(m, d.top, d.clock) : m \in found} = {e}
    BY <1>4
  <2> HIDE DEF e
  <2>3. p \in {e}
    BY <2>1, <2>2
  <2>4. QED
    BY <2>3 DEF e
<1> HIDE DEF module, found
<1>7. \/ checked # "ok" /\ p.outcome = checked
      \/ checked = "ok" /\ p.outcome \in {"ok", "limit"}
  <2> DEFINE name == SafeTopName(d.top)
             books == {BookOf(built, name, d.clock) : built \in {TopChip(module)}}
             results == {Finished(book, name, d.clock) : book \in books}
  <2>1. CASE checked # "ok"
    BY <1>6, <2>1 DEF ExportedModule, Refused
  <2>2. CASE checked = "ok"
    <3>1. p = CHOOSE r \in results : TRUE
      BY <1>6, <2>2 DEF ExportedModule
    <3>2. \E r : r \in results
      OBVIOUS
    <3>3. \A r \in results : \E book : r = Finished(book, name, d.clock)
      OBVIOUS
    <3> HIDE DEF results
    <3>4. p \in results
      BY <3>1, <3>2
    <3>5. PICK book : p = Finished(book, name, d.clock)
      BY <3>3, <3>4
    <3>6. p.outcome \in {"ok", "limit"}
      BY <3>5 DEF Finished, Refused
    <3>7. QED
      BY <2>2, <3>6
  <2>3. QED
    BY <2>1, <2>2
<1>8. ClockOutcome(module, d.clock) \in {"ok", "unsupported"}
  BY DEF ClockOutcome
<1>9. ModuleOutcome(module) \in Outcomes
  BY <1>5, ModuleIsChecked
<1>10. /\ p.outcome = "ok" => ModuleOutcome(module) = "ok"
       /\ p.outcome = "structure" => ModuleOutcome(module) = "structure"
  BY <1>7, <1>8, <1>9 DEF Then, Outcomes
<1>11. p.outcome = "ok" <=> Sound(module)
  BY <1>5, <1>10, ModuleIsChecked
<1>12. QED
  BY <1>11 DEF module, found

ExportInv ==
  /\ design \in Designs
  /\ stage \in {"source", "netlist", "exported", "refused"}
  /\ stage \in {"netlist", "exported"} \/ project # <<>> =>
       \A m \in ToSet(design.source.modules) : WhollyDefined(m.module)
  /\ project # <<>> => project = Exported(design.netlist, design.top, design.clock)

LEMMA ExportInvHolds == ExportSpec => []ExportInv
<1>1. ExportInit => ExportInv
  BY DEF ExportInit, ExportInv
<1>2. ExportInv /\ [ExportNext]_exportVars => ExportInv'
  <2> SUFFICES ASSUME ExportInv, [ExportNext]_exportVars
               PROVE  ExportInv'
    OBVIOUS
  <2>1. CASE CheckSource
    <3>1. design' = design /\ project' = project /\ stage = "source"
      BY <2>1 DEF CheckSource
    <3>2. CASE SourceOutcome(design.source, design.top) = "ok"
      <4>1. \A m \in ToSet(design.source.modules) : WhollyDefined(m.module)
        BY <3>2, SourceIsChecked DEF ExportInv
      <4>2. QED
        BY <2>1, <3>1, <3>2, <4>1 DEF ExportInv, CheckSource
    <3>3. CASE SourceOutcome(design.source, design.top) # "ok"
      BY <2>1, <3>1, <3>3 DEF ExportInv, CheckSource
    <3>4. QED
      BY <3>2, <3>3
  <2>2. CASE Export
    BY <2>2 DEF ExportInv, Export
  <2>3. CASE UNCHANGED exportVars
    BY <2>3 DEF ExportInv, exportVars
  <2>4. QED
    BY <2>1, <2>2, <2>3 DEF ExportNext
<1>3. QED
  BY <1>1, <1>2, PTL DEF ExportSpec

\* The check of a netlist is exact (from_yosys_json, validate_module): one that is
\* judged by its structure is exported exactly when it is well shaped, every bit in
\* it is defined, each wire that counts has one driver and each constant none, and no
\* combinational cells wait for one another; and it is only exported after the whole
\* of its source was found to be defined (validate_source_states).
THEOREM SoundNetlistsAreExported == ExportSpec => []SoundIsExported
<1>1. ExportInv => SoundIsExported
  BY ExportedIs DEF ExportInv, SoundIsExported, Module
<1>2. QED
  BY <1>1, ExportInvHolds, PTL
=============================================================================
