------------------------------ MODULE DlsLoader ------------------------------
(***************************************************************************)
(* ProjectLoader of the DLS profile (dls/model.rs): the definitions of the *)
(* chips that a unit is built from are read, each file once, and kept for  *)
(* the units that follow.  load_dependencies is recursive; its calls are   *)
(* the frames of `stack`, and one call or return is one step.              *)
(*                                                                         *)
(* What was read before decides what a later unit may still do: the bytes  *)
(* that are left, the failures that are kept, and the heights, which let   *)
(* the depth of a chip be checked without going through it again.          *)
(***************************************************************************)
EXTENDS DlsProject

CONSTANTS
  MaxDepth,         \* MAX_DEPTH
  MaxChips,         \* MAX_PROJECT_CHIPS
  MaxFileBytes,     \* MAX_FILE_BYTES
  MaxProjectBytes   \* MAX_PROJECT_BYTES

(***************************************************************************)
(* A project has the outcome of reading ProjectDescription.json, the chips *)
(* listed there, and a file for each chip name: its state, which is        *)
(* "missing", "binary" when it is no UTF-8, "malformed" or "good", its     *)
(* size, and the chip in it.                                               *)
(***************************************************************************)
ASSUME DlsLoaderAssumption ==
  /\ MaxDepth \in Nat \ {0} /\ MaxChips \in Nat
  /\ MaxFileBytes \in Nat /\ MaxProjectBytes \in Nat

VARIABLES
  project,      \* the directory
  chips,        \* the chips loaded
  failures,     \* chip name -> why its file could not be used
  heights,      \* chip name -> how deep the chips below it nest, itself included
  sourceBytes,  \* source_bytes
  call,         \* <<name>>: load_dependencies is about to be called with it
  stack,        \* the calls under way: [chip, at, height], at the next sub-chip
  asked,        \* <<unit>>: the unit that load_unit was last called with
  loaded        \* "busy", "ok", or how the last load_unit failed

files      == <<chips, failures, sourceBytes>>
loaderVars == <<project, files, heights, call, stack, asked, loaded>>

Listed == ToSet(project.listing)

\* load_metadata: nothing of a project with a bad listing is read.
Metadata ==
  IF project.description # "ok" THEN project.description
  ELSE IF Len(project.listing) > MaxChips THEN "limit"
  ELSE IF \E i \in DOMAIN project.listing :
            \/ ~IsSafeUnitName(project.listing[i])
            \/ \E j \in 1..i - 1 : project.listing[j] = project.listing[i]
  THEN "structure"
  ELSE "ok"

LoaderInit(directory) ==
  /\ project = directory
  /\ chips = {} /\ failures = <<>> /\ heights = <<>> /\ sourceBytes = 0
  /\ call = <<>> /\ stack = <<>> /\ asked = <<>> /\ loaded = "ok"

-----------------------------------------------------------------------------
(***************************************************************************)
(* load_chip and read_chip.                                                *)
(***************************************************************************)
\* What reading a file gives, with the bytes that are left.
Reading(name) ==
  LET file == project.file[name]
      most == Lesser(MaxFileBytes, MaxProjectBytes - sourceBytes)
  IN  CASE file.state = "missing" -> "io"
        [] file.state # "missing" /\ file.size > most -> "limit"
        [] file.state = "binary" /\ file.size <= most -> "io"
        [] file.state = "malformed" /\ file.size <= most -> "parse"
        [] OTHER -> "ok"

\* The file is read for the first time.  A file that does not parse has been
\* read all the same.
Reads(name, outcome) ==
  /\ name \notin chips \cup DOMAIN failures
  /\ outcome = Reading(name)
  /\ sourceBytes' = IF outcome \in {"ok", "parse"}
                    THEN sourceBytes + project.file[name].size ELSE sourceBytes
  /\ IF outcome = "ok"
     THEN chips' = chips \cup {name} /\ UNCHANGED failures
     ELSE /\ failures' = [n \in DOMAIN failures \cup {name} |->
                            IF n = name THEN outcome ELSE failures[n]]
          /\ UNCHANGED chips

LoadChip(name, outcome) ==
  \/ Reads(name, outcome)
  \/ name \in chips /\ outcome = "ok" /\ UNCHANGED files
  \/ name \in DOMAIN failures /\ outcome = failures[name] /\ UNCHANGED files

-----------------------------------------------------------------------------
(***************************************************************************)
(* load_unit and load_dependencies.                                        *)
(***************************************************************************)
Chip(name) == project.file[name].chip

\* A sub-chip of the project.  Names outside it are left for elaboration to refuse.
IsDependency(sub) == ~IsBuiltin(sub.name) /\ sub.name.text \in Listed

\* The chips of the project that a chip is built from.
Dependencies(name) ==
  {sub.name.text : sub \in {s \in ToSet(Chip(name).subs) : IsDependency(s)}}

AskFor(unit) ==
  /\ loaded # "busy"
  /\ unit \in Listed
  /\ loaded' = "busy" /\ call' = <<unit>> /\ stack' = <<>> /\ asked' = <<unit>>
  /\ UNCHANGED <<project, files, heights>>

Caller == stack[Len(stack)]

\* The sub-chips that it has still to go down to.
Ahead ==
  {i \in Caller.at..Len(Chip(Caller.chip).subs) : IsDependency(Chip(Caller.chip).subs[i])}

\* An error goes up through every call.
Fail(how) == loaded' = how /\ call' = <<>> /\ stack' = <<>>

\* A call returns a height to the last of `calls`.
Return(calls, height) ==
  /\ call' = <<>>
  /\ IF calls = <<>> THEN loaded' = "ok" /\ stack' = <<>>
     ELSE /\ stack' = [calls EXCEPT ![Len(calls)].height = Larger(@, height + 1)]
          /\ UNCHANGED loaded

\* Fault: what is known of the chips below is not looked at.
DeepestShallow(name) == Len(stack) + 1

\* The deepest level that a call is known to lead to.
Deepest(name) ==
  Len(stack) + (IF name \in DOMAIN heights THEN heights[name] ELSE 1)

TooDeep ==
  \E name \in ToSet(call) :
    /\ Deepest(name) > MaxDepth
    /\ Fail("depth")
    /\ UNCHANGED <<project, files, heights, asked>>

Recall ==
  \E name \in ToSet(call) \cap DOMAIN heights :
    /\ Deepest(name) <= MaxDepth
    /\ Return(stack, heights[name])
    /\ UNCHANGED <<project, files, heights, asked>>

Cyclic ==
  \E name \in ToSet(call) \ DOMAIN heights :
    /\ Deepest(name) <= MaxDepth
    /\ \E i \in DOMAIN stack : stack[i].chip = name
    /\ Fail("cycle")
    /\ UNCHANGED <<project, files, heights, asked>>

Open ==
  \E name \in ToSet(call) \ DOMAIN heights, outcome \in {"ok", "io", "limit", "parse"} :
    /\ Deepest(name) <= MaxDepth
    /\ \A i \in DOMAIN stack : stack[i].chip # name
    /\ LoadChip(name, outcome)
    /\ IF outcome = "ok"
       THEN /\ stack' = Append(stack, [chip |-> name, at |-> 1, height |-> 1])
            /\ call' = <<>> /\ UNCHANGED loaded
       ELSE Fail(outcome)
    /\ UNCHANGED <<project, heights, asked>>

Descend ==
  /\ call = <<>> /\ stack # <<>>
  /\ \E i \in Ahead :
       /\ \A j \in Ahead : i <= j
       /\ call' = <<Chip(Caller.chip).subs[i].name.text>>
       /\ stack' = [stack EXCEPT ![Len(stack)].at = i + 1]
  /\ UNCHANGED <<project, files, heights, asked, loaded>>

Leave ==
  /\ call = <<>> /\ stack # <<>> /\ Ahead = {}
  /\ heights' = [n \in DOMAIN heights \cup {Caller.chip} |->
                   IF n = Caller.chip THEN Caller.height ELSE heights[n]]
  /\ Return(Front(stack), Caller.height)
  /\ UNCHANGED <<project, files, asked>>

LoaderNext == TooDeep \/ Recall \/ Cyclic \/ Open \/ Descend \/ Leave

\* What the deserializers give: a listing, and for what it names a file.
IsProject(p) ==
  /\ p.description = "ok"
  /\ p.listing \in Seq(ToSet(p.listing)) /\ ToSet(p.listing) \subseteq DOMAIN p.file
  /\ \A name \in ToSet(p.listing) :
       LET file == p.file[name] IN
       /\ file.size \in Nat /\ file.state \in {"missing", "binary", "malformed", "good"}
       /\ \A part \in {file.chip.inputs, file.chip.outputs, file.chip.subs} :
            part \in Seq(ToSet(part))
       /\ \A pin \in ToSet(PinsOf(file.chip)) :
            pin.width \in Nat /\ pin.name \in Seq(ToSet(pin.name))

\* One loader for any number of units, as convert_units uses it.
LoaderSpec ==
  /\ IsProject(project) /\ Metadata = "ok" /\ LoaderInit(project)
  /\ [][LoaderNext \/ \E unit \in Listed : AskFor(unit)]_loaderVars

-----------------------------------------------------------------------------
(***************************************************************************)
(* What a load must come to, without a search: a unit can be loaded when   *)
(* no chain of references from it is longer than MaxDepth, which rules out *)
(* cycles, and every chip on these chains has a good file.                 *)
(***************************************************************************)
\* The chips at the ends of the chains with `n` references.
ChainEnds(unit) ==
  LET ends[n \in 0..MaxDepth] ==
        IF n = 0 THEN {unit}
        ELSE UNION {Dependencies(m) :
                      m \in {e \in ends[n - 1] : project.file[e].state = "good"}}
  IN  ends

Loadable(unit) ==
  LET ends == ChainEnds(unit) IN
  /\ ends[MaxDepth] = {}
  /\ \A n \in 0..MaxDepth : \A name \in ends[n] :
       /\ project.file[name].state = "good"
       /\ project.file[name].size <= MaxFileBytes

\* What the files of these names come to, each counted once, along the listing.
BytesUpTo(names) ==
  LET sum[i \in 0..Len(project.listing)] ==
        IF i = 0 THEN 0
        ELSE sum[i - 1] + (IF project.listing[i] \in names
                           THEN project.file[project.listing[i]].size ELSE 0)
  IN  sum

FileBytes(names) == BytesUpTo(names)[Len(project.listing)]

\* What was read for the units before, what failed and what heights are known
\* change nothing for a unit: it loads exactly when it would alone, unless the
\* bytes of the project run out.
LoadsAsIfAlone ==
  \A unit \in ToSet(asked) :
    /\ loaded = "ok" => Loadable(unit)
    /\ loaded # "busy" /\ FileBytes(Listed) <= MaxProjectBytes =>
         (Loadable(unit) => loaded = "ok")
=============================================================================
