---------------------------- MODULE ImportCommand ----------------------------
(***************************************************************************)
(* `jsonrtl import` (crates/jsonrtl-cli/src/main.rs: import_command and    *)
(* select_profile; jsonrtl-profiles/src/lib.rs: registry, profile_by_id,   *)
(* detect_profile and the detect of each profile).  A profile is chosen,   *)
(* converts the units that are asked for, and every document it gives is   *)
(* compiled and written.                                                   *)
(*                                                                         *)
(* The two profiles take the steps of their own modules.  A caller of the  *)
(* profile crate ("library") only has the conversion.  write_atomic is     *)
(* taken as a whole here, as a call that writes its file or fails;         *)
(* OutputFiles has its steps and its races.                                *)
(***************************************************************************)
EXTENDS DlsImport, LogisimImport

CONSTANT
  Invocations  \* a sequence of [commands, projects, sheets]: what may be called,
               \* and on what

(***************************************************************************)
(* A command has: use, which is "library", "all", "chip" (--chip) or       *)
(* "skip" (--skip-unsupported); profile, the id given or ""; path, what    *)
(* the path is: "project", "circ" or "other"; printed (--stdout);          *)
(* canonical (--emit-canonical); force; and existing, the output files     *)
(* that are already there.                                                 *)
(*                                                                         *)
(* A run of --skip-unsupported asks for units by the names of a listing    *)
(* that was read a moment ago, and so was accepted: they are different.    *)
(***************************************************************************)
SkipsByName(p) ==
  ~p.whole /\ \A i, j \in DOMAIN p.units : p.units[i] = p.units[j] => i = j

ASSUME ImportCommandAssumption ==
  \A i \in ToSet(Invocations) :
    /\ \A c \in i.commands :
         /\ c.use \in {"library", "all", "chip", "skip"}
         /\ c.printed => c.use = "chip"
         /\ c.use = "skip" =>
              /\ \A p \in i.projects : p.description = "ok" => SkipsByName(p)
              /\ \A s \in i.sheets : FileOutcome(s.file) = "ok" => SkipsByName(s)
    /\ \A p \in i.projects :
         /\ p.units \in Seq(ToSet(p.units))
         /\ p.description = "ok" => IsProject(p)
    /\ \A s \in i.sheets :
         /\ s.units \in Seq(ToSet(s.units))
         /\ s.file.circuits \in Seq(ToSet(s.file.circuits))

VARIABLES
  command,  \* the arguments
  stage,    \* "select", "convert", "compile", "check", "canonical", "verilog", "done"
  kept,     \* the circuits converted: [name, document]
  skipped,  \* the units left out of a --skip-unsupported run
  outputs,  \* the units compiled, in their order
  written,  \* the files written: <<extension, unit>>
  exit      \* "", or the exit code: "ok", "invalid" or "io"

commandVars == <<command, stage, kept, skipped, outputs, written, exit>>
importVars  == <<vars, sheetVars, commandVars>>

ImportInit ==
  /\ \E i \in ToSet(Invocations) :
       /\ command \in i.commands
       /\ \E p \in i.projects : Init(p)
       /\ \E s \in i.sheets : SheetInit(s)
  /\ stage = "select" /\ exit = ""
  /\ kept = <<>> /\ skipped = <<>> /\ outputs = <<>> /\ written = {}

Exit(code) == stage' = "done" /\ exit' = code

-----------------------------------------------------------------------------
(***************************************************************************)
(* Selection and conversion.                                               *)
(***************************************************************************)
\* profile_by_id and detect_profile: a directory with the description and the
\* chips of a project, or a file that ends in .circ.
Profile ==
  CASE command.profile \in {"dls", "logisim"}            -> command.profile
    [] command.profile = "" /\ command.path = "project"  -> "dls"
    [] command.profile = "" /\ command.path = "circ"     -> "logisim"
    [] OTHER                                             -> "none"

SelectProfile ==
  /\ stage = "select"
  /\ IF Profile = "none" THEN Exit("invalid") ELSE stage' = "convert" /\ UNCHANGED exit
  /\ UNCHANGED <<vars, sheetVars, command, kept, skipped, outputs, written>>

Keep(converted, unit, documents) ==
  kept' = IF converted THEN Append(kept, [name |-> unit, document |-> documents[1]])
          ELSE kept

ConvertDls ==
  /\ stage = "convert" /\ Profile = "dls"
  /\ Next
  /\ Keep(phase = "elaborate" /\ outcome = "converted", Unit, document)
  /\ UNCHANGED <<sheetVars, command, stage, skipped, outputs, written, exit>>

ConvertLogisim ==
  /\ stage = "convert" /\ Profile = "logisim"
  /\ SheetNext
  /\ Keep(sheetPhase = "lowered", SheetUnit, sheetDocument)
  /\ UNCHANGED <<vars, command, stage, skipped, outputs, written, exit>>

\* What the profile says in the end.
Opened == IF Profile = "dls" THEN Metadata ELSE FileOutcome(sheet.file)
Asked  == IF Profile = "dls" THEN Units ELSE SheetUnits
Came   == IF Profile = "dls" THEN results ELSE sheetResults
Converted == IF Profile = "dls" THEN phase = "done" ELSE sheetPhase = "done"

\* The units that were not converted, in their order.
FailedUnits ==
  Sifted(Asked, {i \in DOMAIN Came : Came[i] # "converted"})

\* profile_failure
ExitCode(error) == IF error = "io" THEN "io" ELSE "invalid"

EndConversion ==
  /\ stage = "convert" /\ Converted
  /\ LET failed == FailedUnits IN
     \/ /\ command.use = "library"
        /\ stage' = "done" /\ UNCHANGED <<skipped, exit>>
     \/ /\ command.use # "library" /\ Opened # "ok"
        /\ Exit(ExitCode(Opened)) /\ UNCHANGED skipped
     \/ /\ command.use \in {"all", "chip"} /\ Opened = "ok" /\ failed # <<>>
        /\ Exit(ExitCode(Last(Came))) /\ UNCHANGED skipped
     \/ /\ command.use # "library" /\ Opened = "ok"
        /\ command.use = "skip" \/ failed = <<>>
        /\ skipped' = failed
        /\ stage' = "compile" /\ UNCHANGED exit
  /\ UNCHANGED <<vars, sheetVars, command, kept, outputs, written>>

-----------------------------------------------------------------------------
(***************************************************************************)
(* Compilation.                                                            *)
(***************************************************************************)
NamesOf(circuits) == [i \in DOMAIN circuits |-> circuits[i].name]

\* has_output: CompileVerilog shows that a document without errors always gives
\* Verilog.
Compiles(circuit) == ~HasErrors(Report(circuit.document))

\* Fault: a unit that does not compile is left out without a word.
CompileSilently ==
  /\ stage = "compile"
  /\ LET good == Sifted(kept, {i \in DOMAIN kept : Compiles(kept[i])})
     IN  /\ outputs' = NamesOf(good)
         /\ IF good = <<>> THEN Exit("invalid") ELSE stage' = "check" /\ UNCHANGED exit
  /\ UNCHANGED <<vars, sheetVars, command, kept, skipped, written>>

Compile ==
  /\ stage = "compile"
  /\ LET good == Sifted(kept, {i \in DOMAIN kept : Compiles(kept[i])})
         bad  == Sifted(kept, {i \in DOMAIN kept : ~Compiles(kept[i])})
     IN  \/ /\ command.use # "skip" /\ bad # <<>>
            /\ Exit("invalid") /\ UNCHANGED <<skipped, outputs>>
         \/ /\ command.use = "skip" \/ bad = <<>>
            /\ skipped' = skipped \o NamesOf(bad)
            /\ outputs' = NamesOf(good)
            /\ IF command.use = "skip" /\ good = <<>> THEN Exit("invalid")
               ELSE stage' = "check" /\ UNCHANGED exit
  /\ UNCHANGED <<vars, sheetVars, command, kept, written>>

-----------------------------------------------------------------------------
(***************************************************************************)
(* Output.                                                                 *)
(***************************************************************************)
Canonical == IF command.canonical THEN {"json"} ELSE {}
Verilog   == IF command.printed THEN {} ELSE {"v"}
Destinations == (Canonical \cup Verilog) \X ToSet(outputs)

\* Names are checked before any path is built from them, and then that nothing
\* would be overwritten.
Check ==
  /\ stage = "check"
  /\ IF ~\A unit \in ToSet(outputs) : IsSafeUnitName(unit) THEN Exit("invalid")
     ELSE IF ~command.force /\ Destinations \cap command.existing # {} THEN Exit("io")
     ELSE stage' = "canonical" /\ UNCHANGED exit
  /\ UNCHANGED <<vars, sheetVars, command, kept, skipped, outputs, written>>

\* The places of the units of which no file with this extension is written yet.
Unwritten(extension) ==
  {i \in DOMAIN outputs : <<extension, outputs[i]>> \notin written}

\* create_dir_all or write_atomic fails, or the pipe is closed.
Fails ==
  /\ stage \in {"canonical", "verilog"}
  /\ stage = "canonical" => command.canonical
  /\ Exit("io")
  /\ UNCHANGED <<vars, sheetVars, command, kept, skipped, outputs, written>>

Write(extension) ==
  /\ \E i \in Unwritten(extension) :
       /\ \A j \in Unwritten(extension) : i <= j
       /\ written' = written \cup {<<extension, outputs[i]>>}
  /\ UNCHANGED <<vars, sheetVars, command, stage, kept, skipped, outputs, exit>>

WriteCanonical == stage = "canonical" /\ command.canonical /\ Write("json")

EndCanonical ==
  /\ stage = "canonical"
  /\ command.canonical => Unwritten("json") = {}
  /\ stage' = "verilog"
  /\ UNCHANGED <<vars, sheetVars, command, kept, skipped, outputs, written, exit>>

\* To the directory, or to standard output.
WriteVerilog == stage = "verilog" /\ Write(IF command.printed THEN "stdout" ELSE "v")

\* Fault: a partial import ends well.
EndImportWell ==
  /\ stage = "verilog"
  /\ Unwritten(IF command.printed THEN "stdout" ELSE "v") = {}
  /\ Exit("ok")
  /\ UNCHANGED <<vars, sheetVars, command, kept, skipped, outputs, written>>

EndImport ==
  /\ stage = "verilog"
  /\ Unwritten(IF command.printed THEN "stdout" ELSE "v") = {}
  /\ Exit(IF skipped = <<>> THEN "ok" ELSE "invalid")
  /\ UNCHANGED <<vars, sheetVars, command, kept, skipped, outputs, written>>

ImportNext ==
  \/ SelectProfile \/ ConvertDls \/ ConvertLogisim \/ EndConversion \/ Compile
  \/ Check \/ Fails \/ WriteCanonical \/ EndCanonical \/ WriteVerilog \/ EndImport

ImportSpec == ImportInit /\ [][ImportNext]_importVars

-----------------------------------------------------------------------------
(***************************************************************************)
(* Properties.                                                             *)
(***************************************************************************)
Left(extension) == {f[2] : f \in {g \in written : g[1] = extension}}

\* "A script cannot mistake a partial import for a complete one" (docs/cli.md:132):
\* after exit code 0 every unit that was asked for has its Verilog, and its
\* canonical document when these were asked for, and nothing else was written.
ZeroMeansEverything ==
  exit = "ok" =>
    /\ Left("v") \cup Left("stdout") = ToSet(Asked)
    /\ Left("json") = IF command.canonical THEN ToSet(Asked) ELSE {}

\* Whatever a run of --skip-unsupported meets, each unit of the listing is written
\* or is among those reported as skipped, and never both; results are matched to
\* units by their place only (zip), over two reads of the listing.
EveryUnitIsAccountedFor ==
  command.use = "skip" /\ stage \in {"check", "canonical", "verilog"} =>
    /\ ToSet(outputs) \cup ToSet(skipped) = ToSet(Asked)
    /\ ToSet(outputs) \cap ToSet(skipped) = {}
    /\ Len(outputs) + Len(skipped) = Len(Asked)

=============================================================================
