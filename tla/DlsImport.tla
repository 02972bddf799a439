------------------------------ MODULE DlsImport ------------------------------
(***************************************************************************)
(* The DLS profile at work (dls/mod.rs: convert, convert_unit and          *)
(* convert_units): units are loaded, elaborated and lowered one after      *)
(* another, with one loader.  convert stops at the first unit that fails;  *)
(* convert_units goes on.                                                  *)
(***************************************************************************)
EXTENDS DlsElaborate

VARIABLES
  phase,    \* "open", "next", "load", "elaborate" or "done"
  results   \* how each unit so far has come out

vars == <<loaderVars, elaborateVars, phase, results>>

\* convert takes the whole listing; the callers of the others name units.
Units == IF project.whole THEN project.listing ELSE project.units
Unit  == Units[Len(results) + 1]

Init(directory) ==
  /\ LoaderInit(directory) /\ ElaborateInit
  /\ phase = "open" /\ results = <<>>

\* ProjectLoader::new
OpenProject ==
  /\ phase = "open"
  /\ phase' = IF Metadata = "ok" THEN "next" ELSE "done"
  /\ UNCHANGED <<loaderVars, elaborateVars, results>>

Record(how) ==
  /\ results' = Append(results, how)
  /\ phase' = IF project.whole /\ how # "converted" THEN "done" ELSE "next"

RefuseUnit ==
  /\ phase = "next" /\ Len(results) < Len(Units)
  /\ Unit \notin Listed
  /\ Record("unknown")
  /\ UNCHANGED <<loaderVars, elaborateVars>>

LoadUnit ==
  /\ phase = "next" /\ Len(results) < Len(Units)
  /\ AskFor(Unit)
  /\ phase' = "load"
  /\ UNCHANGED <<elaborateVars, results>>

Load ==
  /\ phase = "load"
  /\ LoaderNext
  /\ UNCHANGED <<elaborateVars, phase, results>>

LoadFailed ==
  /\ phase = "load" /\ loaded \notin {"busy", "ok"}
  /\ Record(loaded)
  /\ UNCHANGED <<loaderVars, elaborateVars>>

StartUnit ==
  /\ phase = "load" /\ loaded = "ok"
  /\ Start(Unit)
  /\ phase' = "elaborate"
  /\ UNCHANGED <<loaderVars, results>>

Elaborate ==
  /\ phase = "elaborate"
  /\ ElaborateNext
  /\ UNCHANGED <<loaderVars, phase, results>>

EndUnit ==
  /\ phase = "elaborate" /\ outcome # "busy"
  /\ Record(outcome)
  /\ outcome' = "idle" /\ document' = <<>> /\ gates' = <<>>
  /\ UNCHANGED <<loaderVars, parent, frames>>

Close ==
  /\ phase = "next" /\ Len(results) = Len(Units)
  /\ phase' = "done"
  /\ UNCHANGED <<loaderVars, elaborateVars, results>>

Next ==
  \/ OpenProject \/ RefuseUnit \/ LoadUnit \/ Load \/ LoadFailed
  \/ StartUnit \/ Elaborate \/ EndUnit \/ Close

-----------------------------------------------------------------------------
\* The kernel finds in a converted document only what the user's own circuit
\* has wrong: signals without a driver, cycles, names and sizes.
KernelFindsOnlyUserErrors ==
  \A doc \in ToSet(document) :
    Report(doc) \ Warnings
      \subseteq {"NET_NO_DRIVER", "GRAPH_COMBINATIONAL_CYCLE", "NAME_EMPTY",
                 "NAME_INVALID", "WIDTH_EXCEEDS_LIMIT", "LIMIT_PORTS",
                 "LIMIT_NETS", "LIMIT_COMPONENTS", "LIMIT_STRING_LENGTH"}
=============================================================================
