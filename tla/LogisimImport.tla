---------------------------- MODULE LogisimImport ----------------------------
(***************************************************************************)
(* The Logisim profile at work (crates/jsonrtl-profiles/src/logisim:       *)
(* mod.rs and elaborate.rs).  The file is read, and the circuits that are  *)
(* asked for are converted one after the other: a circuit is checked, its  *)
(* wires join points one wire after the other, and what came of it is      *)
(* lowered to a document.  convert stops at the first circuit that fails;  *)
(* convert_units goes on.                                                  *)
(*                                                                         *)
(* elaborate uses a union-find structure over the points.  Here root maps  *)
(* every point straight to the representative that find would return.      *)
(***************************************************************************)
EXTENDS LogisimLower

VARIABLES
  sheet,         \* the project, and the units that the caller names
  sheetPhase,    \* "open", "next", "join", "lowered" or "done"
  sheetResults,  \* how each circuit so far has come out
  root,          \* UnionFind, over the points that matter
  joined,        \* how many wires have been joined
  sheetDocument  \* <<>>, or the document of the circuit, in a sequence

sheetVars == <<sheet, sheetPhase, sheetResults, root, joined, sheetDocument>>

\* convert takes every circuit; the callers of the others name units.
SheetUnits == IF sheet.whole THEN CircuitNames(sheet.file) ELSE sheet.units
SheetUnit  == SheetUnits[Len(sheetResults) + 1]
Circuit    == CircuitNamed(sheet.file, SheetUnit)

SheetInit(opened) ==
  /\ sheet = opened
  /\ sheetPhase = "open" /\ sheetResults = <<>>
  /\ root = <<>> /\ joined = 0 /\ sheetDocument = <<>>

SheetRecord(how) ==
  /\ sheetResults' = Append(sheetResults, how)
  /\ sheetPhase' = IF sheet.whole /\ how # "converted" THEN "done" ELSE "next"

\* load_project
OpenSheet ==
  /\ sheetPhase = "open"
  /\ sheetPhase' = IF FileOutcome(sheet.file) = "ok" THEN "next" ELSE "done"
  /\ UNCHANGED <<sheet, sheetResults, root, joined, sheetDocument>>

RefuseCircuit ==
  /\ sheetPhase = "next" /\ Len(sheetResults) < Len(SheetUnits)
  /\ \/ /\ SheetUnit \notin ToSet(CircuitNames(sheet.file))
        /\ SheetRecord("unknown")
     \/ /\ SheetUnit \in ToSet(CircuitNames(sheet.file))
        /\ CircuitOutcome(Circuit) # "ok"
        /\ SheetRecord(CircuitOutcome(Circuit))
  /\ UNCHANGED <<sheet, root, joined, sheetDocument>>

\* The points that matter: ports, and ends of wires.
SheetPoints(circuit) ==
  UNION {ToSet(PortPoints(comp)) : comp \in ToSet(circuit.comps)}
    \cup UNION {{wire.from, wire.to} : wire \in ToSet(circuit.wires)}

StartCircuit ==
  /\ sheetPhase = "next" /\ Len(sheetResults) < Len(SheetUnits)
  /\ SheetUnit \in ToSet(CircuitNames(sheet.file))
  /\ CircuitOutcome(Circuit) = "ok"
  /\ root' = [p \in SheetPoints(Circuit) |-> p]
  /\ joined' = 0
  /\ sheetPhase' = "join"
  /\ UNCHANGED <<sheet, sheetResults, sheetDocument>>

Between(v, a, b) == (a <= v /\ v <= b) \/ (b <= v /\ v <= a)

\* Fault: a wire connects at its ends only.
OnSegmentAtEnds(p, wire) == p = wire.from \/ p = wire.to

\* on_segment
OnSegment(p, wire) ==
  IF wire.from[1] = wire.to[1]
  THEN p[1] = wire.from[1] /\ Between(p[2], wire.from[2], wire.to[2])
  ELSE IF wire.from[2] = wire.to[2]
  THEN p[2] = wire.from[2] /\ Between(p[1], wire.from[1], wire.to[1])
  ELSE p = wire.from \/ p = wire.to

\* The roots of everything on the wire go below that of its first end.
JoinPoints ==
  /\ sheetPhase = "join" /\ joined < Len(Circuit.wires)
  /\ LET wire == Circuit.wires[joined + 1]
         met  == {root[p] : p \in {q \in DOMAIN root : OnSegment(q, wire)}
                                    \cup {wire.to}}
     IN  root' = [p \in DOMAIN root |->
                    IF root[p] \in met THEN root[wire.from] ELSE root[p]]
  /\ joined' = joined + 1
  /\ UNCHANGED <<sheet, sheetPhase, sheetResults, sheetDocument>>

LowerCircuit ==
  /\ sheetPhase = "join" /\ joined = Len(Circuit.wires)
  /\ sheetDocument' = <<SheetDocument(Circuit, root)>>
  /\ sheetPhase' = "lowered"
  /\ UNCHANGED <<sheet, sheetResults, root, joined>>

EndCircuit ==
  /\ sheetPhase = "lowered"
  /\ SheetRecord("converted")
  /\ sheetDocument' = <<>> /\ root' = <<>> /\ joined' = 0
  /\ UNCHANGED sheet

CloseSheet ==
  /\ sheetPhase = "next" /\ Len(sheetResults) = Len(SheetUnits)
  /\ sheetPhase' = "done"
  /\ UNCHANGED <<sheet, sheetResults, root, joined, sheetDocument>>

SheetNext ==
  \/ OpenSheet \/ RefuseCircuit \/ StartCircuit \/ JoinPoints
  \/ LowerCircuit \/ EndCircuit \/ CloseSheet
=============================================================================
