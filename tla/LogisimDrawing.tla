--------------------------- MODULE LogisimDrawing ----------------------------
(***************************************************************************)
(* What a sheet means as it is drawn, without joining anything, and what   *)
(* the documents that LogisimImport makes of it owe to the drawing.        *)
(***************************************************************************)
EXTENDS LogisimImport

(***************************************************************************)
(* The sheet as it is drawn.  A port is <<component, place>>, and carries  *)
(* a signal onto the sheet or takes one from it.                           *)
(***************************************************************************)
DrawnPorts == UNION {{<<i, j>> : j \in DOMAIN PortPoints(Circuit.comps[i])} :
                     i \in DOMAIN Circuit.comps}
PointOf(port) == PortPoints(Circuit.comps[port[1]])[port[2]]
Drives(port) ==
  LET comp == Circuit.comps[port[1]]
  IN  IF IsPin(comp) THEN ~IsOutputPin(comp) ELSE port[2] = Len(PortPoints(comp))

\* All the points that a wire goes through.
Span(wire) ==
  IF wire.from[1] # wire.to[1] /\ wire.from[2] # wire.to[2]
  THEN {wire.from, wire.to}
  ELSE LET Along(i) == Min({wire.from[i], wire.to[i]})..Max({wire.from[i], wire.to[i]})
       IN  Along(1) \X Along(2)

\* Wires that cross have nothing in common unless a port or the end of a wire is
\* where they do.
Marked == SheetPoints(Circuit)

RECURSIVE Reached(_)
Reached(points) ==
  LET more == points \cup UNION {Span(wire) \cap Marked :
                                   wire \in {w \in ToSet(Circuit.wires) :
                                               Span(w) \cap points # {}}}
  IN  IF more = points THEN points ELSE Reached(more)

DriversOf(port) ==
  LET points == Reached({PointOf(port)})
  IN  {d \in DrawnPorts : Drives(d) /\ PointOf(d) \in points}

Readers == {port \in DrawnPorts : ~Drives(port)}

\* Fed by what it feeds.
DrawnCycle ==
  \E gates \in SUBSET {i \in DOMAIN Circuit.comps : IsGate(Circuit.comps[i])} :
    /\ gates # {}
    /\ \A g \in gates : \E port \in Readers :
         port[1] = g /\ \E d \in DriversOf(port) : d[1] \in gates

DrawnTwice    == \E d \in DrawnPorts : Drives(d) /\ DriversOf(d) # {d}
DrawnFloating == \E port \in Readers : DriversOf(port) = {}

\* What a gate of Logisim makes of its inputs.
Function(kind, values) ==
  LET ones == {i \in DOMAIN values : values[i]}
  IN  CASE kind = "AND Gate"  -> ones = DOMAIN values
        [] kind = "OR Gate"   -> ones # {}
        [] kind = "XOR Gate"  -> Cardinality(ones) % 2 = 1
        [] kind = "NAND Gate" -> ones # DOMAIN values
        [] kind = "NOR Gate"  -> ones = {}
        [] kind = "XNOR Gate" -> Cardinality(ones) % 2 = 0
        [] kind = "NOT Gate"  -> ones = {}
        [] kind = "Buffer"    -> ones # {}

\* The value that a driver of the sheet has, when the input pins have the given
\* ones; pins are told by their place among the input pins.
RECURSIVE Drawn(_, _)
Drawn(driver, given) ==
  LET comp == Circuit.comps[driver[1]]
      From(port) == CHOOSE d \in DriversOf(port) : TRUE
  IN  IF IsPin(comp)
      THEN given[Cardinality({i \in 1..driver[1] : /\ IsPin(Circuit.comps[i])
                                                   /\ ~IsOutputPin(Circuit.comps[i])})]
      ELSE Function(comp.name,
                    [j \in 1..Len(PortPoints(comp)) - 1 |->
                       Drawn(From(<<driver[1], j>>), given)])

\* The value of a net of the document, by the operators of Verilog.
RECURSIVE Computed(_, _, _)
Computed(doc, net, given) ==
  LET end == CHOOSE e \in Drivers(doc, NetOf(doc, net)) : TRUE
      c   == doc.components[end.at[2]]
      Read(port) == Computed(doc, c.connections[port].net, given)
  IN  IF end.at[1] = "port" THEN given[end.at[2]]
      ELSE CASE c.type = "AND"    -> Read("A") /\ Read("B")
             [] c.type = "OR"     -> Read("A") \/ Read("B")
             [] c.type = "XOR"    -> Read("A") # Read("B")
             [] c.type = "NAND"   -> ~(Read("A") /\ Read("B"))
             [] c.type = "NOR"    -> ~(Read("A") \/ Read("B"))
             [] c.type = "XNOR"   -> Read("A") = Read("B")
             [] c.type = "NOT"    -> ~Read("A")
             [] c.type = "BUFFER" -> Read("A")

-----------------------------------------------------------------------------
(***************************************************************************)
(* Properties.                                                             *)
(***************************************************************************)
\* "A mis-resolved wire shows up as an undriven-net error from the kernel rather
\* than as wrong Verilog" (docs/profiles.md:213): what the kernel finds wrong with
\* a document is what is wrong with the drawing, two drivers that meet, something
\* that is read and has none, and gates that feed themselves, and nothing else but
\* names and limits.
KernelSeesTheDrawing ==
  \A doc \in ToSet(sheetDocument) :
    LET report == Report(doc) \ Warnings
    IN  Preflight(doc) = {} =>
          /\ "NET_MULTIPLE_DRIVERS" \in report <=> DrawnTwice
          /\ "NET_NO_DRIVER" \in report <=> DrawnFloating
          /\ "GRAPH_COMBINATIONAL_CYCLE" \in report => DrawnCycle
          /\ DrawnCycle /\ ~DrawnTwice => "GRAPH_COMBINATIONAL_CYCLE" \in report
          /\ report \subseteq {"NET_MULTIPLE_DRIVERS", "NET_NO_DRIVER",
                               "GRAPH_COMBINATIONAL_CYCLE", "NAME_INVALID",
                               "LIMIT_STRING_LENGTH"}

\* A document that the kernel accepts computes at every output what the drawing
\* does, for all values of the inputs: the points are joined as the wires are
\* drawn, ports are where the geometry has them, and a gate of many inputs is what
\* Logisim means by it.
DocumentComputesDrawing ==
  \A doc \in ToSet(sheetDocument) :
    ~HasErrors(Report(doc)) =>
      LET inputs  == Cardinality({i \in DOMAIN doc.ports : doc.ports[i].dir = "input"})
          outputs == SelectSeq([i \in DOMAIN Circuit.comps |-> i],
                               LAMBDA i : IsOutputPin(Circuit.comps[i]))
      IN  \A given \in [1..inputs -> BOOLEAN] : \A j \in DOMAIN outputs :
            Computed(doc, doc.ports[inputs + j].net, given)
              = Drawn(CHOOSE d \in DriversOf(<<outputs[j], 1>>) : TRUE, given)

\* "Elaboration treats any wire endpoint that fails to land on a port as an error
\* rather than dropping it" (logisim/geometry.rs:9): in what is converted, every
\* end of a wire is at a port or on another wire.
EveryWireEndLands ==
  sheetDocument # <<>> =>
    \A i \in DOMAIN Circuit.wires :
      \A p \in {Circuit.wires[i].from, Circuit.wires[i].to} :
        \/ \E port \in DrawnPorts : PointOf(port) = p
        \/ \E j \in DOMAIN Circuit.wires \ {i} : p \in Span(Circuit.wires[j])
=============================================================================
