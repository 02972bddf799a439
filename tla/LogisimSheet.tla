---------------------------- MODULE LogisimSheet -----------------------------
(***************************************************************************)
(* A Logisim sheet as the profile reads it (crates/jsonrtl-profiles/src/   *)
(* logisim: model.rs, geometry.rs and the checks of elaborate.rs): where   *)
(* the ports of the components are, and which sheets are refused.          *)
(*                                                                         *)
(* A point is <<x, y>>, y growing downwards.  A component is a record of   *)
(* lib (whether it has a library), name, loc and attrs, a function from    *)
(* the names of its attributes; an integer attribute that is no number is  *)
(* given as 0, which is refused as well and with the same kind of error.   *)
(* A wire is [from, to].                                                   *)
(***************************************************************************)
EXTENDS Profiles

CONSTANT
  SheetLimits  \* [bytes, circuits, components, wires, coordinate, inputs,
               \*  size, ports, checks]: the MAX_ constants of the profile

ASSUME LogisimSheetAssumption ==
  /\ {"bytes", "circuits", "components", "wires", "coordinate", "inputs",
      "size", "ports", "checks"} \subseteq DOMAIN SheetLimits
  /\ \A key \in DOMAIN SheetLimits : SheetLimits[key] \in Nat

Attr(comp, key, default) ==
  IF key \in DOMAIN comp.attrs THEN comp.attrs[key] ELSE default

Facings == {"east", "west", "north", "south"}

\* GateKind, by the name of the component.
WideGates  == {"AND Gate", "OR Gate", "XOR Gate", "NAND Gate", "NOR Gate", "XNOR Gate"}
UnaryGates == {"NOT Gate", "Buffer"}

IsPin(comp)       == comp.name = "Pin"
IsOutputPin(comp) == IsPin(comp) /\ Attr(comp, "output", "") = "true"
IsGate(comp)      == comp.name \in WideGates \cup UnaryGates

-----------------------------------------------------------------------------
(***************************************************************************)
(* geometry.rs.                                                            *)
(***************************************************************************)
\* Facing::behind: back from the output, towards the inputs.
Behind(facing, p, distance) ==
  CASE facing = "east"  -> <<p[1] - distance, p[2]>>
    [] facing = "west"  -> <<p[1] + distance, p[2]>>
    [] facing = "south" -> <<p[1], p[2] - distance>>
    [] facing = "north" -> <<p[1], p[2] + distance>>

\* Facing::across
Across(facing, p, offset) ==
  IF facing \in {"east", "west"} THEN <<p[1], p[2] + offset>>
  ELSE <<p[1] + offset, p[2]>>

\* input_offsets: ten apart and centred; an even number of inputs skips the
\* place on the axis.
Offsets(n) ==
  [i \in 1..n |-> LET half == 2 * i - n - 1
                  IN  IF half % 2 = 0 THEN 5 * half
                      ELSE IF half > 0 THEN 5 * half + 5 ELSE 5 * half - 5]

InputCount(comp) == IF comp.name \in UnaryGates THEN 1 ELSE Attr(comp, "inputs", 2)

\* gate_ports, unary_ports
InputPoints(comp) ==
  LET facing == Attr(comp, "facing", "east")
      edge   == Behind(facing, comp.loc, Attr(comp, "size", 30))
  IN  IF comp.name \in UnaryGates THEN <<edge>>
      ELSE [i \in 1..InputCount(comp) |->
              Across(facing, edge, Offsets(InputCount(comp))[i])]

\* The ports of a component, the last of which is where a gate or a pin is: a
\* gate's inputs come before its output.
PortPoints(comp) ==
  IF IsPin(comp) THEN <<comp.loc>> ELSE Append(InputPoints(comp), comp.loc)

-----------------------------------------------------------------------------
(***************************************************************************)
(* What is refused.                                                        *)
(***************************************************************************)
TooFar(p) ==
  \E i \in 1..2 : p[i] > SheetLimits.coordinate \/ p[i] < -SheetLimits.coordinate

\* Comp::validate_geometry
GeometryChecks(comp) ==
  <<<<TooFar(comp.loc), "limit">>,
    <<Attr(comp, "inputs", 1) < 1, "parse">>,
    <<Attr(comp, "inputs", 1) > SheetLimits.inputs, "limit">>,
    <<Attr(comp, "size", 1) < 1, "parse">>,
    <<Attr(comp, "size", 1) > SheetLimits.size, "limit">>,
    <<Attr(comp, "width", 1) < 1, "parse">>,
    <<Attr(comp, "facing", "east") \notin Facings, "parse">>>>

\* check_single_bit, and classify with the refusal of subcircuits.
KindChecks(comp) ==
  <<<<Attr(comp, "width", 1) # 1, "unsupported">>,
    <<~comp.lib \/ ~(IsPin(comp) \/ IsGate(comp)), "unsupported">>>>

\* Components that were checked have so many ports.
PortCount(comp) == IF IsPin(comp) THEN 1 ELSE InputCount(comp) + 1

Ports(circuit, n) ==
  FoldLeft(LAMBDA sum, comp : sum + PortCount(comp), 0, SubSeq(circuit.comps, 1, n))

\* elaborate, as far as the refusal of a component: the ports are counted as the
\* components are looked at.
ComponentOutcome(circuit, i) ==
  LET own == FirstFailure(GeometryChecks(circuit.comps[i]) \o KindChecks(circuit.comps[i]))
  IN  IF own # "ok" THEN own
      ELSE IF Ports(circuit, i) > SheetLimits.ports THEN "limit" ELSE "ok"

\* The first component that is refused is the last that is looked at.
ComponentsOutcome(circuit) ==
  LET refused == {i \in DOMAIN circuit.comps :
                    \A j \in 1..i - 1 : ComponentOutcome(circuit, j) = "ok"}
      last    == CHOOSE i \in refused : \A j \in refused : j <= i
  IN  IF circuit.comps = <<>> THEN "ok" ELSE ComponentOutcome(circuit, last)

CircuitOutcome(circuit) ==
  IF \/ Len(circuit.comps) > SheetLimits.components
     \/ Len(circuit.wires) > SheetLimits.wires
     \/ \E wire \in ToSet(circuit.wires) : TooFar(wire.from) \/ TooFar(wire.to)
  THEN "limit"
  ELSE IF ComponentsOutcome(circuit) # "ok" THEN ComponentsOutcome(circuit)
  ELSE IF Len(circuit.wires)
            * (Ports(circuit, Len(circuit.comps)) + 2 * Len(circuit.wires))
            > SheetLimits.checks
  THEN "limit" ELSE "ok"

-----------------------------------------------------------------------------
(***************************************************************************)
(* The file (load_project, parse_project).  It has the outcome of opening  *)
(* it, its size, that of the XML parser, the name of its root, and its     *)
(* circuits; a circuit is "nameless", has a "broken" component or wire     *)
(* (one whose coordinates are missing or are none), or is "good".          *)
(***************************************************************************)
Total(circuits, field) ==
  FoldLeft(LAMBDA sum, circuit : sum + Len(circuit[field]), 0, circuits)

CircuitError(circuits, i) ==
  FirstFailure(<<<<circuits[i].state # "good", "parse">>,
                 <<\E j \in 1..i - 1 : circuits[j].name = circuits[i].name,
                   "structure">>>>)

\* The counts are taken of the whole project before anything is copied.
FileOutcome(file) ==
  LET circuits == file.circuits
      errors   == SelectSeq([i \in DOMAIN circuits |-> CircuitError(circuits, i)],
                            LAMBDA error : error # "ok")
  IN  FirstFailure(
        <<<<file.opened # "ok", "io">>,
          <<file.size > SheetLimits.bytes, "limit">>,
          <<file.text = "binary", "io">>,
          <<file.text = "nodes", "limit">>,
          <<file.text = "malformed" \/ file.root # "project", "parse">>,
          <<\/ Len(circuits) > SheetLimits.circuits
            \/ Total(circuits, "comps") > SheetLimits.components
            \/ Total(circuits, "wires") > SheetLimits.wires, "limit">>,
          <<errors # <<>>, IF errors = <<>> THEN "ok" ELSE errors[1]>>>>)

CircuitNames(file) == [i \in DOMAIN file.circuits |-> file.circuits[i].name]
CircuitNamed(file, name) ==
  CHOOSE circuit \in ToSet(file.circuits) : circuit.name = name
=============================================================================
