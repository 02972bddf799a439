---------------------------- MODULE YosysNetlist -----------------------------
(***************************************************************************)
(* A netlist that Yosys wrote, as the DLS exporter reads and checks it     *)
(* (crates/jsonrtl-profiles/src/dls/export.rs: parse_design, validate_     *)
(* bits, validate_attributes, validate_module, validate_source_states).    *)
(*                                                                         *)
(* A bit is <<"wire", number>> or <<"const", state>>.  A port is a record  *)
(* of name, direction, bits, offset and upto, a netname of bits and        *)
(* attributes, and a cell of                                               *)
(*   name, attributes,                                                     *)
(*   kind        [form, positive, reset]: form is "nand", "not", "dff",    *)
(*               "latch" or "other"; reset is <<>> or <<whether it is      *)
(*               active high, the value it gives>>                         *)
(*   parameters  a set; "unknown" is a value with x or z in it             *)
(*   connections from pins to sequences of bits                            *)
(*   directions  from pins to directions.                                  *)
(* Of attributes only "init" and an enabled "blackbox" or "whitebox" are   *)
(* told.  Ports, nets, cells and modules are in the order of their names.  *)
(***************************************************************************)
EXTENDS Profiles

CONSTANT
  ExportLimits  \* [json, cells, portBits, offset, name, parts, project]: the
                \* MAX_ constants; `offset` is the largest i64

ASSUME YosysNetlistAssumption ==
  /\ {"json", "cells", "portBits", "offset", "name", "parts", "project"}
       \subseteq DOMAIN ExportLimits
  /\ \A key \in DOMAIN ExportLimits : ExportLimits[key] \in Nat

IsWire(bit) == bit[1] = "wire"

-----------------------------------------------------------------------------
(***************************************************************************)
(* Logic.                                                                  *)
(***************************************************************************)
\* Logic::inputs, output and sequential.
InputsOf(kind) ==
  CASE kind.form = "nand"  -> <<"A", "B">>
    [] kind.form = "not"   -> <<"A">>
    [] kind.form = "latch" -> <<"D", "E">>
    [] kind.reset = <<>>   -> <<"D", "C">>
    [] OTHER               -> <<"D", "C", "R">>

IsSequential(kind) == kind.form \in {"dff", "latch"}
OutputOf(kind)     == IF IsSequential(kind) THEN "Q" ELSE "Y"

InputBit(cell, pin) == cell.connections[pin][1]
OutputBit(cell)     == cell.connections[OutputOf(cell.kind)][1]
InputBitsOf(cell)   == {InputBit(cell, pin) : pin \in ToSet(InputsOf(cell.kind))}

-----------------------------------------------------------------------------
\* validate_bits
BitsOutcome(bits) ==
  FirstFailure([i \in DOMAIN bits |->
    IF IsWire(bits[i]) THEN <<bits[i][2] < 2, "structure">>
    ELSE <<bits[i][2] \notin {"0", "1"}, "unsupported">>])

\* validate_attributes
AttributesOutcome(attributes) ==
  IF attributes = {} THEN "ok" ELSE "unsupported"

\* The inputs up to one drive their bits.
InputPortBits(module, i) ==
  UNION {ToSet(module.ports[j].bits) :
         j \in {k \in 1..i : module.ports[k].direction = "input"}}

PortOutcome(module, i) ==
  LET port == module.ports[i]
      size == Len(port.bits)
      fits == FirstFailure(
        <<<<size = 0, "structure">>,
          <<size > ExportLimits.portBits, "limit">>,
          <<port.upto > 1 \/ port.offset + size > ExportLimits.offset, "structure">>>>)
      drives ==
        /\ \A j \in 1..size : IsWire(port.bits[j])
        /\ Cardinality(ToSet(port.bits)) = size
        /\ ToSet(port.bits) \cap InputPortBits(module, i - 1) = {}
  IN  Then(fits, Then(BitsOutcome(port.bits),
        CASE port.direction = "input"  -> IF drives THEN "ok" ELSE "structure"
          [] port.direction = "output" -> "ok"
          [] OTHER                     -> "unsupported"))

NetOutcome(net) == Then(AttributesOutcome(net.attributes), BitsOutcome(net.bits))

\* One pin of a cell, which has a connection and a direction.
PinOutcome(cell, pin, direction) ==
  IF pin \notin DOMAIN cell.connections THEN "structure"
  ELSE Then(IF Len(cell.connections[pin]) = 1 /\ pin \in DOMAIN cell.directions
               /\ cell.directions[pin] = direction
            THEN "ok" ELSE "structure",
            BitsOutcome(cell.connections[pin]))

\* Fault: what the ports drive is forgotten once the cells are looked at.
DrivenByCells(module, i) == {OutputBit(module.cells[j]) : j \in 1..i}

\* The bits that the inputs and the cells up to one drive.
DrivenBits(module, i) ==
  InputPortBits(module, Len(module.ports)) \cup {OutputBit(module.cells[j]) : j \in 1..i}

CellOutcome(module, i) ==
  LET cell  == module.cells[i]
      pins  == InputsOf(cell.kind)
      shape == FirstFailure(
        <<<<cell.kind.form = "other", "unsupported">>,
          <<cell.parameters # {}, "unsupported">>,
          <<\/ Cardinality(DOMAIN cell.connections) # Len(pins) + 1
            \/ Cardinality(DOMAIN cell.directions) # Len(pins) + 1, "structure">>>>)
      each == FirstError(
        Append([j \in DOMAIN pins |-> PinOutcome(cell, pins[j], "input")],
               PinOutcome(cell, OutputOf(cell.kind), "output")))
      drives == IsWire(OutputBit(cell)) /\ OutputBit(cell) \notin DrivenBits(module, i - 1)
  IN  Then(AttributesOutcome(cell.attributes),
        Then(shape, Then(each, IF drives THEN "ok" ELSE "structure")))

\* Cells are checked in order, and a cell after one that fails is not looked at.
CellsUpTo(module) ==
  LET upTo[n \in 0..Len(module.cells)] ==
        IF n = 0 THEN "ok" ELSE Then(upTo[n - 1], CellOutcome(module, n))
  IN  upTo

CellsOutcome(module) == CellsUpTo(module)[Len(module.cells)]

\* Bits that are read: by cells, and at the outputs.
ReadBits(module) ==
  (UNION {InputBitsOf(cell) : cell \in ToSet(module.cells)})
    \cup (UNION {ToSet(port.bits) :
                 port \in {p \in ToSet(module.ports) : p.direction = "output"}})

\* The combinational cells that a combinational cell waits for.
Dependencies(module, i) ==
  {j \in DOMAIN module.cells :
     /\ ~IsSequential(module.cells[j].kind)
     /\ OutputBit(module.cells[j]) \in InputBitsOf(module.cells[i])}

\* The queue of cells that are ready.  A round takes all of them, so that there are
\* no more rounds than cells; what is left when none is ready has a cycle.
StillWaiting(module, cells) ==
  {i \in cells : Dependencies(module, i) \cap cells # {}}

LeftAfter(module, gates) ==
  LET left[n \in 0..Len(module.cells)] ==
        IF n = 0 THEN gates ELSE StillWaiting(module, left[n - 1])
  IN  left

NeverReady(module, gates) == LeftAfter(module, gates)[Len(module.cells)]

GraphOutcome(module) ==
  LET undriven == {bit \in ReadBits(module) : IsWire(bit)}
                    \ DrivenBits(module, Len(module.cells))
      gates == {i \in DOMAIN module.cells : ~IsSequential(module.cells[i].kind)}
  IN  IF undriven = {} /\ NeverReady(module, gates) = {} THEN "ok" ELSE "structure"

\* validate_module
ModuleOutcome(module) ==
  LET own == FirstFailure(
        <<<<AttributesOutcome(module.attributes) # "ok", "unsupported">>,
          <<module.memories # {}, "unsupported">>,
          <<Len(module.cells) > ExportLimits.cells, "limit">>>>)
  IN  Then(own,
        Then(FirstError([i \in DOMAIN module.ports |-> PortOutcome(module, i)]),
          Then(FirstError([i \in DOMAIN module.nets |-> NetOutcome(module.nets[i])]),
            Then(CellsOutcome(module), GraphOutcome(module)))))

-----------------------------------------------------------------------------
(***************************************************************************)
(* A text is a record of bytes, wellFormed (whether it is JSON of the      *)
(* right shape without a duplicate key) and modules, which is a sequence   *)
(* of [name, module].                                                      *)
(***************************************************************************)
\* parse_design
ParseOutcome(text) ==
  FirstFailure(<<<<text.bytes > ExportLimits.json, "limit">>,
                 <<~text.wellFormed, "parse">>>>)

ModulesNamed(text, top) == {m.module : m \in {n \in ToSet(text.modules) : n.name = top}}

\* One module of the elaborated source.
SourceModuleOutcome(module) ==
  LET port(p) == Then(IF p.direction = "inout" THEN "unsupported" ELSE "ok",
                      BitsOutcome(p.bits))
      pins(c) == {pin \in DOMAIN c.connections : BitsOutcome(c.connections[pin]) # "ok"}
      cell(c) == Then(AttributesOutcome(c.attributes),
                   IF pins(c) # {} THEN BitsOutcome(c.connections[CHOOSE pin \in pins(c) : TRUE])
                   ELSE IF "unknown" \in c.parameters THEN "unsupported" ELSE "ok")
  IN  Then(AttributesOutcome(module.attributes),
        Then(FirstError([i \in DOMAIN module.ports |-> port(module.ports[i])]),
          Then(FirstError([i \in DOMAIN module.nets |-> NetOutcome(module.nets[i])]),
            FirstError([i \in DOMAIN module.cells |-> cell(module.cells[i])]))))

\* validate_source_states
SourceOutcome(text, top) ==
  Then(ParseOutcome(text),
    IF ModulesNamed(text, top) = {} THEN "unknown"
    ELSE FirstError([i \in DOMAIN text.modules |->
                       SourceModuleOutcome(text.modules[i].module)]))
=============================================================================
