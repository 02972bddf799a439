---------------------------- MODULE NetlistExport -----------------------------
(***************************************************************************)
(* A design is checked and exported, as the command does it                *)
(* (crates/jsonrtl-cli/src/export.rs): the elaborated source first, before *)
(* anything of it is optimised away, then the netlist.                     *)
(***************************************************************************)
EXTENDS DlsExport

CONSTANT
  Designs  \* a set of [source, netlist, top, clock]: two texts, the name
           \* of the top module, and <<>> or <<the clock of the wrapper>>

\* What the parser makes of a text (dls/export.rs: Design, Module and what they are
\* made of): wires and upto are unsigned, and no name is given twice.
IsBits(bits) ==
  bits \in Seq(ToSet(bits)) /\ \A bit \in ToSet(bits) : IsWire(bit) => bit[2] \in Nat

IsModule(module) ==
  /\ module.ports \in Seq(ToSet(module.ports))
  /\ \A port \in ToSet(module.ports) :
       IsBits(port.bits) /\ port.upto \in Nat /\ port.offset \in Int
  /\ module.nets \in Seq(ToSet(module.nets))
  /\ \A net \in ToSet(module.nets) : IsBits(net.bits)
  /\ module.cells \in Seq(ToSet(module.cells))
  /\ \A cell \in ToSet(module.cells) :
       /\ cell.kind.form \in {"nand", "not", "dff", "latch", "other"}
       /\ IsFiniteSet(DOMAIN cell.connections) /\ IsFiniteSet(DOMAIN cell.directions)
       /\ \A pin \in DOMAIN cell.connections : IsBits(cell.connections[pin])

ASSUME NetlistExportAssumption ==
  \A d \in Designs : \A text \in {d.source, d.netlist} :
    /\ text.modules \in Seq(ToSet(text.modules))
    /\ \A m \in ToSet(text.modules) : IsModule(m.module)
    /\ \A m, n \in ToSet(text.modules) : m.name = n.name => m = n

VARIABLES
  design,   \* one of the designs
  stage,    \* "source", "netlist", "exported" or "refused"
  project   \* <<>>, or what the exporter has returned

exportVars == <<design, stage, project>>

Module == CHOOSE m \in ModulesNamed(design.netlist, design.top) : TRUE

ExportInit ==
  design \in Designs /\ stage = "source" /\ project = <<>>

\* validate_source_states
CheckSource ==
  /\ stage = "source"
  /\ LET how == SourceOutcome(design.source, design.top)
     IN  stage' = IF how = "ok" THEN "netlist" ELSE "refused"
  /\ UNCHANGED <<design, project>>

\* from_yosys_json
Export ==
  /\ stage = "netlist"
  /\ project' = Exported(design.netlist, design.top, design.clock)
  /\ stage' = IF project'.outcome = "ok" THEN "exported" ELSE "refused"
  /\ UNCHANGED design

ExportNext == CheckSource \/ Export

ExportSpec == ExportInit /\ [][ExportNext]_exportVars

-----------------------------------------------------------------------------
(***************************************************************************)
(* The chips of a project, one with another.  The pins of a sub-chip are   *)
(* <<its pin, width>>.                                                     *)
(***************************************************************************)
SinksOf(book, name) ==
  CASE name.form = "nand"  -> {<<0, 1>>, <<1, 1>>}
    [] name.form = "clock" -> {}
    [] name.form = "converter" ->
         IF name.from > 1 THEN {<<0, name.from>>} ELSE {<<p, 1>> : p \in 0..name.to - 1}
    [] OTHER -> {<<pin.id, pin.width>> : pin \in ToSet(book[name.text].inputs)}

SourcesOf(book, name) ==
  CASE name.form = "nand"  -> {<<2, 1>>}
    [] name.form = "clock" -> {<<0, 1>>}
    [] name.form = "converter" ->
         IF name.from > 1 THEN {<<p, 1>> : p \in 1..name.from} ELSE {<<name.to, name.to>>}
    [] OTHER -> {<<pin.id, pin.width>> : pin \in ToSet(book[name.text].outputs)}

\* The ends of wires in a chip: <<address, width>>.
WireSources(book, chip) ==
  {<<At(pin.id, 0), pin.width>> : pin \in ToSet(chip.inputs)}
    \cup UNION {{<<At(sub.id, p[1]), p[2]>> : p \in SourcesOf(book, sub.name)} :
                sub \in ToSet(chip.subs)}
WireSinks(book, chip) ==
  {<<At(pin.id, 0), pin.width>> : pin \in ToSet(chip.outputs)}
    \cup UNION {{<<At(sub.id, p[1]), p[2]>> : p \in SinksOf(book, sub.name)} :
                sub \in ToSet(chip.subs)}

\* Each sink has one wire, from a source of its width; the gate that makes the
\* constant one has none.
WiredWell(book, name) ==
  LET chip    == book[name]
      sources == WireSources(book, chip)
      sinks   == WireSinks(book, chip)
      floats(sink) == name = ConstantName("1") /\ sink[1].owner = 2
  IN  /\ \A sink \in sinks :
           Cardinality({k \in DOMAIN chip.wires : chip.wires[k].to = sink[1]})
             = IF floats(sink) THEN 0 ELSE 1
      /\ \A wire \in ToSet(chip.wires) :
           \E sink \in sinks : sink[1] = wire.to /\ <<wire.from, sink[2]>> \in sources

WholeBook(book, top, clock) ==
  /\ \A name \in DOMAIN book :
       /\ IsSafeUnitName(name) /\ name \notin Reserved
       /\ \A sub \in ToSet(book[name].subs) :
            sub.name.form = "chip" => sub.name.text \in DOMAIN book
       /\ LET parts == PinsOf(book[name]) \o book[name].subs
          IN  \A j, k \in DOMAIN parts : parts[j].id = parts[k].id => j = k
       /\ WiredWell(book, name)
  /\ clock # <<>> =>
       {<<"JSONRTL_">>} \cap {SubSeq(sub.name.text, 1, 1) :
          sub \in {s \in ToSet(book[top].subs) : s.name.form = "chip"}} = {}

\* What is exported is a whole project that DLS can open: names that a file can
\* have and nothing else bears, chips that are all there, ids that are unique
\* and wires between pins that exist, in the right direction, of one width,
\* with one wire for every pin that reads.
ProjectIsWhole ==
  stage = "exported" => WholeBook(project.book, project.top, design.clock)

(***************************************************************************)
(* What can be exported.                                                   *)
(***************************************************************************)
\* The bits of the cells and the ports that count, and those that are only named.
Bits(module) ==
  ReadBits(module) \cup DrivenBits(module, Len(module.cells))
NamedBits(module) ==
  UNION {ToSet(named.bits) : named \in ToSet(module.ports) \cup ToSet(module.nets)}

DefinedBit(bit) == IF IsWire(bit) THEN bit[2] >= 2 ELSE bit[2] \in {"0", "1"}

\* Everything that drives a bit, by its place.
DriversOf(module, bit) ==
  (UNION {{<<"port", p, k>> : k \in {j \in DOMAIN module.ports[p].bits :
                                      module.ports[p].bits[j] = bit}} :
          p \in {q \in DOMAIN module.ports : module.ports[q].direction = "input"}})
  \cup {<<"cell", c, 1>> : c \in {d \in DOMAIN module.cells :
                                   OutputBit(module.cells[d]) = bit}}

\* Cells of which each waits for another of them.
Deadlocked(module, cells) ==
  \A c \in cells :
    /\ module.cells[c].kind.form \in {"nand", "not"}
    /\ \E d \in cells : OutputBit(module.cells[d]) \in InputBitsOf(module.cells[c])

Shaped(module) ==
  /\ \A port \in ToSet(module.ports) :
       /\ Len(port.bits) \in 1..ExportLimits.portBits /\ port.upto \in 0..1
       /\ port.offset + Len(port.bits) <= ExportLimits.offset
  /\ \A cell \in ToSet(module.cells) :
       LET pins == ToSet(InputsOf(cell.kind)) \cup {OutputOf(cell.kind)} IN
       /\ DOMAIN cell.connections = pins /\ DOMAIN cell.directions = pins
       /\ \A pin \in pins :
            /\ Len(cell.connections[pin]) = 1
            /\ cell.directions[pin] = IF pin = OutputOf(cell.kind) THEN "output" ELSE "input"

\* A wire has one driver, a constant none.
DrivenWell(module, bit) ==
  IF IsWire(bit) THEN \E d \in DriversOf(module, bit) : DriversOf(module, bit) = {d}
  ELSE DriversOf(module, bit) = {}

Sound(module) ==
  /\ Shaped(module)
  /\ \A bit \in Bits(module) \cup NamedBits(module) : DefinedBit(bit)
  /\ \A bit \in Bits(module) : DrivenWell(module, bit)
  /\ \A cells \in SUBSET DOMAIN module.cells :
       Deadlocked(module, cells) => cells = {}

WhollyDefined(module) ==
  /\ module.attributes = {}
  /\ \A net \in ToSet(module.nets) :
       net.attributes = {} /\ \A bit \in ToSet(net.bits) : DefinedBit(bit)
  /\ \A cell \in ToSet(module.cells) :
       /\ cell.attributes = {} /\ "unknown" \notin cell.parameters
       /\ \A pin \in DOMAIN cell.connections :
            \A bit \in ToSet(cell.connections[pin]) : DefinedBit(bit)

\* A netlist of plain cells is exported exactly when all that is read has one
\* driver and no combinational cells wait for one another; and no module of its
\* source had anything undefined, which optimising may have replaced by a choice
\* of its own.
SoundIsExported ==
  stage \in {"exported", "refused"} /\ project # <<>> =>
    /\ \A m \in ToSet(design.source.modules) : WhollyDefined(m.module)
    /\ project.outcome \in {"ok", "structure"} =>
         (project.outcome = "ok" <=> Sound(Module))
=============================================================================
