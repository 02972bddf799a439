--------------------------- MODULE ExportedDesign ----------------------------
(***************************************************************************)
(* What an exported design does: after it has been exported, as in         *)
(* NetlistExport, it is opened and its inputs are driven.                  *)
(*                                                                         *)
(* The gates are run by Digital-Logic-Sim, which is not part of the        *)
(* repository (scripts/dls-verification/README.md: traversal ordering,     *)
(* latch feedback, random race ordering).  In a step it visits the         *)
(* sub-chips of the top chip, one after another, and within each the       *)
(* sub-chips of that one: a sub-chip whose feeders have been visited is    *)
(* next, and where there is none, as in a latch, any.                      *)
(***************************************************************************)
EXTENDS NetlistExport, DlsHierarchy

VARIABLES
  network,  \* <<>>, or the gates of the project: what drives each of them and
            \* each output, and how a step visits them
  level,    \* the level of each gate
  given,    \* the level of each bit of the netlist that is an input
  settled   \* what each bit of the netlist should be, when all is stable

simulated == <<network, level, given, settled>>
vars == <<exportVars, simulated>>

\* A level that nothing tells.
Unknown == 2

-----------------------------------------------------------------------------
(***************************************************************************)
(* The gates of a project, found in its chips.                             *)
(***************************************************************************)
\* The bit of the netlist that bit b of a pin stands for, by the label of the
\* pin: the name of the port, of a range of it, or of one index.
LabelledBit(module, pin, b) ==
  LET port  == CHOOSE p \in ToSet(module.ports) : p.name = pin.name[1]
      step  == IF port.upto = 0 THEN 1 ELSE -1
      first == port.offset + (IF port.upto = 0 THEN 0 ELSE Len(port.bits) - 1)
      index == IF Len(pin.name) = 1 THEN first + b * step
               ELSE pin.name[Len(pin.name)] + b * step
  IN  port.bits[(index - first) * step + 1]

\* The pins of the top chip, and the clock of a wrapper, by their bits.
PinBits(pins, module) ==
  UNION {{<<<<<<>>, pin.id, b>>, LabelledBit(module, pin, b)>> : b \in 0..pin.width - 1} :
         pin \in ToSet(pins)}
InputPins(book, top, module, clock) ==
  PinBits(book[top].inputs, module)
    \cup {<<<<at, 0, 0>>, port.bits[1]>> :
            at \in Leaves(book, top, "clock"),
            port \in {p \in ToSet(module.ports) : clock = <<p.name>>}}

\* What drives a bit: gates, inputs, or nothing.
DriverOf(joins, ends, inputs, bit) ==
  {IF \E p \in inputs : p[1] = end
   THEN <<"bit", (CHOOSE p \in inputs : p[1] = end)[2]>>
   ELSE <<"gate", end[1]>> : end \in Spread(joins, {bit}) \cap ends}

\* The sub-chips that feed a sub-chip.
Feeders(chip, id) ==
  {w.from.owner : w \in {v \in ToSet(chip.wires) : v.to.owner = id}}
    \cap {sub.id : sub \in {s \in ToSet(chip.subs) : s.id # id}}

\* A visit of an instance is <<"gate", path>> or <<"chip", plans>>, and a plan is
\* a sequence of visits of the sub-chips, each once.  Of the sub-chips that are
\* ready one is as good as another.
RECURSIVE Visit(_, _, _), Plans(_, _, _, _)
Visit(book, path, name) ==
  IF IsChipOf(book, name)
  THEN <<"chip", Plans(book, path, book[name.text],
                       {sub.id : sub \in ToSet(book[name.text].subs)})>>
  ELSE IF name.form = "nand" THEN <<"gate", path>> ELSE <<"chip", {<<>>}>>

Plans(book, path, chip, ids) ==
  LET ready == {id \in ids : Feeders(chip, id) \cap ids = {}}
      next  == IF ready = {} THEN ids ELSE {CHOOSE id \in ready : TRUE}
      NameOf(id) == (CHOOSE sub \in ToSet(chip.subs) : sub.id = id).name
  IN  IF ids = {} THEN {<<>>}
      ELSE UNION {{<<Visit(book, Append(path, id), NameOf(id))>> \o rest :
                     rest \in Plans(book, path, chip, ids \ {id})} : id \in next}

NetworkOf(book, top, module, clock) ==
  LET joins  == Joins(book, top)
      ends   == DriverBits(book, top)
      inputs == InputPins(book, top, module, clock)
      Driver(bit) == DriverOf(joins, ends, inputs, bit)
  IN  [gates   |-> [at \in Leaves(book, top, "nand") |->
                      <<Driver(<<at, 0, 0>>), Driver(<<at, 1, 0>>)>>],
       outputs |-> {<<p[2], Driver(p[1])>> : p \in PinBits(book[top].outputs, module)},
       step    |-> Visit(book, <<>>, Named(top))]

-----------------------------------------------------------------------------
(***************************************************************************)
(* What the netlist says: every cell by its truth table, registers by the  *)
(* edge of their clock.  A register takes what its input was before.       *)
(***************************************************************************)
Negated(a)      == IF a = Unknown THEN Unknown ELSE 1 - a
NandOf(a, b)    == IF a = 0 \/ b = 0 THEN 1
                   ELSE IF a = Unknown \/ b = Unknown THEN Unknown ELSE 0
Agreed(a, b)    == IF a = b THEN a ELSE Unknown
Level(high)     == IF high THEN 1 ELSE 0

\* The bits that a bit waits for, when an input changes.
WaitsFor(module, bit) ==
  UNION {LET kind == cell.kind IN
         IF kind.form = "dff" THEN {InputBit(cell, p) : p \in ToSet(InputsOf(kind)) \ {"D"}}
         ELSE InputBitsOf(cell) :
         cell \in {c \in ToSet(module.cells) : OutputBit(c) = bit}}

RECURSIVE Awaited(_, _)
Awaited(module, bits) ==
  LET more == UNION {WaitsFor(module, bit) : bit \in bits}
  IN  IF more \subseteq bits THEN bits ELSE Awaited(module, bits \cup more)

\* Designs in which no register feeds its own clock, and no latch its own data
\* or enable.
HasOrder(module) ==
  \A bit \in Bits(module) : bit \notin Awaited(module, WaitsFor(module, bit))

\* A register, from what it held, its data, and its clock before and now.
Flipped(kind, held, data, before, now) ==
  LET from == Level(~kind.positive)
      to   == Level(kind.positive)
  IN  IF before = now \/ before = to \/ now = from THEN
        IF before = Unknown /\ now = Unknown THEN Agreed(held, data) ELSE held
      ELSE IF before = from /\ now = to THEN data ELSE Agreed(held, data)

Stored(cell, held, before, now) ==
  LET kind == cell.kind
      Now(pin) == now[InputBit(cell, pin)]
      Before(pin) == before[InputBit(cell, pin)]
      clocked == Flipped(kind, held, Before("D"), Before("C"), Now("C"))
  IN  CASE kind.form = "latch" ->
             IF Now("E") = Unknown THEN Agreed(held, Now("D"))
             ELSE IF Now("E") = Level(kind.positive) THEN Now("D") ELSE held
        [] kind.reset = <<>> -> clocked
        [] Now("R") = Unknown -> Agreed(clocked, Level(kind.reset[2]))
        [] Now("R") = Level(kind.reset[1]) -> Level(kind.reset[2])
        [] OTHER -> clocked

\* The levels of all bits, after some inputs have been given: what the cells
\* make of one another until nothing new is known.
RECURSIVE Rest(_, _, _)
Rest(module, before, now) ==
  LET value(cell) ==
        CASE cell.kind.form = "nand" -> NandOf(now[InputBit(cell, "A")], now[InputBit(cell, "B")])
          [] cell.kind.form = "not"  -> Negated(now[InputBit(cell, "A")])
          [] OTHER                   -> Stored(cell, before[OutputBit(cell)], before, now)
      next == [i \in DOMAIN module.cells |-> value(module.cells[i])]
      old  == [i \in DOMAIN module.cells |-> now[OutputBit(module.cells[i])]]
  IN  IF next = old THEN now
      ELSE Rest(module, before,
                [bit \in DOMAIN now |->
                   IF \E i \in DOMAIN next : OutputBit(module.cells[i]) = bit
                   THEN next[CHOOSE i \in DOMAIN next : OutputBit(module.cells[i]) = bit]
                   ELSE now[bit]])

Settled(module, before, inputs) ==
  Rest(module, before,
       [bit \in Bits(module) |->
          IF ~IsWire(bit) THEN Level(bit[2] = "1")
          ELSE IF bit \in DOMAIN inputs THEN inputs[bit] ELSE Unknown])

-----------------------------------------------------------------------------
(***************************************************************************)
(* The behaviour.                                                          *)
(***************************************************************************)
\* What a gate makes of its two pins.  A pin without a driver is low.
Read(levels, driver) ==
  IF \E d \in driver : IF d[1] = "bit" THEN given[d[2]] = 1 ELSE levels[d[2]] = 1
  THEN 1 ELSE 0
Made(levels, at) ==
  NandOf(Read(levels, network.gates[at][1]), Read(levels, network.gates[at][2]))

AllStable ==
  stage = "running" => \A at \in DOMAIN network.gates : level[at] = Made(level, at)

Init ==
  ExportInit /\ network = <<>> /\ level = <<>> /\ given = <<>> /\ settled = <<>>

\* The simulator opens the project, which is a stage more; everything is low in the
\* beginning.
Open ==
  /\ stage = "exported" /\ stage' = "running"
  /\ network' = NetworkOf(project.book, project.top, Module, design.clock)
  /\ level' = [at \in DOMAIN network'.gates |-> 0]
  /\ given' = [bit \in InputPortBits(Module, Len(Module.ports)) |-> 0]
  /\ settled' = IF HasOrder(Module)
                THEN Settled(Module, [bit \in Bits(Module) |-> Unknown], given')
                ELSE <<>>
  /\ UNCHANGED <<design, project>>

\* A design that has an order is one of which the netlist says what it does.
Ordered == stage = "running" /\ settled # <<>>

\* Data settles before the next change (docs/cli.md, Opening the generated
\* project).
Drive ==
  /\ Ordered /\ AllStable
  /\ \E bit \in DOMAIN given :
       /\ given' = [given EXCEPT ![bit] = 1 - @]
       /\ settled' = Settled(Module, settled, given')
  /\ UNCHANGED <<design, stage, project, network, level>>

\* The levels there may be after a visit, and after those of a plan.
RECURSIVE After(_, _), AfterAll(_, _)
After(levels, visit) ==
  IF visit[1] = "gate" THEN {[levels EXCEPT ![visit[2]] = Made(levels, visit[2])]}
  ELSE UNION {AfterAll(levels, plan) : plan \in visit[2]}

AfterAll(levels, plan) ==
  IF plan = <<>> THEN {levels}
  ELSE UNION {AfterAll(next, Tail(plan)) : next \in After(levels, Head(plan))}

\* RunSimulationStep, as long as it changes something.
Simulate ==
  /\ stage = "running"
  /\ level' \in After(level, network.step) \ {level}
  /\ UNCHANGED <<design, stage, project, network, given, settled>>

Next ==
  \/ (CheckSource \/ Export) /\ UNCHANGED simulated
  \/ Open \/ Drive \/ Simulate

\* The simulator goes on as long as it changes something.
Spec == Init /\ [][Next]_vars /\ WF_vars(Simulate)

-----------------------------------------------------------------------------
(***************************************************************************)
(* Properties.                                                             *)
(***************************************************************************)
\* When everything is stable, each output of the chip, found by its label, has
\* the level that the netlist gives it: through converters, constants and the
\* clock of a wrapper, after any edges, enables and resets, whatever the
\* order in which the gates of a register raced.
SettledAsTheNetlist ==
  Ordered /\ AllStable =>
    \A out \in network.outputs :
      settled[out[1]] # Unknown => Read(level, out[2]) = settled[out[1]]

\* After a change the gates come to rest, in whatever order they are visited.
ChangesSettle == Ordered ~> AllStable
=============================================================================
