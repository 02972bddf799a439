----------------------------- MODULE DlsExport -------------------------------
(***************************************************************************)
(* The DLS exporter (crates/jsonrtl-profiles/src/dls/export.rs): a netlist *)
(* that passed the checks becomes chips of NAND gates, registers included. *)
(*                                                                         *)
(* Chips are as in DlsProject.  The text of a name is a sequence of its    *)
(* pieces; a reserved prefix and a character that is not kept are pieces   *)
(* of their own.                                                           *)
(***************************************************************************)
EXTENDS YosysNetlist, DlsProject

At(owner, pin) == [owner |-> owner, pin |-> pin]
Nand           == [form |-> "nand"]
Clock          == [form |-> "clock"]
Named(text)    == [form |-> "chip", text |-> text]
Splitter(n)    == [form |-> "converter", from |-> n, to |-> 1]
Merger(n)      == [form |-> "converter", from |-> 1, to |-> n]

-----------------------------------------------------------------------------
(***************************************************************************)
(* Chip: pins and sub-chips share one count of ids.                        *)
(***************************************************************************)
NewChip == [inputs |-> <<>>, outputs |-> <<>>, subs |-> <<>>, wires |-> <<>>]

NextId(c) == Len(c.inputs) + Len(c.outputs) + Len(c.subs) + 1

WithPin(c, name, width, input) ==
  LET pin == [name |-> name, id |-> NextId(c), width |-> width]
  IN  IF input THEN [c EXCEPT !.inputs = Append(@, pin)]
      ELSE [c EXCEPT !.outputs = Append(@, pin)]

WithSub(c, name)       == [c EXCEPT !.subs = Append(@, [name |-> name, id |-> NextId(c)])]
WithWire(c, from, to)  == [c EXCEPT !.wires = Append(@, [from |-> from, to |-> to])]
WithWires(c, wires)    == [c EXCEPT !.wires = @ \o wires]

\* Chip::nand, for each pair of addresses in turn; Chip::not is a pair of one.
WithNands(c, pairs) ==
  FoldLeft(LAMBDA d, pair :
             WithWires(WithSub(d, Nand),
                       <<[from |-> pair[1], to |-> At(NextId(d), 0)],
                         [from |-> pair[2], to |-> At(NextId(d), 1)]>>),
           c, pairs)

\* The one-bit pins of a helper: inputs, then the output.
WithPins(inputs, output) ==
  WithPin(FoldLeft(LAMBDA c, name : WithPin(c, <<name>>, 1, TRUE), NewChip, inputs),
          <<output>>, 1, FALSE)

-----------------------------------------------------------------------------
(***************************************************************************)
(* The helper chips.                                                       *)
(***************************************************************************)
Mark(high) == IF high THEN "P" ELSE "N"
Suffix(reset) ==
  IF reset = <<>> THEN <<>>
  ELSE <<Mark(reset[1]), IF reset[2] THEN "1" ELSE "0">>

ConstantName(state) == <<"JSONRTL_", IF state = "1" THEN "CONST1" ELSE "CONST0">>

\* reset_latch_name
LatchName(reset) == <<"JSONRTL_", "D_LATCH">> \o Suffix(reset)

\* Logic::helper
HelperName(kind) ==
  IF kind.form = "dff" THEN <<"JSONRTL_", "DFF", Mark(kind.positive)>> \o Suffix(kind.reset)
  ELSE IF kind.positive THEN LatchName(<<>>) ELSE <<"JSONRTL_", "D_LATCH", "N">>

\* While reset is asserted one side of the latch is forced low and the other
\* high; k are the outputs of the four gates that do it.
Forcing(reset, k, set, clear, inactive) ==
  IF reset = <<>> THEN <<>>
  ELSE IF reset[2]
       THEN <<<<set, inactive>>, <<k[1], k[1]>>, <<clear, clear>>, <<k[3], inactive>>>>
       ELSE <<<<set, set>>, <<k[1], inactive>>, <<clear, inactive>>, <<k[3], k[3]>>>>

\* ensure_latch
LatchChip(reset) ==
  LET pins  == IF reset = <<>> THEN <<"D", "E">> ELSE <<"D", "E", "R">>
      Gate(n) == At(Len(pins) + 1 + n, 2)
      d     == At(1, 0)
      e     == At(2, 0)
      r     == At(3, 0)
      inverted == reset # <<>> /\ reset[1]
      front == <<<<d, d>>, <<d, e>>, <<Gate(1), e>>>>
                 \o (IF inverted THEN <<<<r, r>>>> ELSE <<>>)
      n     == Len(front)
      force == Forcing(reset, [i \in 1..4 |-> Gate(n + i)], Gate(2), Gate(3),
                       IF inverted THEN Gate(4) ELSE r)
      setBar   == IF reset = <<>> THEN Gate(2) ELSE Gate(n + 2)
      resetBar == IF reset = <<>> THEN Gate(3) ELSE Gate(n + 4)
      q     == n + Len(force) + 1
      gates == front \o force \o <<<<setBar, Gate(q + 1)>>, <<Gate(q), resetBar>>>>
  IN  WithWire(WithNands(WithPins(pins, "Q"), gates), Gate(q), At(Len(pins) + 1, 0))

\* ensure_sequential, for the latch that is open while its enable is low
LowLatchChip ==
  LET c == WithSub(WithNands(WithPins(<<"D", "E">>, "Q"), <<<<At(2, 0), At(2, 0)>>>>),
                   Named(LatchName(<<>>)))
  IN  WithWires(c, <<[from |-> At(1, 0), to |-> At(5, 1)],
                     [from |-> At(4, 2), to |-> At(5, 2)],
                     [from |-> At(5, 3), to |-> At(3, 0)]>>)

\* Fault: both latches of a flip-flop are open at the same time.
SameEnables(positive, clock, inverse) == <<clock, clock>>

\* What opens the master and the slave.
Enables(positive, clock, inverse) ==
  IF positive THEN <<inverse, clock>> ELSE <<clock, inverse>>

\* ensure_sequential, for a flip-flop: a master and a slave
FlipFlopChip(positive, reset) ==
  LET pins   == IF reset = <<>> THEN <<"D", "C">> ELSE <<"D", "C", "R">>
      q      == Len(pins) + 1
      master == q + 2
      slave  == q + 3
      enable == Enables(positive, At(2, 0), At(q + 1, 2))
      c      == WithSub(WithSub(WithNands(WithPins(pins, "Q"), <<<<At(2, 0), At(2, 0)>>>>),
                                Named(LatchName(reset))), Named(LatchName(reset)))
  IN  WithWires(c,
        <<[from |-> At(1, 0), to |-> At(master, 1)],
          [from |-> enable[1], to |-> At(master, 2)],
          [from |-> enable[2], to |-> At(slave, 2)],
          [from |-> At(master, q), to |-> At(slave, 1)],
          [from |-> At(slave, q), to |-> At(q, 0)]>>
        \o (IF reset = <<>> THEN <<>>
            ELSE <<[from |-> At(3, 0), to |-> At(master, 3)],
                   [from |-> At(3, 0), to |-> At(slave, 3)]>>))

\* Logic::helper's chips, the latch in them included.
HelperChips(kind) ==
  (HelperName(kind) :>
     CASE kind.form = "dff" -> FlipFlopChip(kind.positive, kind.reset)
       [] kind.positive     -> LatchChip(<<>>)
       [] OTHER             -> LowLatchChip)
  @@ (LatchName(kind.reset) :> LatchChip(kind.reset))

\* ensure_constant: a gate reads a pin without a wire as low.
ConstantChips(state) ==
  LET out  == WithPin(NewChip, <<"OUT">>, 1, FALSE)
      high == WithWire(WithSub(out, Nand), At(2, 2), At(1, 0))
      low  == WithWire(WithNands(WithSub(out, Named(ConstantName("1"))),
                                 <<<<At(2, 1), At(2, 1)>>>>), At(3, 2), At(1, 0))
  IN  IF state = "1" THEN ConstantName("1") :> high
      ELSE (ConstantName("0") :> low) @@ (ConstantName("1") :> high)

-----------------------------------------------------------------------------
(***************************************************************************)
(* The top chip, which is built in a record of                             *)
(*   chip, book   the chip so far, and the helpers it needs                *)
(*   sources      where each bit comes from                                *)
(*   targets      <<bit, where it goes>>, in order                         *)
(*   boundaries   the pins: [port, label, id, width, input].               *)
(***************************************************************************)
\* Some of the reserved names, and what stands for every character that is not
\* kept.  Names that differ in case only are not told apart.
Reserved         == {<<"NAND">>, <<"CLOCK">>, <<"LED">>}
ReservedPrefixes == {"JSONRTL_", "IN-", "OUT-", "BUS-"}
NotKept          == {"\\", ":", "NUL", "/"}

Trim(name) ==
  LET solid == {i \in DOMAIN name : name[i] \notin {" ", "."}}
  IN  IF solid = {} THEN <<>> ELSE SubSeq(name, Min(solid), Max(solid))

KeptName(top) ==
  LET kept  == Trim([i \in DOMAIN top |-> IF top[i] \in NotKept THEN "_" ELSE top[i]])
      short == SubSeq(kept, 1, Lesser(Len(kept), ExportLimits.name))
  IN  IF short = <<>> THEN <<"TOP">> ELSE short

\* Fault: only whole names are reserved.
SafeExceptHelpers(top) ==
  LET name == KeptName(top)
  IN  IF name \in Reserved THEN <<"TOP_">> \o name ELSE name

\* safe_top_name
SafeTopName(top) ==
  LET name == KeptName(top)
  IN  IF name \in Reserved \/ name[1] \in ReservedPrefixes THEN <<"TOP_">> \o name
      ELSE name

\* chunks: [label, start, width], eight bits at a time as long as there are, and
\* then four, and then one.  The label has the indices of the source.
Chunk(port, start) ==
  LET size  == Len(port.bits)
      rest  == size - start
      width == IF rest >= 8 THEN 8 ELSE IF rest >= 4 THEN 4 ELSE 1
      Index(i) == port.offset + (IF port.upto = 0 THEN i ELSE size - 1 - i)
      label == IF width = size THEN <<port.name>>
               ELSE IF width = 1 THEN <<port.name, Index(start)>>
               ELSE <<port.name, Index(start + width - 1), Index(start)>>
  IN  [label |-> label, start |-> start, width |-> width]

Chunks(port) ==
  LET from[start \in 0..Len(port.bits)] ==
        IF start = Len(port.bits) THEN <<>>
        ELSE <<Chunk(port, start)>> \o from[start + Chunk(port, start).width]
  IN  from[0]

\* Fault: the first narrow pin has the lowest bit.
NarrowPinFromBelow(width, first, i) == first + i

\* The narrow pin of a converter for bit i, the first of which has the highest.
NarrowPin(width, first, i) == first + width - 1 - i

WithInput(s, bits, chunk, pin) ==
  LET n     == chunk.width
      bit(i) == bits[chunk.start + i + 1]
      split == NextId(s.chip)
  IN  IF n = 1 THEN [s EXCEPT !.sources = (bit(0) :> pin) @@ @]
      ELSE [s EXCEPT
             !.chip = WithWire(WithSub(@, Splitter(n)), pin, At(split, 0)),
             !.sources = FoldLeft(
               LAMBDA sources, i : (bit(i) :> At(split, NarrowPin(n, 1, i))) @@ sources,
               @, [i \in 1..n |-> i - 1])]

WithOutput(s, bits, chunk, pin) ==
  LET n     == chunk.width
      bit(i) == bits[chunk.start + i + 1]
      merge == NextId(s.chip)
  IN  IF n = 1 THEN [s EXCEPT !.targets = Append(@, <<bit(0), pin>>)]
      ELSE [s EXCEPT
             !.chip = WithWire(WithSub(@, Merger(n)), At(merge, n), pin),
             !.targets = @ \o [i \in 1..n |->
               <<bit(i - 1), At(merge, NarrowPin(n, 0, i - 1))>>]]

WithChunk(s, port, chunk) ==
  LET input == port.direction = "input"
      id    == NextId(s.chip)
      t     == [s EXCEPT
                 !.chip = WithPin(@, chunk.label, chunk.width, input),
                 !.boundaries = Append(@, [port |-> port.name, label |-> chunk.label,
                                id |-> id, width |-> chunk.width, input |-> input])]
  IN  IF input THEN WithInput(t, port.bits, chunk, At(id, 0))
      ELSE WithOutput(t, port.bits, chunk, At(id, 0))

\* A register counts its pins from one, a gate from zero; NOT is a NAND that
\* reads its bit twice.
WithCell(s, cell) ==
  LET id    == NextId(s.chip)
      pins  == InputsOf(cell.kind)
      register == IsSequential(cell.kind)
      first == IF register THEN 1 ELSE 0
      reads == [i \in DOMAIN pins |-> <<InputBit(cell, pins[i]), At(id, first + i - 1)>>]
      twice == IF cell.kind.form = "not" THEN <<<<InputBit(cell, "A"), At(id, 1)>>>>
               ELSE <<>>
  IN  [s EXCEPT
        !.chip = WithSub(@, IF register THEN Named(HelperName(cell.kind)) ELSE Nand),
        !.book = IF register THEN @ @@ HelperChips(cell.kind) ELSE @,
        !.sources = (OutputBit(cell) :> At(id, IF register THEN Len(pins) + 1 ELSE 2)) @@ @,
        !.targets = @ \o reads \o twice]

\* Constants are made when they are first read.
WithTarget(s, target) ==
  LET bit == target[1]
      id  == NextId(s.chip)
      t   == IF bit \in DOMAIN s.sources THEN s
             ELSE [s EXCEPT !.chip = WithSub(@, Named(ConstantName(bit[2]))),
                            !.book = @ @@ ConstantChips(bit[2]),
                            !.sources = (bit :> At(id, 1)) @@ @]
  IN  [t EXCEPT !.chip = WithWire(@, t.sources[bit], target[2])]

TopChip(module) ==
  LET start == [chip |-> NewChip, book |-> <<>>, sources |-> <<>>, targets |-> <<>>,
                boundaries |-> <<>>]
      ports == FoldLeft(LAMBDA s, port :
                          FoldLeft(LAMBDA t, chunk : WithChunk(t, port, chunk), s, Chunks(port)),
                        start, module.ports)
      cells == FoldLeft(WithCell, ports, module.cells)
  IN  FoldLeft(WithTarget, cells, cells.targets)

\* The wrapper that drives one input from the clock of DLS.
WrapperChip(name, boundaries, clock) ==
  LET base == WithSub(WithSub(NewChip, Named(name)), Clock)
      wrap(c, pin) ==
        IF pin.input /\ pin.port = clock
        THEN WithWire(c, At(2, 0), At(1, pin.id))
        ELSE LET here == At(NextId(c), 0)
                 wide == WithPin(c, pin.label, pin.width, pin.input)
             IN  IF pin.input THEN WithWire(wide, here, At(1, pin.id))
                 ELSE WithWire(wide, At(1, pin.id), here)
  IN  FoldLeft(wrap, base, boundaries)

-----------------------------------------------------------------------------
\* What stands for the bytes of a chip.
PartsOf(chip) == NextId(chip) - 1 + Len(chip.wires)

Refused(how) == [outcome |-> how, top |-> <<>>, book |-> <<>>]

\* The clock must be an input of one bit; `clock` is <<>> or <<its name>>.
ClockOutcome(module, clock) ==
  IF clock = <<>> \/ \E port \in ToSet(module.ports) :
       port.name = clock[1] /\ port.direction = "input" /\ Len(port.bits) = 1
  THEN "ok" ELSE "unsupported"

\* The chips of a project: the top chip, its helpers, and the wrapper.
BookOf(built, name, clock) ==
  LET book == (name :> built.chip) @@ built.book
  IN  IF clock = <<>> THEN book
      ELSE (Append(name, "_CLOCK") :> WrapperChip(name, built.boundaries, clock[1])) @@ book

ExceedsLimits(book) ==
  LET sizes == [n \in DOMAIN book |-> PartsOf(book[n])]
  IN  \/ \E n \in DOMAIN book : sizes[n] > ExportLimits.parts
      \/ FoldFunction(LAMBDA m, k : m + k, 0, sizes) > ExportLimits.project

Finished(book, name, clock) ==
  IF ExceedsLimits(book) THEN Refused("limit")
  ELSE [outcome |-> "ok", book |-> book,
        top |-> IF clock = <<>> THEN name ELSE Append(name, "_CLOCK")]

ExportedModule(module, top, clock) ==
  LET checked == Then(ModuleOutcome(module), ClockOutcome(module, clock))
      books   == {BookOf(built, SafeTopName(top), clock) : built \in {TopChip(module)}}
  IN  IF checked # "ok" THEN Refused(checked)
      ELSE CHOOSE r \in {Finished(book, SafeTopName(top), clock) : book \in books} : TRUE

\* from_yosys_json
Exported(text, top, clock) ==
  LET parsed == ParseOutcome(text)
      found  == ModulesNamed(text, top)
  IN  IF parsed # "ok" THEN Refused(parsed)
      ELSE IF found = {} THEN Refused("unknown")
      ELSE CHOOSE r \in {ExportedModule(m, top, clock) : m \in found} : TRUE
=============================================================================
