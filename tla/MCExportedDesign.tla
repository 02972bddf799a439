-------------------------- MODULE MCExportedDesign ---------------------------
(***************************************************************************)
(* Designs: every kind of register alone and in the circuits that race if  *)
(* a register is built wrongly; ports of every way to be cut; names that   *)
(* collide; all small netlists of two cells; and netlists with one fault.  *)
(***************************************************************************)
EXTENDS ExportedDesign

W(n) == <<"wire", n>>
K(state) == <<"const", state>>
Ws(first, n) == [i \in 1..n |-> W(first + i - 1)]

Kind(form, positive, reset) == [form |-> form, positive |-> positive, reset |-> reset]
NAND == Kind("nand", TRUE, <<>>)
NOT  == Kind("not", TRUE, <<>>)
Resets == {<<high, value>> : high, value \in BOOLEAN}
PlainRegisters == {Kind(form, positive, <<>>) : form \in {"dff", "latch"}, positive \in BOOLEAN}
ResetRegisters == {Kind("dff", positive, reset) : positive \in BOOLEAN, reset \in Resets}

Port(name, direction, bits) ==
  [name |-> name, direction |-> direction, bits |-> bits, offset |-> 0, upto |-> 0]
In(name, bits)  == Port(name, "input", bits)
Out(name, bits) == Port(name, "output", bits)

Cell(name, kind, bits, out) ==
  LET pins == InputsOf(kind)
  IN  [name |-> name, kind |-> kind, parameters |-> {}, attributes |-> {},
       connections |-> [pin \in ToSet(pins) \cup {OutputOf(kind)} |->
         IF pin = OutputOf(kind) THEN <<out>>
         ELSE <<bits[CHOOSE i \in DOMAIN pins : pins[i] = pin]>>],
       directions |-> [pin \in ToSet(pins) \cup {OutputOf(kind)} |->
         IF pin = OutputOf(kind) THEN "output" ELSE "input"]]

Netlist(ports, cells) ==
  [attributes |-> {}, memories |-> {}, ports |-> ports, nets |-> <<>>, cells |-> cells]
Text(name, module) ==
  [bytes |-> 1, wellFormed |-> TRUE, modules |-> <<[name |-> name, module |-> module]>>]

Counter == <<"counter">>
Clean == Text(Counter, Netlist(<<>>, <<>>))
DesignOf(module, clock) ==
  [source |-> Clean, netlist |-> Text(Counter, module), top |-> Counter, clock |-> clock]
Plain(module) == DesignOf(module, <<>>)

-----------------------------------------------------------------------------
(***************************************************************************)
(* Registers.  Wires: 2 the clock or enable, 3 the data, 4 the reset.      *)
(***************************************************************************)
Reads(kind) == IF kind.reset = <<>> THEN <<W(3), W(2)>> ELSE <<W(3), W(2), W(4)>>

Alone(kind) ==
  Netlist(<<In("c", <<W(2)>>), In("d", <<W(3)>>)>>
            \o (IF kind.reset = <<>> THEN <<>> ELSE <<In("r", <<W(4)>>)>>)
            \o <<Out("q", <<W(5)>>)>>,
          <<Cell("f", kind, Reads(kind), W(5))>>)

Ports(inputs, outputs) ==
  <<In("c", <<W(2)>>)>> \o inputs \o <<In("r", <<W(4)>>)>> \o outputs

\* A register that inverts itself at each edge.
Toggle(kind) ==
  Netlist(Ports(<<>>, <<Out("q", <<W(5)>>)>>),
          <<Cell("f", kind, <<W(6), W(2), W(4)>>, W(5)), Cell("n", NOT, <<W(5)>>, W(6))>>)

\* One register after another, on the same edge or on opposite ones.
Shift(kind, next) ==
  Netlist(Ports(<<In("d", <<W(3)>>)>>, <<Out("q", <<W(5), W(6)>>)>>),
          <<Cell("f", kind, Reads(kind), W(5)),
            Cell("g", next, <<W(5), W(2), W(4)>>, W(6))>>)

\* A register that is clocked by another.
Ripple(kind, next) ==
  Netlist(Ports(<<In("d", <<W(3)>>)>>, <<Out("q", <<W(5), W(6)>>)>>),
          <<Cell("f", kind, <<W(7), W(2), W(4)>>, W(5)),
            Cell("g", next, <<W(3), W(5), W(4)>>, W(6)), Cell("n", NOT, <<W(5)>>, W(7))>>)

\* A register that keeps what it has while wire 3 is low.
Enabled(kind) ==
  Netlist(Ports(<<In("d", <<W(7)>>), In("e", <<W(3)>>)>>, <<Out("q", <<W(5)>>)>>),
          <<Cell("f", kind, <<W(11), W(2), W(4)>>, W(5)),
            Cell("g", NOT, <<W(3)>>, W(8)), Cell("h", NAND, <<W(3), W(7)>>, W(9)),
            Cell("i", NAND, <<W(8), W(5)>>, W(10)), Cell("j", NAND, <<W(9), W(10)>>, W(11))>>)

\* A latch whose data is a function of its enable.
Gated(kind) ==
  Netlist(<<In("c", <<W(2)>>), In("d", <<W(3)>>), Out("q", <<W(5)>>)>>,
          <<Cell("f", kind, <<W(6), W(2)>>, W(5)), Cell("n", NAND, <<W(2), W(3)>>, W(6))>>)

Rise == Kind("dff", TRUE, <<TRUE, FALSE>>)
Fall == Kind("dff", FALSE, <<TRUE, TRUE>>)

Registers ==
  {Plain(Alone(kind)) : kind \in PlainRegisters \cup ResetRegisters}
    \cup {Plain(Toggle(kind)) : kind \in ResetRegisters}
    \cup {Plain(Enabled(kind)) : kind \in {Rise, Fall}}
    \cup {Plain(Gated(Kind("latch", positive, <<>>))) : positive \in BOOLEAN}
    \cup {DesignOf(Toggle(Rise), <<"c">>), DesignOf(Shift(Fall, Rise), <<"c">>)}
Pairs ==
  {Plain(Shift(kind, next)) : kind, next \in {Rise, Fall}}
    \cup {Plain(Ripple(kind, next)) : kind, next \in {Rise, Fall}}

-----------------------------------------------------------------------------
(***************************************************************************)
(* Ports: pieces of eight, four and one, both ways round, with constants.  *)
(***************************************************************************)
Backwards(bits) == Reverse(bits)
Wide(n, offset, upto, extra) ==
  Netlist(<<[In("a", Ws(2, n)) EXCEPT !.offset = offset, !.upto = upto],
            [Out("y", Ws(2, n - 1) \o <<W(40)>> \o extra) EXCEPT !.offset = offset, !.upto = upto],
            Out("z", Backwards(Ws(2, n)))>>,
          <<Cell("g", NAND, <<W(2), W(n + 1)>>, W(40))>>)

PortDesigns ==
  {Plain(Wide(n, offset, upto, extra)) :
     n \in {1, 4, 5}, offset \in {0, 3}, upto \in 0..1, extra \in {<<>>, <<K("0"), K("1")>>}}
    \cup {Plain(Wide(8, 0, upto, <<K("0"), K("1")>>)) : upto \in 0..1}
    \cup {Plain(Wide(9, 3, upto, <<>>)) : upto \in 0..1}

\* Names: of helpers, of chips of DLS, and with characters that files have not.
Tops == {<<"JSONRTL_", "D_LATCH">>, <<"JSONRTL_", "DFF", "P", "P", "0">>, <<"NAND">>,
         <<"CLOCK">>, <<"a", "/", "b">>, <<".", ".">>, <<"TOP_", "NAND">>, <<" ", "NAND">>}
NameDesigns ==
  {[source |-> Text(top, Netlist(<<>>, <<>>)), netlist |-> Text(top, Toggle(Rise)),
    top |-> top, clock |-> IF top[1] = "NAND" THEN <<"c">> ELSE <<>>] : top \in Tops}

-----------------------------------------------------------------------------
(***************************************************************************)
(* Netlists of two cells over three wires and a constant: cycles, bits     *)
(* without a driver, bits with two, and latches in loops among them.       *)
(***************************************************************************)
SmallBits == {W(2), W(3), W(4), K("0")}
SmallOuts == {W(4), W(2), W(3), K("1")}
SmallNetlist(a, b, kind, c, d, out) ==
  Netlist(<<In("a", <<W(2)>>), Out("y", <<W(4)>>)>>,
          <<Cell("f", NAND, <<a, b>>, W(3)), Cell("g", kind, <<c, d>>, out)>>)

SmallNetlists ==
  {Plain(SmallNetlist(a, b, kind, c, d, out)) :
     a, b, c, d \in SmallBits, out \in SmallOuts,
     kind \in {NAND, Kind("latch", TRUE, <<>>), Kind("latch", FALSE, <<>>)}}

(***************************************************************************)
(* A netlist, and its source, with one thing wrong in it.                  *)
(***************************************************************************)
Base == Enabled(Rise)
OpenLatch == Kind("latch", TRUE, <<>>)

\* A chip that is too large, and a project that is.
TooLarge ==
  {Netlist(<<In("a", Ws(2, 8)), Out("y", Ws(2, 8)), Out("z", Ws(2, 8))>>, <<>>),
   Netlist(<<In("a", Ws(2, 1)), Out("y", Ws(3, 3))>>,
           <<Cell("f", Rise, <<W(2), W(2), W(2)>>, W(3)), Cell("g", Fall, <<W(2), W(2), W(2)>>, W(4)),
             Cell("h", OpenLatch, <<W(2), W(2)>>, W(5))>>)}
BadPorts ==
  {[Base.ports[2] EXCEPT !.bits = <<>>], [Base.ports[2] EXCEPT !.bits = Ws(40, 12)],
   [Base.ports[2] EXCEPT !.upto = 2], [Base.ports[2] EXCEPT !.offset = 30],
   [Base.ports[2] EXCEPT !.bits = <<K("0")>>], [Base.ports[2] EXCEPT !.bits = <<W(3), W(3)>>],
   [Base.ports[2] EXCEPT !.bits = <<W(1)>>], [Base.ports[2] EXCEPT !.bits = <<K("x")>>],
   [Base.ports[2] EXCEPT !.direction = "inout"]}
BadCells ==
  {[Base.cells[3] EXCEPT !.kind = Kind("other", TRUE, <<>>)],
   [Base.cells[3] EXCEPT !.parameters = {"plain"}],
   [Base.cells[3] EXCEPT !.parameters = {"unknown"}],
   [Base.cells[3] EXCEPT !.attributes = {"init"}],
   [Base.cells[3] EXCEPT !.connections = [pin \in {"A", "Y"} |-> @[pin]]],
   [Base.cells[3] EXCEPT !.directions = [pin \in {"A", "Y"} |-> @[pin]]],
   [Base.cells[3] EXCEPT !.connections = [pin \in {"A", "C", "Y"} |-> <<W(9)>>]],
   [Base.cells[3] EXCEPT !.directions["A"] = "output"],
   [Base.cells[3] EXCEPT !.connections["A"] = <<W(3), W(7)>>],
   [Base.cells[3] EXCEPT !.connections["A"] = <<K("z")>>],
   [Base.cells[3] EXCEPT !.connections["A"] = <<W(99)>>],
   [Base.cells[3] EXCEPT !.connections["Y"] = <<W(10)>>]}
BadNets == {[bits |-> <<K("x")>>, attributes |-> {}], [bits |-> <<W(5)>>, attributes |-> {"init"}]}
BadModules ==
  {[Base EXCEPT !.ports[2] = port] : port \in BadPorts}
    \cup {[Base EXCEPT !.cells[3] = cell] : cell \in BadCells}
    \cup {[Base EXCEPT !.nets = <<net>>] : net \in BadNets}
    \cup {[Base EXCEPT !.attributes = {"blackbox"}], [Base EXCEPT !.memories = {"m"}],
          [Base EXCEPT !.cells = @ \o [i \in 1..4 |-> Cell("k", NOT, <<W(3)>>, W(20 + i))]]}
Faulty ==
  {Plain(module) : module \in BadModules \cup TooLarge}
    \cup {[Plain(Alone(OpenLatch)) EXCEPT !.source = Text(Counter, module)] : module \in BadModules}
    \cup {[Plain(Alone(OpenLatch)) EXCEPT !.source.modules =
             Append(@, [name |-> <<"part">>, module |-> module])] : module \in BadModules}
    \cup {DesignOf(Base, <<name>>) : name \in {"q", "d", "none"}}
    \cup {DesignOf(Wide(4, 0, 0, <<>>), <<"a">>)}
    \cup {[Plain(Base) EXCEPT !.netlist.bytes = 9], [Plain(Base) EXCEPT !.source.bytes = 9],
          [Plain(Base) EXCEPT !.netlist.wellFormed = FALSE], [Plain(Base) EXCEPT !.top = <<"b">>]}

MCDesigns ==
  Registers \cup Pairs \cup PortDesigns \cup NameDesigns \cup Faulty \cup SmallNetlists

MCLimits == [json |-> 8, cells |-> 8, portBits |-> 11, offset |-> 20, name |-> 5,
             parts |-> 40, project |-> 125]
=============================================================================
