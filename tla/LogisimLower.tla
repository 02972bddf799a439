---------------------------- MODULE LogisimLower -----------------------------
(***************************************************************************)
(* From the wired sheet to a canonical document (the end of elaborate in   *)
(* logisim/elaborate.rs, and logisim/lower.rs).  root gives for every      *)
(* point of the sheet that a port or the end of a wire is at a point that  *)
(* stands for all those connected with it.                                 *)
(***************************************************************************)
EXTENDS LogisimSheet, DlsLower

GatesOf(circuit) == SelectSeq(circuit.comps, IsGate)
PinsThat(circuit, output) ==
  SelectSeq(circuit.comps, LAMBDA c : IsPin(c) /\ IsOutputPin(c) = output)

\* net_for: nets are numbered from 0 in the order in which the components use
\* them.
NetRoots(circuit, root) ==
  FoldLeft(LAMBDA found, p : IF root[p] \in ToSet(found) THEN found
                             ELSE Append(found, root[p]),
           <<>>, FlattenSeq([i \in DOMAIN circuit.comps |-> PortPoints(circuit.comps[i])]))

\* A pin without a label, or with a blank one, is named for its direction.
Label(pin) ==
  LET label == Attr(pin, "label", <<>>)
  IN  IF ~IsBlank(label) THEN label
      ELSE IF IsOutputPin(pin) THEN <<"o", "u", "t">> ELSE <<"i", "n">>

\* FlatNetlist
Netlist(circuit, root) ==
  LET roots  == NetRoots(circuit, root)
      Net(p) == (CHOOSE n \in DOMAIN roots : roots[n] = root[p]) - 1
      Pins(output) ==
        LET pins == PinsThat(circuit, output)
        IN  [i \in DOMAIN pins |-> [name |-> Label(pins[i]), net |-> Net(pins[i].loc)]]
      drawn  == GatesOf(circuit)
  IN  [inputs |-> Pins(FALSE), outputs |-> Pins(TRUE),
       gates |-> [k \in DOMAIN drawn |->
                    LET points == InputPoints(drawn[k])
                    IN  [kind |-> drawn[k].name, output |-> Net(drawn[k].loc),
                         inputs |-> [i \in DOMAIN points |-> Net(points[i])]]],
       nets |-> Len(roots)]

-----------------------------------------------------------------------------
(***************************************************************************)
(* emit_gate: the parts of a gate, [name, type, in, y]; one with a     *)
(* single input has it alone.  next is the first net that is free.         *)
(***************************************************************************)
\* fold_base, native
Base(kind) ==
  CASE kind \in {"AND Gate", "NAND Gate"} -> "AND"
    [] kind \in {"OR Gate", "NOR Gate"}   -> "OR"
    [] kind \in {"XOR Gate", "XNOR Gate"} -> "XOR"
    [] kind = "NOT Gate" -> "NOT"
    [] kind = "Buffer"   -> "BUFFER"
Inverted(kind) == kind \in {"NAND Gate", "NOR Gate", "XNOR Gate"}
Native(kind) ==
  CASE kind = "NAND Gate" -> "NAND"
    [] kind = "NOR Gate"  -> "NOR"
    [] kind = "XNOR Gate" -> "XNOR"
    [] OTHER -> Base(kind)

Part1(suffix, type, a, y)    == [name |-> suffix, type |-> type, in |-> <<a>>, y |-> y]
Part2(suffix, type, a, b, y) == [name |-> suffix, type |-> type, in |-> <<a, b>>, y |-> y]

\* Fault: an inverting gate is folded on its own kind.
WideOnNative(gate, next) ==
  LET n == Len(gate.inputs)
      Target(s) == IF s = n - 1 THEN gate.output ELSE next + s - 1
  IN  [s \in 1..n - 1 |->
         Part2(<<"_", "f">> \o Number(s), Native(gate.kind),
               IF s = 1 THEN gate.inputs[1] ELSE Target(s - 1),
               gate.inputs[s + 1], Target(s))]

\* More than two inputs: a chain of gates that do not invert, and an inverter at
\* the end of one that does.
Wide(gate, next) ==
  LET n == Len(gate.inputs)
      Target(s) == IF s = n - 1 /\ ~Inverted(gate.kind) THEN gate.output
                   ELSE next + s - 1
  IN  [s \in 1..n - 1 |->
         Part2(<<"_", "f">> \o Number(s), Base(gate.kind),
               IF s = 1 THEN gate.inputs[1] ELSE Target(s - 1),
               gate.inputs[s + 1], Target(s))]
        \o IF Inverted(gate.kind)
           THEN <<Part1(<<"_", "i", "n", "v">>, "NOT", Target(n - 1), gate.output)>>
           ELSE <<>>

Emit(gate, next) ==
  CASE gate.kind \in UnaryGates ->
         <<Part1(<<>>, Base(gate.kind), gate.inputs[1], gate.output)>>
    [] gate.kind \in WideGates /\ Len(gate.inputs) = 1 ->
         <<Part1(<<>>, IF Inverted(gate.kind) THEN "NOT" ELSE "BUFFER",
                 gate.inputs[1], gate.output)>>
    [] gate.kind \in WideGates /\ Len(gate.inputs) = 2 ->
         <<Part2(<<>>, Native(gate.kind), gate.inputs[1], gate.inputs[2], gate.output)>>
    [] OTHER -> Wide(gate, next)

\* How many nets a gate takes: one for each part but the last.
Fresh(gate) == Len(Emit(gate, 0)) - 1

-----------------------------------------------------------------------------
(***************************************************************************)
(* lower.  Parts are numbered through; the names of gates are numbered by  *)
(* gate.                                                                   *)
(***************************************************************************)
WholeOf(net) == [net |-> net, sliced |-> FALSE, msb |-> 0, lsb |-> 0]

Connected(part) ==
  IF Len(part.in) = 1 THEN [A |-> WholeOf(part.in[1]), Y |-> WholeOf(part.y)]
  ELSE [A |-> WholeOf(part.in[1]), B |-> WholeOf(part.in[2]), Y |-> WholeOf(part.y)]

Emitted(flat) ==
  FoldLeft(LAMBDA done, k :
             LET parts == Emit(flat.gates[k], done.next)
             IN  [parts |-> done.parts \o
                    [j \in DOMAIN parts |->
                       [parts[j] EXCEPT !.name =
                          <<"g", "a", "t", "e">> \o Number(k - 1) \o @]],
                  next |-> done.next + Fresh(flat.gates[k])],
           [parts |-> <<>>, next |-> flat.nets],
           [k \in DOMAIN flat.gates |-> k])

\* The outputs that no gate drives.
Undriven(flat, driven) ==
  SelectSeq([j \in DOMAIN flat.outputs |-> j],
            LAMBDA j : flat.outputs[j].net \notin driven)

SheetDocument(circuit, root) ==
  LET flat     == Netlist(circuit, root)
      emitted  == Emitted(flat)
      buffered == Undriven(flat, {part.y : part \in ToSet(emitted.parts)})
      buffers  == [i \in DOMAIN buffered |->
                     Part1(<<"b", "u", "f", "f", "e", "r">> \o Number(buffered[i] - 1),
                           "BUFFER", flat.outputs[buffered[i]].net, emitted.next + i - 1)]
      parts    == emitted.parts \o buffers
      pins     == flat.inputs \o flat.outputs
      texts    == PortTexts(pins)
      PortNet(i) ==
        LET j == i - Len(flat.inputs)
        IN  IF j \in ToSet(buffered)
            THEN emitted.next + (CHOOSE n \in DOMAIN buffered : buffered[n] = j) - 1
            ELSE pins[i].net
  IN  [schema |-> "1.0", name |-> circuit.name,
       ports |-> [i \in DOMAIN pins |->
                    [id |-> i, name |-> texts[i], width |-> 1, net |-> PortNet(i),
                     dir |-> IF i <= Len(flat.inputs) THEN "input" ELSE "output"]],
       nets |-> [n \in 1..emitted.next + Len(buffers) |->
                   [id |-> n - 1, name |-> <<"n", "e", "t">> \o Number(n - 1), width |-> 1]],
       components |-> [k \in DOMAIN parts |->
                         [id |-> k, name |-> parts[k].name, type |-> parts[k].type,
                          width |-> 1, connections |-> Connected(parts[k]),
                          parameters |-> <<>>]]]
=============================================================================
