----------------------------- MODULE DlsSignals ------------------------------
(***************************************************************************)
(* What the documents of the DLS profile owe to the hierarchy of chips     *)
(* they come from, through all that DlsImport does to it.                  *)
(***************************************************************************)
EXTENDS DlsImport, DlsHierarchy

Ended(how) == phase = "elaborate" /\ outcome = how

\* What drives a bit in the hierarchy of the chips that were read.
Book        == [n \in chips |-> Chip(n)]
UnitJoins   == Joins(Book, Unit)
UnitDrivers == DriverBits(Book, Unit)
Origins(joins, bit) == Spread(joins, {bit}) \cap UnitDrivers

\* The same in a document: input ports and gates, seen through the buffers.
EndsOn(doc, net, bit) ==
  {e.at : e \in {d \in Drivers(doc, NetOf(doc, net)) : bit \in d.bits}}

RECURSIVE Sources(_, _, _)
Sources(doc, net, bit) ==
  UNION {IF e[1] = "port" THEN {<<<<>>, Chip(Unit).inputs[e[2]].id, bit>>}
         ELSE IF e[2] <= Len(gates) THEN {<<gates[e[2]].at, 2, 0>>}
         ELSE LET read == doc.components[e[2]].connections["A"]
              IN  Sources(doc, read.net, read.lsb) :
         e \in EndsOn(doc, net, bit)}

\* Every bit that the unit reads, at an output or at a gate, has in the document
\* the same driver as in the hierarchy of chips, through whatever pins, buses,
\* converters and levels the signal goes.
DocumentKeepsSignals ==
  \A doc \in ToSet(document) :
    LET joins == UnitJoins IN
    /\ \A j \in DOMAIN Chip(Unit).outputs :
         LET pin == Chip(Unit).outputs[j] IN
         \A b \in 0..pin.width - 1 :
           Sources(doc, doc.ports[Len(Chip(Unit).inputs) + j].net, b)
             = Origins(joins, <<<<>>, pin.id, b>>)
    /\ {gate.at : gate \in ToSet(gates)} = Leaves(Book, Unit, "nand")
    /\ \A k \in DOMAIN gates :
         LET a == doc.components[k].connections["A"]
             b == doc.components[k].connections["B"]
         IN  /\ Sources(doc, a.net, a.lsb) = Origins(joins, <<gates[k].at, 0, 0>>)
             /\ Sources(doc, b.net, b.lsb) = Origins(joins, <<gates[k].at, 1, 0>>)

\* A unit that was loaded is refused for its structure exactly when two drivers
\* of it meet in one signal, wherever in the hierarchy they do: expanding it
\* finds no chip absent, no cycle and no depth that loading has not found.
DriverCheckIsExact ==
  /\ outcome \notin {"absent", "cycle", "depth"}
  /\ Ended("drivers") \/ Ended("converted") =>
       LET joins == UnitJoins IN
       Ended("drivers") <=> \E d \in UnitDrivers : Origins(joins, d) # {d}
=============================================================================
