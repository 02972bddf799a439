--------------------------- MODULE MCCycleSearch ----------------------------
(***************************************************************************)
(* Three components of one or two bits.                                    *)
(***************************************************************************)
EXTENDS CycleSearch

MCNets == 1..3

Layouts == [Components -> 1..2]

\* The pins a component of width w may have on nets of the given width.
PinsOn(nets, bits, w) == [net : nets, start : 0..bits - w]

\* Every component drives a net of its own, two bits wide, from bit 0; the
\* first has two inputs, the others one.  The last net may be driven by a
\* module input as well.
OwnNets ==
  UNION {
    {[width |-> w,
      out |-> [k \in Components |-> [net |-> k, start |-> 0]],
      ins |-> <<<<a1, a2>>, <<b>>, <<c>>>>, ported |-> p] :
        a1 \in PinsOn(MCNets, 2, w[1]), a2 \in PinsOn(MCNets, 2, w[1]),
        b \in PinsOn(MCNets, 2, w[2]), c \in PinsOn(MCNets, 2, w[3]),
        p \in {{}, {3}}} :
    w \in Layouts}

\* The first two share a net of three bits, which they may both drive; the
\* third has a net of its own and two inputs.
SharedNet ==
  UNION {
    {[width |-> w, out |-> <<x, y, [net |-> 2, start |-> 0]>>,
      ins |-> <<<<a>>, <<b>>, <<c1, c2>>>>, ported |-> {}] :
        x \in PinsOn({1}, 3, w[1]), y \in PinsOn({1}, 3, w[2]),
        a \in PinsOn({1}, 3, w[1]) \cup PinsOn({2}, 2, w[1]),
        b \in PinsOn({1}, 3, w[2]) \cup PinsOn({2}, 2, w[2]),
        c1 \in PinsOn({1}, 3, w[3]), c2 \in PinsOn({1, 2}, 2, w[3])} :
    w \in Layouts}

MCCircuits == OwnNets \cup SharedNet
=============================================================================
