------------------------------ MODULE DlsLower -------------------------------
(***************************************************************************)
(* From a flattened DLS chip to a canonical document                       *)
(* (crates/jsonrtl-profiles/src/dls): UnionFind, the check of the drivers  *)
(* and the assignment of nets of elaborate.rs, and lower.rs.               *)
(*                                                                         *)
(* A flattened chip has its input and output pins [name, width, nodes],    *)
(* where nodes are the signal bits of the pin, least significant first,    *)
(* and its gates [a, b, y], each the node of a pin.                        *)
(***************************************************************************)
EXTENDS Validation

(***************************************************************************)
(* UnionFind.  Every node has a parent; find halves the path it follows.   *)
(***************************************************************************)
Find(parent, node) ==
  LET walk[at \in [parent : Seq(Nat), root : Nat]] ==
        LET up == at.parent[at.parent[at.root]] IN
        IF at.parent[at.root] = at.root THEN at
        ELSE walk[[parent |-> [at.parent EXCEPT ![at.root] = up], root |-> up]]
  IN  walk[[parent |-> parent, root |-> node]]

\* union: the root of b goes below the root of a.
Joined(parent, a, b) ==
  LET fa == Find(parent, a)
      fb == Find(fa.parent, b)
  IN  [fb.parent EXCEPT ![fb.root] = fa.root]

-----------------------------------------------------------------------------
(***************************************************************************)
(* Places are pairs of numbers: bits <<i, b>> of the pins i, inputs before *)
(* outputs, and ends <<k, 1>>, <<k, 2>> and <<k, 3>> of the gates k.       *)
(***************************************************************************)
BitsOfPins(pins) == UNION {{i} \X (1..pins[i].width) : i \in DOMAIN pins}

Before(p, q) == p[1] < q[1] \/ (p[1] = q[1] /\ p[2] < q[2])

\* The places of a set, in their order.
InOrder(places) ==
  [k \in 1..Cardinality(places) |->
     CHOOSE p \in places : Cardinality({q \in places : q = p \/ Before(q, p)}) = k]

\* The first place that has this root.
FirstWith(roots, r) ==
  CHOOSE p \in DOMAIN roots :
    /\ roots[p] = r
    /\ \A q \in DOMAIN roots : roots[q] = r => q = p \/ Before(p, q)

-----------------------------------------------------------------------------
(***************************************************************************)
(* check_drivers: the bits of the inputs and the outputs of the gates must *)
(* all have different roots.                                               *)
(***************************************************************************)
Driving(inputs, gates) ==
  {[from |-> <<"input", p[1]>>, bit |-> p[2], node |-> inputs[p[1]].nodes[p[2]]] :
     p \in BitsOfPins(inputs)}
    \cup {[from |-> <<"nand", k>>, bit |-> 1, node |-> gates[k].y] : k \in DOMAIN gates}

\* Fault: two bits of one input may be the same.
ShortedAcrossPins(parent, inputs, gates) ==
  \E d, e \in Driving(inputs, gates) :
    d.from # e.from /\ Find(parent, d.node).root = Find(parent, e.node).root

Shorted(parent, inputs, gates) ==
  \E d, e \in Driving(inputs, gates) :
    d # e /\ Find(parent, d.node).root = Find(parent, e.node).root

-----------------------------------------------------------------------------
(***************************************************************************)
(* assign_nets.  Every pin has a net of its own.  The home of a root is    *)
(* the first bit of a pin that has it, or a net of one bit, in the order   *)
(* in which the gates name them.  Nets and bits count from 0.              *)
(***************************************************************************)
PinRoots(parent, pins) ==
  [p \in BitsOfPins(pins) |-> Find(parent, pins[p[1]].nodes[p[2]]).root]

GateRoots(parent, gates) ==
  [e \in (DOMAIN gates) \X (1..3) |->
     LET gate == gates[e[1]]
     IN  Find(parent, <<gate.a, gate.b, gate.y>>[e[2]]).root]

\* The roots that no pin has, each where a gate first names it.
Internal(bits, ends) ==
  InOrder({e \in DOMAIN ends : /\ \A p \in DOMAIN bits : bits[p] # ends[e]
                               /\ FirstWith(ends, ends[e]) = e})

Home(bits, ends, pins, r) ==
  IF \E p \in DOMAIN bits : bits[p] = r
  THEN [net |-> FirstWith(bits, r)[1] - 1, bit |-> FirstWith(bits, r)[2] - 1]
  ELSE LET internal == Internal(bits, ends)
       IN  [net |-> Len(pins) - 1 + CHOOSE i \in DOMAIN internal : ends[internal[i]] = r,
            bit |-> 0]

\* The bits of outputs that another name already stands for.
Copied(bits, inputs) ==
  InOrder({p \in DOMAIN bits : p[1] > Len(inputs) /\ FirstWith(bits, bits[p]) # p})

\* The places and roots of one flattened chip.
Assignment(parent, inputs, outputs, gates) ==
  LET pins    == inputs \o outputs
      bits    == PinRoots(parent, pins)
      ends    == GateRoots(parent, gates)
      home(r) == Home(bits, ends, pins, r)
      copied  == Copied(bits, inputs)
  IN  [widths  |-> [i \in DOMAIN pins |-> pins[i].width]
                     \o [i \in DOMAIN Internal(bits, ends) |-> 1],
       nands   |-> [k \in DOMAIN gates |->
                      [a |-> home(ends[<<k, 1>>]), b |-> home(ends[<<k, 2>>]),
                       y |-> home(ends[<<k, 3>>])]],
       buffers |-> [k \in DOMAIN copied |->
                      [from |-> home(bits[copied[k]]),
                       to |-> [net |-> copied[k][1] - 1, bit |-> copied[k][2] - 1]]]]

-----------------------------------------------------------------------------
(***************************************************************************)
(* lower.  Nets, gates and buffers are named by their kind and number;     *)
(* ports keep their names, made different by a suffix.  Ids are numbers in *)
(* the order of the strings while these end in one digit.                  *)
(***************************************************************************)
Number(n) ==
  LET decimal[k \in 0..n] ==
        IF k < 10 THEN <<DigitChars[k + 1]>>
        ELSE Append(decimal[k \div 10], DigitChars[(k % 10) + 1])
  IN  decimal[n]

WithSuffix(name, n) == name \o <<"_">> \o Number(n)

\* Fault: a name is used again when its first suffix is taken.
UniqueNameOnce(used, base) ==
  LET name == IF base = <<>> THEN <<"p", "o", "r", "t">> ELSE base
  IN  IF name \notin used THEN name ELSE WithSuffix(name, 2)

\* So many suffixes cannot all be taken.
UniqueName(used, base) ==
  LET name == IF base = <<>> THEN <<"p", "o", "r", "t">> ELSE base
  IN  IF name \notin used THEN name
      ELSE WithSuffix(name, CHOOSE n \in 2..Cardinality(used) + 2 :
                            /\ WithSuffix(name, n) \notin used
                            /\ \A m \in 2..n - 1 : WithSuffix(name, m) \in used)

PortTexts(pins) ==
  LET given[i \in 0..Len(pins)] ==
        IF i = 0 THEN <<>>
        ELSE Append(given[i - 1], UniqueName(ToSet(given[i - 1]), pins[i].name))
  IN  given[Len(pins)]

\* connection: a slice only where the net is wide.
ConnectionTo(place, widths) ==
  LET wide == widths[place.net + 1] # 1
  IN  [net |-> place.net, sliced |-> wide,
       msb |-> IF wide THEN place.bit ELSE 0, lsb |-> IF wide THEN place.bit ELSE 0]

\* In the order of their ids buffers come before gates.
Lower(chipName, parent, inputs, outputs, gates) ==
  LET flat  == Assignment(parent, inputs, outputs, gates)
      pins  == inputs \o outputs
      texts == PortTexts(pins)
      Part(id, name, type, connections) ==
        [id |-> id, name |-> name, type |-> type, width |-> 1,
         connections |-> connections, parameters |-> <<>>]
      To(place) == ConnectionTo(place, flat.widths)
  IN  [schema |-> "1.1", name |-> chipName,
       ports |-> [i \in DOMAIN pins |->
                    [id |-> i, name |-> texts[i], width |-> pins[i].width,
                     dir |-> IF i <= Len(inputs) THEN "input" ELSE "output",
                     net |-> i - 1]],
       nets |-> [i \in DOMAIN flat.widths |->
                   [id |-> i - 1, name |-> <<"n", "e", "t">> \o Number(i - 1),
                    width |-> flat.widths[i]]],
       components |->
         [k \in DOMAIN flat.nands |->
            LET gate == flat.nands[k]
            IN  Part(Len(flat.buffers) + k, <<"g", "a", "t", "e">> \o Number(k - 1),
                     "NAND", [A |-> To(gate.a), B |-> To(gate.b), Y |-> To(gate.y)])]
         \o [k \in DOMAIN flat.buffers |->
               LET copy == flat.buffers[k]
               IN  Part(k, <<"b", "u", "f", "f", "e", "r">> \o Number(k - 1),
                        "BUFFER", [A |-> To(copy.from), Y |-> To(copy.to)])]]
=============================================================================
