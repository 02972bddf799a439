---------------------------- MODULE DlsElaborate -----------------------------
(***************************************************************************)
(* Elaboration of a DLS chip (dls/elaborate.rs: elaborate, elab_chip and   *)
(* elab_builtin): every chip it is built from is expanded in place, down   *)
(* to gates; pins become nodes, one for each bit, and wires join nodes.    *)
(* elab_chip is recursive; its calls are the frames here, and one sub-chip *)
(* or one wire is one step.  A unit that was elaborated is lowered to a    *)
(* document in the same step, as nothing can come in between.              *)
(***************************************************************************)
EXTENDS DlsLoader, DlsLower

CONSTANTS
  MaxInstances,   \* MAX_INSTANCES
  MaxNodes        \* MAX_NODES

ASSUME DlsElaborateAssumption == MaxInstances \in Nat /\ MaxNodes \in Nat

VARIABLES
  parent,    \* the union-find over nodes
  gates,     \* the NAND instances [a, b, y], and where each stands
  frames,    \* the chips being expanded, the outermost first
  outcome,   \* "idle", "busy", "converted", or why elaboration failed
  document   \* <<the document of the unit>>, once it is converted

elaborateVars == <<parent, gates, frames, outcome, document>>

ElaborateInit ==
  /\ parent = <<>> /\ gates = <<>> /\ frames = <<>>
  /\ outcome = "idle" /\ document = <<>>

\* A frame knows the place of its chip in the hierarchy, for the properties.
Frame(path, name, boundary) ==
  [path |-> path, chip |-> name, boundary |-> boundary,
   ends |-> <<>>,    \* sub_nodes: <<sub-chip, pin>> -> nodes
   sub |-> 1, wire |-> 1]

Current == frames[Len(frames)]
Update(frame) == [frames EXCEPT ![Len(frames)] = frame]

Give(how) ==
  /\ outcome' = how /\ frames' = <<>> /\ parent' = <<>>
  /\ UNCHANGED document

-----------------------------------------------------------------------------
(***************************************************************************)
(* Pins and their nodes.                                                   *)
(***************************************************************************)
\* make_bits for each pin in turn: the nodes taken before pin i.
TakenBefore(pins, i) ==
  FoldLeft(LAMBDA sum, pin : sum + pin.width, 0, SubSeq(pins, 1, i - 1))

\* The first pin that gets no nodes says why; "ok" when all do.
Allocation(pins, size) ==
  LET refused == {i \in DOMAIN pins :
                    \/ pins[i].width = 0
                    \/ size + TakenBefore(pins, i + 1) > MaxNodes}
      first   == CHOOSE i \in refused : \A j \in refused : i <= j
  IN  IF refused = {} THEN "ok"
      ELSE IF pins[first].width = 0 THEN "zero" ELSE "nodes"

NewNodes(size, count) == [k \in 1..count |-> size + k]

PinNodes(pins, i, size) ==
  NewNodes(size + TakenBefore(pins, i), pins[i].width)

\* By pin id; of two pins with one id the later counts.
Boundary(pins, size) ==
  [id \in {pin.id : pin \in ToSet(pins)} |->
     PinNodes(pins, CHOOSE i \in DOMAIN pins :
                      pins[i].id = id /\ \A j \in i + 1..Len(pins) : pins[j].id # id,
              size)]

\* check_ids_unique
IdsUnique(chip) ==
  LET ids == [i \in DOMAIN PinsOf(chip) |-> PinsOf(chip)[i].id]
               \o [i \in DOMAIN chip.subs |-> chip.subs[i].id]
  IN  Cardinality(ToSet(ids)) = Len(ids)

-----------------------------------------------------------------------------
\* The head of elaborate: nodes for the pins of the unit, and the checks at
\* the head of elab_chip.
Start(unit) ==
  LET pins == PinsOf(Chip(unit)) IN
  /\ gates' = <<>>
  /\ IF unit \notin chips THEN Give("absent")
     ELSE IF Allocation(pins, 0) # "ok" THEN Give(Allocation(pins, 0))
     ELSE IF ~IdsUnique(Chip(unit)) THEN Give("ids")
     ELSE /\ parent' = NewNodes(0, TakenBefore(pins, Len(pins) + 1))
          /\ frames' = <<Frame(<<>>, unit, Boundary(pins, 0))>>
          /\ outcome' = "busy" /\ UNCHANGED document

\* The sub-chip that the current chip has to place next.
Placing(sub) ==
  /\ Current.sub <= Len(Chip(Current.chip).subs)
  /\ sub = Chip(Current.chip).subs[Current.sub]

BuiltinRefused(name) ==
  IF name.form = "nand" THEN When(Len(gates) >= MaxInstances, "instances")
  ELSE IF BuiltinSize(name) = 0 THEN {"zero"}
  ELSE When(Len(parent) + BuiltinSize(name) > MaxNodes, "nodes")

PlaceBuiltin ==
  /\ outcome = "busy"
  /\ \E sub \in ToSet(Chip(Current.chip).subs) :
     /\ Placing(sub) /\ IsBuiltin(sub.name)
     /\ LET size  == Len(parent)
            bits  == BuiltinPins(sub.name)
            nodes == [end \in {sub.id} \X DOMAIN bits |->
                        [k \in DOMAIN bits[end[2]] |-> size + bits[end[2]][k]]]
        IN
        \/ /\ BuiltinRefused(sub.name) # {}
           /\ \E how \in BuiltinRefused(sub.name) : Give(how)
           /\ UNCHANGED gates
        \/ /\ BuiltinRefused(sub.name) = {}
           /\ parent' = parent \o NewNodes(size, BuiltinSize(sub.name))
           /\ frames' = Update([Current EXCEPT !.sub = @ + 1, !.ends = nodes @@ @])
           /\ gates' = IF sub.name.form = "nand"
                       THEN Append(gates, [a |-> size + 1, b |-> size + 2, y |-> size + 3,
                                           at |-> Append(Current.path, sub.id)])
                       ELSE gates
           /\ UNCHANGED <<outcome, document>>

\* Why a chip cannot be placed, in the order of the checks; "ok" if it can.
ChipRefused(name) ==
  IF name \notin chips THEN "unsupported"
  ELSE IF \E i \in DOMAIN frames : frames[i].chip = name THEN "cycle"
  ELSE IF Allocation(PinsOf(Chip(name)), Len(parent)) # "ok"
  THEN Allocation(PinsOf(Chip(name)), Len(parent))
  ELSE IF Len(frames) + 1 > MaxDepth THEN "depth"
  ELSE IF ~IdsUnique(Chip(name)) THEN "ids"
  ELSE "ok"

PlaceChip ==
  /\ outcome = "busy"
  /\ \E sub \in ToSet(Chip(Current.chip).subs) :
     /\ Placing(sub) /\ ~IsBuiltin(sub.name)
     /\ UNCHANGED gates
     /\ \/ /\ ChipRefused(sub.name.text) # "ok"
           /\ Give(ChipRefused(sub.name.text))
        \/ /\ ChipRefused(sub.name.text) = "ok"
           /\ LET pins  == PinsOf(Chip(sub.name.text))
                  inner == Boundary(pins, Len(parent))
                  nodes == [end \in {sub.id} \X DOMAIN inner |-> inner[end[2]]]
              IN
              /\ parent' = parent \o NewNodes(Len(parent), TakenBefore(pins, Len(pins) + 1))
              /\ frames' =
                   Append(Update([Current EXCEPT !.sub = @ + 1, !.ends = nodes @@ @]),
                          Frame(Append(Current.path, sub.id), sub.name.text, inner))
              /\ UNCHANGED <<outcome, document>>

\* resolve: the nodes of an address; none when no pin is there.
Resolve(address) ==
  IF address.owner \in DOMAIN Current.boundary THEN Current.boundary[address.owner]
  ELSE IF <<address.owner, address.pin>> \in DOMAIN Current.ends
  THEN Current.ends[<<address.owner, address.pin>>]
  ELSE <<>>

Placed == outcome = "busy" /\ Current.sub > Len(Chip(Current.chip).subs)

JoinWire ==
  /\ Placed /\ Current.wire <= Len(Chip(Current.chip).wires)
  /\ LET wire   == Chip(Current.chip).wires[Current.wire]
         source == Resolve(wire.from)
         target == Resolve(wire.to)
     IN
     \/ /\ source = <<>> \/ target = <<>>
        /\ Give("pin")
     \/ /\ source # <<>> /\ target # <<>> /\ Len(source) # Len(target)
        /\ Give("mismatch")
     \/ /\ source # <<>> /\ Len(source) = Len(target)
        /\ parent' = FoldLeft(LAMBDA nodes, k : Joined(nodes, source[k], target[k]),
                              parent, [k \in DOMAIN source |-> k])
        /\ frames' = Update([Current EXCEPT !.wire = @ + 1])
        /\ UNCHANGED <<outcome, document>>
  /\ UNCHANGED gates

Expanded == Placed /\ Current.wire > Len(Chip(Current.chip).wires)

LeaveChip ==
  /\ Expanded /\ Len(frames) > 1
  /\ frames' = Front(frames)
  /\ UNCHANGED <<parent, gates, outcome, document>>

\* The tail of elaborate: two drivers must not share a node; then the nets are
\* assigned, and the unit is lowered.
Finish ==
  LET top == Chip(Current.chip)
      Bound(pins) == [i \in DOMAIN pins |-> [name |-> pins[i].name, width |-> pins[i].width,
                                             nodes |-> Current.boundary[pins[i].id]]]
  IN
  /\ Expanded /\ Len(frames) = 1
  /\ IF Shorted(parent, Bound(top.inputs), gates) THEN Give("drivers")
     ELSE /\ document' = <<Lower(Current.chip, parent, Bound(top.inputs),
                                 Bound(top.outputs), gates)>>
          /\ outcome' = "converted" /\ frames' = <<>> /\ parent' = <<>>
  /\ UNCHANGED gates

ElaborateNext == PlaceBuiltin \/ PlaceChip \/ JoinWire \/ LeaveChip \/ Finish
=============================================================================
