---------------------------- MODULE CycleSearch -----------------------------
(***************************************************************************)
(* How the validator finds combinational cycles                            *)
(* (crates/jsonrtl/src/validation.rs: validate_cycles, has_bit_cycle and   *)
(* strongly_connected_components).                                         *)
(*                                                                         *)
(* The gates are bitwise: lane k of an output depends on lane k of every   *)
(* input, and slices shift lanes between nets.  The validator first groups *)
(* the components that reach one another when lanes are ignored, with two  *)
(* depth-first passes (Kosaraju), and then looks inside each group for a   *)
(* cycle of single lanes, with a third.  No pass is recursive: each keeps  *)
(* a stack, and one iteration of its loop is one step here.                *)
(*                                                                         *)
(* The components are those the filter at the head of validate_cycles lets *)
(* through, numbered in the order of their ids.                            *)
(***************************************************************************)
EXTENDS Integers, Sequences, FiniteSets

CONSTANTS
  Count,     \* components of the circuit
  Nets,
  Circuits   \* the circuits to look at

Components == 1..Count

\* A pin covers as many bits of its net as its component is wide, from `start`.
Pin == [net : Nets, start : Nat]

Circuit == [width  : [Components -> Nat \ {0}],
            out    : [Components -> Pin],
            ins    : [Components -> Seq(Pin)],
            ported : SUBSET Nets]   \* nets a module input drives

ASSUME CycleSearchAssumption ==
  /\ Count \in Nat
  /\ Circuits \subseteq Circuit

VARIABLES
  circuit,
  drivers,   \* drivers_by_net: the components that drive each net
  adjacency, \* the components each component feeds
  pass,      \* "build", "finish", "assign", "refine", "lanes" or "done"
  next,      \* the loop counter of the pass
  stack,     \* the stack of the pass
  visited,   \* components the first pass has met
  order,     \* finish_order
  assigned,  \* components the second pass has met
  members,   \* the group the second pass is collecting
  groups,    \* the groups it has collected
  refined,   \* those the third pass has taken up
  group,     \* the group being refined
  color,     \* 0, 1 or 2 for every lane of `group`
  reported   \* the groups with a GRAPH_COMBINATIONAL_CYCLE

given == <<circuit, drivers, adjacency>>
graph == <<visited, order, assigned, members>>
vars  == <<given, pass, next, stack, graph, groups, refined, group, color,
          reported>>

-----------------------------------------------------------------------------
(***************************************************************************)
(* What drives what.                                                       *)
(***************************************************************************)
Covers(pin, c, bit) == pin.start <= bit /\ bit < pin.start + circuit.width[c]

Share(pin, c, pin2, d) ==
  /\ pin.net = pin2.net
  /\ pin.start < pin2.start + circuit.width[d]
  /\ pin2.start < pin.start + circuit.width[c]

\* A net two drivers share a bit of establishes no dependency.
Ambiguous(net) ==
  \E c \in Components :
    /\ circuit.out[c].net = net
    /\ \/ net \in circuit.ported
       \/ \E d \in Components \ {c} :
            Share(circuit.out[c], c, circuit.out[d], d)

\* drivers_by_net leaves the ambiguous nets out.  The module ports are left
\* out here, because nothing follows them.
DriversByNet ==
  [net \in Nets |->
     IF Ambiguous(net) THEN {} ELSE {d \in Components : circuit.out[d].net = net}]

\* Component d feeds component c: they share a bit of an input of c.
Feeds(byNet, d, c) ==
  \E i \in DOMAIN circuit.ins[c] :
    /\ d \in byNet[circuit.ins[c][i].net]
    /\ Share(circuit.ins[c][i], c, circuit.out[d], d)

Reverse(c) == {d \in Components : c \in adjacency[d]}

LanesOf(S) == UNION {{c} \X (0..circuit.width[c] - 1) : c \in S}

\* The lanes that drive input i of lane x: one, or none.
Producers(x, i) ==
  LET pin == circuit.ins[x[1]][i]
      bit == pin.start + x[2]
  IN {<<d, bit - circuit.out[d].start>> :
        d \in {e \in drivers[pin.net] : Covers(circuit.out[e], e, bit)}}

-----------------------------------------------------------------------------
(***************************************************************************)
(* Stacks.  The last element is the top.                                   *)
(***************************************************************************)
Top(s)  == s[Len(s)]
Rest(s) == SubSeq(s, 1, Len(s) - 1)

\* neighbors.iter().rev()
Descending(S) ==
  CHOOSE s \in [1..Cardinality(S) -> S] :
    \A i, j \in DOMAIN s : i < j => s[i] > s[j]

Smallest(S) == CHOOSE n \in S : \A m \in S : n <= m

Init ==
  /\ circuit \in Circuits
  /\ drivers = [net \in Nets |-> {}]
  /\ adjacency = [c \in Components |-> {}]
  /\ pass = "build" /\ next = 1 /\ stack = <<>>
  /\ visited = {} /\ order = <<>> /\ assigned = {} /\ members = {}
  /\ groups = {} /\ refined = {} /\ group = {} /\ color = <<>>
  /\ reported = {}

-----------------------------------------------------------------------------
\* The component graph, before any search.
BuildGraph ==
  /\ pass = "build"
  /\ drivers' = DriversByNet
  /\ adjacency' = [d \in Components |->
                    {c \in Components : Feeds(drivers', d, c)}]
  /\ pass' = "finish"
  /\ UNCHANGED <<circuit, next, stack, graph, groups, refined, group, color,
                 reported>>

(***************************************************************************)
(* First pass: components in the order in which their visits end.          *)
(***************************************************************************)
StartVisit ==
  /\ pass = "finish" /\ stack = <<>> /\ next <= Count
  /\ next' = next + 1
  /\ stack' = IF next \in visited THEN <<>> ELSE <<<<next, FALSE>>>>
  /\ UNCHANGED <<given, pass, graph, groups, refined, group, color, reported>>

Visit ==
  /\ pass = "finish" /\ stack # <<>>
  /\ LET node == Top(stack)[1]
         new  == adjacency[node] \ (visited \cup {node})
         more == Descending(new)
     IN
     \/ /\ Top(stack)[2]
        /\ order' = Append(order, node)
        /\ stack' = Rest(stack)
        /\ UNCHANGED visited
     \/ /\ ~Top(stack)[2] /\ node \in visited
        /\ stack' = Rest(stack)
        /\ UNCHANGED <<visited, order>>
     \/ /\ ~Top(stack)[2] /\ node \notin visited
        /\ visited' = visited \cup {node}
        /\ stack' = Append(Rest(stack), <<node, TRUE>>)
                      \o [i \in DOMAIN more |-> <<more[i], FALSE>>]
        /\ UNCHANGED order
  /\ UNCHANGED <<given, pass, next, assigned, members, groups, refined, group, color,
                 reported>>

EndFinish ==
  /\ pass = "finish" /\ stack = <<>> /\ next > Count
  /\ pass' = "assign" /\ next' = Len(order)
  /\ UNCHANGED <<given, stack, graph, groups, refined, group, color, reported>>

-----------------------------------------------------------------------------
(***************************************************************************)
(* Second pass: groups, along the reversed edges, last finished first.     *)
(***************************************************************************)
StartGroup ==
  /\ pass = "assign" /\ stack = <<>> /\ next > 0
  /\ next' = next - 1
  /\ stack' = IF order[next] \in assigned THEN <<>> ELSE <<order[next]>>
  /\ assigned' = assigned \cup {order[next]}
  /\ UNCHANGED <<given, pass, visited, order, members, groups, refined, group, color,
                 reported>>

Collect ==
  /\ pass = "assign" /\ stack # <<>>
  /\ LET new == Reverse(Top(stack)) \ assigned
         all == members \cup {Top(stack)}
     IN
     /\ assigned' = assigned \cup new
     /\ stack' = Rest(stack) \o Descending(new)
     /\ IF stack' = <<>>
        THEN members' = {} /\ groups' = groups \cup {all}
        ELSE members' = all /\ UNCHANGED groups
  /\ UNCHANGED <<given, pass, next, visited, order, refined, group, color, reported>>

EndAssign ==
  /\ pass = "assign" /\ stack = <<>> /\ next = 0
  /\ pass' = "refine"
  /\ UNCHANGED <<given, next, stack, graph, groups, refined, group, color, reported>>

-----------------------------------------------------------------------------
(***************************************************************************)
(* Third pass: the lanes of each group, in the order of the groups.        *)
(***************************************************************************)
\* Fault: a component that feeds itself is passed over.
TrivialIfAlone(g) == \E c \in g : g = {c}

\* A single component that does not feed itself has no cycle.
Trivial(g) == \E c \in g : g = {c} /\ c \notin adjacency[c]

Report(g) == reported' = reported \cup {g}

NextGroup ==
  /\ pass = "refine" /\ groups # refined
  /\ LET left == groups \ refined
         g    == CHOOSE h \in left : \A k \in left : Smallest(h) <= Smallest(k)
     IN
     /\ refined' = refined \cup {g}
     /\ \/ /\ Trivial(g)
           /\ UNCHANGED <<pass, group, color, reported>>
        \* has_bit_cycle: without a wide component every edge is a lane edge.
        \/ /\ ~Trivial(g) /\ \A c \in g : circuit.width[c] = 1
           /\ Report(g)
           /\ UNCHANGED <<pass, group, color>>
        \/ /\ ~Trivial(g) /\ \E c \in g : circuit.width[c] # 1
           /\ pass' = "lanes"
           /\ group' = g
           /\ color' = [x \in LanesOf(g) |-> 0]
           /\ UNCHANGED reported
  /\ UNCHANGED <<given, next, stack, graph, groups>>

\* The next lane no traversal has met.
White == {x \in DOMAIN color : color[x] = 0}
First(lanes) ==
  CHOOSE x \in lanes : \A y \in lanes :
    x[1] < y[1] \/ (x[1] = y[1] /\ x[2] <= y[2])

StartLane ==
  /\ pass = "lanes" /\ stack = <<>> /\ White # {}
  /\ color' = [color EXCEPT ![First(White)] = 1]
  /\ stack' = <<[lane |-> First(White), input |-> 1]>>
  /\ UNCHANGED <<given, pass, next, graph, groups, refined, group, reported>>

\* Fault: a finished lane stays grey.
FinishLaneGrey ==
  /\ pass = "lanes" /\ stack # <<>>
  /\ LET top == Top(stack) IN
     /\ top.input > Len(circuit.ins[top.lane[1]])
     /\ stack' = Rest(stack)
  /\ UNCHANGED <<given, pass, next, graph, groups, refined, group, color,
                 reported>>

\* Fault: a finished lane becomes white again.
FinishLaneWhite ==
  /\ pass = "lanes" /\ stack # <<>>
  /\ LET top == Top(stack) IN
     /\ top.input > Len(circuit.ins[top.lane[1]])
     /\ color' = [color EXCEPT ![top.lane] = 0]
     /\ stack' = Rest(stack)
  /\ UNCHANGED <<given, pass, next, graph, groups, refined, group, reported>>

\* Every input of the lane on top was followed.
FinishLane ==
  /\ pass = "lanes" /\ stack # <<>>
  /\ LET top == Top(stack) IN
     /\ top.input > Len(circuit.ins[top.lane[1]])
     /\ color' = [color EXCEPT ![top.lane] = 2]
     /\ stack' = Rest(stack)
  /\ UNCHANGED <<given, pass, next, graph, groups, refined, group, reported>>

\* One input of the lane on top, back to the lane that drives it.
FollowInput ==
  /\ pass = "lanes" /\ stack # <<>>
  /\ LET top   == Top(stack)
         moved == [stack EXCEPT ![Len(stack)].input = @ + 1]
         found == Producers(top.lane, top.input) \cap DOMAIN color
     IN
     /\ top.input <= Len(circuit.ins[top.lane[1]])
     /\ \/ /\ \A x \in found : color[x] = 2
           /\ stack' = moved
           /\ UNCHANGED <<pass, color, group, reported>>
        \/ \E x \in found :
             /\ color[x] = 0
             /\ color' = [color EXCEPT ![x] = 1]
             /\ stack' = Append(moved, [lane |-> x, input |-> 1])
             /\ UNCHANGED <<pass, group, reported>>
        \/ /\ \E x \in found : color[x] = 1
           /\ Report(group)
           /\ pass' = "refine" /\ stack' = <<>>
           /\ color' = <<>> /\ group' = {}
  /\ UNCHANGED <<given, next, graph, groups, refined>>

\* Every lane was met, and none closed a cycle.
EndGroup ==
  /\ pass = "lanes" /\ stack = <<>> /\ White = {}
  /\ pass' = "refine" /\ color' = <<>> /\ group' = {}
  /\ UNCHANGED <<given, next, stack, graph, groups, refined, reported>>

EndRefine ==
  /\ pass = "refine" /\ groups = refined
  /\ pass' = "done"
  /\ UNCHANGED <<given, next, stack, graph, groups, refined, group, color, reported>>

Next ==
  \/ BuildGraph \/ StartVisit \/ Visit \/ EndFinish
  \/ StartGroup \/ Collect \/ EndAssign
  \/ NextGroup \/ StartLane \/ FinishLane \/ FollowInput \/ EndGroup
  \/ EndRefine

Spec == Init /\ [][Next]_vars /\ WF_vars(Next)

-----------------------------------------------------------------------------
(***************************************************************************)
(* Properties.                                                             *)
(***************************************************************************)
(***************************************************************************)
(* References that need no search.  A component reaches another when no    *)
(* set closed under the edges separates them, and lanes lie on or lead to  *)
(* a cycle when each depends on another of them.                           *)
(***************************************************************************)
Reaches(c, d) ==
  \A S \in SUBSET Components :
    c \in S /\ (\A e \in S : adjacency[e] \subseteq S) => d \in S

Together(c) == {d \in Components : Reaches(c, d) /\ Reaches(d, c)}

DependsOn(x, y) ==
  \E i \in DOMAIN circuit.ins[x[1]] : y \in Producers(x, i)

Endless(lanes) == lanes # {} /\ \A x \in lanes : \E y \in lanes : DependsOn(x, y)
HasCycle(S)    == \E lanes \in SUBSET LanesOf(S) : Endless(lanes)

\* No group is reported, and so no circuit refused, that has no cycle of lanes:
\* buses whose slices only pass each other by are accepted.
ReportIsSound == pass = "done" => \A g \in reported : HasCycle(g)

\* Every cycle is reported, one diagnostic for each group that has one; what
\* the compiler accepts can be evaluated in some order.
ReportIsComplete ==
  pass = "done" =>
    \A c \in Components : HasCycle(Together(c)) => Together(c) \in reported

\* The three loops end.
SearchEnds == <>(pass = "done")
=============================================================================
