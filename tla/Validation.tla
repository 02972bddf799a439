----------------------------- MODULE Validation -----------------------------
(***************************************************************************)
(* The kernel's semantic validator (crates/jsonrtl/src/validation.rs,      *)
(* Kernel::validate): which diagnostics a document gets.  Documents come   *)
(* from the JSON parser or straight from a caller's typed model, so        *)
(* nothing but the types of the fields can be relied on.                   *)
(*                                                                         *)
(* Identifiers of ports, nets and components are numbers in the order of   *)
(* their strings.  A literal is told by whether it is a string, whether    *)
(* all its characters are binary digits, and its length.  A report is the  *)
(* set of the codes of its diagnostics.  The connectivity and cycle checks *)
(* are given here by the bits they are about; NetDrive and CycleSearch     *)
(* model how the code computes them from intervals.                        *)
(***************************************************************************)
EXTENDS Identifiers, FiniteSets, SequencesExt

CONSTANT Limits   \* KernelLimits

LimitNames == {"ports", "components", "nets", "string", "parameters", "width"}

ASSUME ValidationAssumption == Limits \in [LimitNames -> Nat]

(***************************************************************************)
(* A document is a record of its schema, name, ports, components and nets. *)
(* A component's connections map logical ports to connections, which are   *)
(* records [net, sliced, msb, lsb] with msb and lsb zero when the whole    *)
(* net is meant.                                                           *)
(***************************************************************************)

\* The component catalog.
Binary == {"AND", "OR", "XOR", "XNOR", "NAND", "NOR"}
Unary  == {"NOT", "BUFFER"}
InCatalog(c) == c.type \in Binary \cup Unary \cup {"CONST"}
Inputs(c)    == CASE c.type \in Binary -> {"A", "B"}
                  [] c.type \in Unary  -> {"A"}
                  [] c.type = "CONST"  -> {}
LogicalPorts(c) == Inputs(c) \cup {"Y"}
Required(c)     == IF c.type = "CONST" THEN {"value"} ELSE {}

When(condition, code) == IF condition THEN {code} ELSE {}
Warnings == {"NAME_REQUIRES_SANITIZATION", "NAME_VERILOG_KEYWORD",
             "NAME_SANITIZATION_COLLISION", "NET_UNUSED", "NET_NO_CONSUMERS"}
HasErrors(report) == ~(report \subseteq Warnings)

-----------------------------------------------------------------------------
(***************************************************************************)
(* DocumentIndex: the ids declared twice, and the nets declared once.      *)
(***************************************************************************)
Repeated(items) ==
  {items[i].id : i \in {i \in DOMAIN items :
                          \E j \in DOMAIN items \ {i} : items[j].id = items[i].id}}

NetIds(doc)     == {net.id : net \in ToSet(doc.nets)}
UniqueNets(doc) == {net \in ToSet(doc.nets) : net.id \notin Repeated(doc.nets)}
IsUnique(doc, id) == \E net \in UniqueNets(doc) : net.id = id
NetOf(doc, id)    == CHOOSE net \in UniqueNets(doc) : net.id = id

\* Connection::bits.
BitsOf(connection, width) ==
  IF ~connection.sliced THEN 0..width - 1
  ELSE IF connection.lsb > connection.msb \/ connection.msb >= width THEN {}
  ELSE connection.lsb..connection.msb

-----------------------------------------------------------------------------
\* Too many things, or too many parameters, or a wrong version: nothing else
\* is looked at.
Preflight(doc) ==
  LET counts == When(Len(doc.ports) > Limits.ports, "LIMIT_PORTS")
         \cup When(Len(doc.components) > Limits.components, "LIMIT_COMPONENTS")
         \cup When(Len(doc.nets) > Limits.nets, "LIMIT_NETS")
      parameters ==
        When(\E c \in ToSet(doc.components) :
               Cardinality(DOMAIN c.parameters) > Limits.parameters,
             "LIMIT_PARAMETERS")
  IN  (IF counts # {} THEN counts ELSE parameters)
        \cup When(doc.schema \notin {"1.0", "1.1"}, "SCHEMA_UNSUPPORTED_VERSION")

Identity(doc) ==
  When(Repeated(doc.components) # {}, "ID_DUPLICATE_COMPONENT")
    \cup When(Repeated(doc.nets) # {}, "ID_DUPLICATE_NET")
    \cup When(Repeated(doc.ports) # {}, "ID_DUPLICATE_PORT")
    \cup When(\E i, j \in DOMAIN doc.ports :
                i # j /\ doc.ports[i].name = doc.ports[j].name,
              "NAME_DUPLICATE_PORT")

NameErrors(name) ==
  When(Len(name) > Limits.string, "LIMIT_STRING_LENGTH")
    \cup IF IsBlank(name) THEN {"NAME_EMPTY"}
         ELSE IF HasControl(name) THEN {"NAME_INVALID"}
         ELSE When(Candidate(name) # name, "NAME_REQUIRES_SANITIZATION")
                \cup When(Stem(name) \in Keywords, "NAME_VERILOG_KEYWORD")

\* Two items of one kind sanitize to one text.
Collide(items) ==
  \E i, j \in DOMAIN items :
    i # j /\ Candidate(items[i].name) = Candidate(items[j].name)

\* Ports that have the very same name have their own error.
CollideUnlessSame(items) ==
  \E i, j \in DOMAIN items :
    /\ items[i].name # items[j].name
    /\ Candidate(items[i].name) = Candidate(items[j].name)

Names(doc) ==
  (UNION {NameErrors(item.name) :
            item \in {doc} \cup ToSet(doc.ports) \cup ToSet(doc.components)
                       \cup ToSet(doc.nets)})
    \cup When(\/ CollideUnlessSame(doc.ports)
              \/ Collide(doc.components) \/ Collide(doc.nets),
              "NAME_SANITIZATION_COLLISION")

Widths(doc) ==
  UNION {When(item.width = 0, "WIDTH_ZERO")
           \cup When(item.width > Limits.width, "WIDTH_EXCEEDS_LIMIT") :
         item \in ToSet(doc.ports) \cup ToSet(doc.components) \cup ToSet(doc.nets)}

-----------------------------------------------------------------------------
\* Fault: the width of a slice is not compared with its component's.
ConnectionWidthInRange(c, connection, net) ==
  IF connection.sliced
  THEN When(BitsOf(connection, net.width) = {}, "SLICE_OUT_OF_RANGE")
  ELSE When(c.width # net.width, "WIDTH_COMPONENT_NET_MISMATCH")

ConnectionWidth(c, connection, net) ==
  LET bits == BitsOf(connection, net.width)
  IN  IF connection.sliced /\ bits = {} THEN {"SLICE_OUT_OF_RANGE"}
      ELSE When(Cardinality(bits) # c.width, "WIDTH_COMPONENT_NET_MISMATCH")

ConnectedErrors(doc, c, connection) ==
  When(connection.net \notin NetIds(doc), "NET_UNKNOWN_REFERENCE")
    \cup (IF IsUnique(doc, connection.net)
          THEN ConnectionWidth(c, connection, NetOf(doc, connection.net))
          ELSE {})
    \cup When(connection.sliced /\ doc.schema # "1.1", "SLICE_REQUIRES_SCHEMA_1_1")

\* Fault: a missing connection is not an error.
ConnectionErrorsIfPresent(doc, c, port) ==
  IF port \in DOMAIN c.connections
  THEN ConnectedErrors(doc, c, c.connections[port]) ELSE {}

ConnectionErrors(doc, c, port) ==
  IF port \in DOMAIN c.connections
  THEN ConnectedErrors(doc, c, c.connections[port])
  ELSE {"COMPONENT_MISSING_CONNECTION"}

ConstErrors(c) ==
  LET literal == c.parameters["value"]
  IN  IF c.type # "CONST" \/ "value" \notin DOMAIN c.parameters THEN {}
      ELSE IF ~literal.string \/ literal.length = 0 \/ ~literal.binary
      THEN {"CONST_LITERAL_MALFORMED"}
      ELSE When(literal.length # c.width, "CONST_VALUE_WIDTH_MISMATCH")

ComponentErrors(doc, c) ==
  IF ~InCatalog(c) THEN {"COMPONENT_UNKNOWN_TYPE"}
  ELSE (UNION {ConnectionErrors(doc, c, port) : port \in LogicalPorts(c)})
    \cup When(DOMAIN c.connections \ LogicalPorts(c) # {},
              "COMPONENT_UNKNOWN_CONNECTION")
    \cup When(Required(c) \ DOMAIN c.parameters # {}, "COMPONENT_MISSING_PARAMETER")
    \cup When(DOMAIN c.parameters \ Required(c) # {}, "COMPONENT_UNKNOWN_PARAMETER")
    \cup ConstErrors(c)

PortErrors(doc, p) ==
  IF p.net \notin NetIds(doc) THEN {"NET_UNKNOWN_REFERENCE"}
  ELSE When(IsUnique(doc, p.net) /\ NetOf(doc, p.net).width # p.width,
            "WIDTH_PORT_NET_MISMATCH")

ReferencesAndCatalog(doc) ==
  (UNION {PortErrors(doc, p) : p \in ToSet(doc.ports)})
    \cup (UNION {ComponentErrors(doc, c) : c \in ToSet(doc.components)})

-----------------------------------------------------------------------------
(***************************************************************************)
(* Connectivity and cycles, bit by bit.                                    *)
(***************************************************************************)
\* The component ends on a net that cover some bit of it.
Touches(doc, net, i, port) ==
  LET c == doc.components[i]
  IN  /\ InCatalog(c) /\ c.id \notin Repeated(doc.components)
      /\ port \in LogicalPorts(c) \cap DOMAIN c.connections
      /\ c.connections[port].net = net.id
      /\ BitsOf(c.connections[port], net.width) # {}

PortEnds(doc, net, directions) ==
  {[at |-> <<"port", i>>, bits |-> 0..net.width - 1] :
     i \in {i \in DOMAIN doc.ports : /\ doc.ports[i].dir \in directions
                                     /\ doc.ports[i].net = net.id
                                     /\ doc.ports[i].id \notin Repeated(doc.ports)}}

ComponentEnds(doc, net, sides) ==
  {[at |-> e,
    bits |-> BitsOf(doc.components[e[2]].connections[e[1]], net.width)] :
     e \in {e \in sides \X DOMAIN doc.components : Touches(doc, net, e[2], e[1])}}

Drivers(doc, net) ==
  PortEnds(doc, net, {"input"}) \cup ComponentEnds(doc, net, {"Y"})
Consumers(doc, net) ==
  PortEnds(doc, net, {"output"}) \cup ComponentEnds(doc, net, {"A", "B"})

Contested(doc, net) ==
  \E e, f \in Drivers(doc, net) : e # f /\ e.bits \cap f.bits # {}

Connectivity(doc) ==
  UNION {LET drivers   == Drivers(doc, net)
             consumers == Consumers(doc, net)
             driven    == UNION {e.bits : e \in drivers}
         IN  When(Contested(doc, net), "NET_MULTIPLE_DRIVERS")
               \cup When(\E e \in consumers : ~(e.bits \subseteq driven),
                         "NET_NO_DRIVER")
               \cup When(consumers = {} /\ drivers = {}, "NET_UNUSED")
               \cup When(consumers = {} /\ drivers # {}, "NET_NO_CONSUMERS") :
         net \in UniqueNets(doc)}

WellFormed(doc) ==
  {c \in ToSet(doc.components) :
     /\ c.width \in 1..Limits.width
     /\ InCatalog(c)
     /\ \A port \in LogicalPorts(c) :
          /\ port \in DOMAIN c.connections
          /\ IsUnique(doc, c.connections[port].net)
          /\ LET net == NetOf(doc, c.connections[port].net)
             IN  /\ net.width \in 1..Limits.width
                 /\ Cardinality(BitsOf(c.connections[port], net.width)) = c.width}

\* Lane k of c reads what lane m of d drives, through a net with one driver
\* for each bit.
LaneFeeds(d, m, c, k) ==
  \E port \in Inputs(c) :
    /\ c.connections[port].net = d.connections["Y"].net
    /\ c.connections[port].lsb + k = d.connections["Y"].lsb + m

Cycles(doc) ==
  LET gates == {c \in WellFormed(doc) :
                  ~Contested(doc, NetOf(doc, c.connections["Y"].net))}
      lanes == UNION {{c} \X (0..c.width - 1) : c \in gates}
      Ring(S) == S # {} /\ \A x \in S : \E y \in S : LaneFeeds(y[1], y[2], x[1], x[2])
  IN  When(/\ Repeated(doc.components) = {} /\ Repeated(doc.nets) = {}
           /\ \E S \in SUBSET lanes : Ring(S), "GRAPH_COMBINATIONAL_CYCLE")

-----------------------------------------------------------------------------
Report(doc) ==
  IF Preflight(doc) # {} THEN Preflight(doc)
  ELSE Identity(doc) \cup Names(doc) \cup Widths(doc) \cup ReferencesAndCatalog(doc)
         \cup Connectivity(doc) \cup Cycles(doc)
=============================================================================
