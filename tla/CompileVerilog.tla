--------------------------- MODULE CompileVerilog ---------------------------
(***************************************************************************)
(* Kernel::compile_verilog (crates/jsonrtl/src/compiler.rs): a document    *)
(* is validated, normalized (ir.rs) and written out as Verilog, line by    *)
(* line, with a source map.  It comes from a caller's typed model, or is   *)
(* read from JSON first.                                                   *)
(*                                                                         *)
(* A line of the output is a record of what it says: its form, the name it *)
(* declares, or the operands of an assignment.  The gate's operator is     *)
(* left out.                                                               *)
(***************************************************************************)
EXTENDS Parser

CONSTANT Documents   \* the documents that may be compiled

\* Of the types of their fields, what the proofs use.
ASSUME DocumentsAssumption ==
  \A doc \in Documents :
    /\ doc.ports \in Seq(ToSet(doc.ports))
    /\ doc.components \in Seq(ToSet(doc.components))
    /\ doc.nets \in Seq(ToSet(doc.nets))
    /\ Texts(doc) \subseteq Seq(Plain \cup Others)
    /\ \A item \in Items(doc) : item.width \in Nat
    /\ \A p \in ToSet(doc.ports) : p.dir \in {"input", "output"}
    /\ \A c \in ToSet(doc.components) :
         /\ IsFiniteSet(DOMAIN c.parameters)
         /\ \A port \in DOMAIN c.connections :
              /\ c.connections[port].sliced \in BOOLEAN
              /\ {c.connections[port].msb, c.connections[port].lsb} \subseteq Nat

VARIABLES
  document,  \* the document
  notation,  \* how its text writes numbers, or "typed" if there is no text
  stage,     \* what is done next
  todo,      \* positions of the items that this stage has still to take
  used,      \* the texts that the allocator has given
  names,     \* <<kind, id>> -> the identifier of that item
  lines,     \* the lines written
  entries,   \* the source map
  result     \* "none", "rejected", "internal", "compiled", or how reading failed

input == <<document, notation>>
vars  == <<input, stage, todo, used, names, lines, entries, result>>

-----------------------------------------------------------------------------
Init ==
  /\ document \in Documents
  /\ \/ stage = "validate" /\ notation = "typed"
     \/ stage = "read" /\ notation = "plain"
     \/ stage = "read" /\ notation = "fraction" /\ Items(document) # {}
  /\ result = "none"
  /\ todo = {} /\ used = {} /\ names = <<>>
  /\ lines = <<>> /\ entries = {}

Stop(outcome) ==
  stage' = "done" /\ result' = outcome /\ todo' = {}

\* load_document: what cannot be read goes no further.
Read ==
  LET outcome == Parse(document, notation) IN
  /\ stage = "read"
  /\ IF outcome = "ok"
     THEN stage' = "validate" /\ notation' = "typed" /\ UNCHANGED <<result, todo>>
     ELSE Stop(outcome) /\ UNCHANGED notation
  /\ UNCHANGED <<document, used, names, lines, entries>>

\* Errors block all output; warnings do not.
Reject ==
  /\ stage = "validate" /\ HasErrors(Report(document))
  /\ Stop("rejected")
  /\ UNCHANGED <<input, used, names, lines, entries>>

-----------------------------------------------------------------------------
(***************************************************************************)
(* Normalization: identifiers are given to the module, the ports, the nets *)
(* and the components, in this order, and in each kind by id.              *)
(***************************************************************************)
GiveName(key, name) ==
  \E text \in Offers(name) :
    /\ Allocates(used, name, text)
    /\ used' = used \cup {text}
    /\ names' = [k \in DOMAIN names \cup {key} |->
                   IF k = key THEN text ELSE names[k]]

Module == <<"module", 0>>

NameModule ==
  /\ stage = "validate" /\ ~HasErrors(Report(document))
  /\ GiveName(Module, document.name)
  /\ stage' = "name ports" /\ todo' = DOMAIN document.ports
  /\ UNCHANGED <<input, lines, entries, result>>

\* The item that a stage takes next: the one of those left with the least id.
IsNext(items, i) ==
  i \in todo /\ \A j \in todo : items[i].id <= items[j].id

NameItem(kind, items) ==
  \E i \in DOMAIN items :
    /\ IsNext(items, i)
    /\ GiveName(<<kind, items[i].id>>, items[i].name)
    /\ todo' = todo \ {i}
    /\ UNCHANGED <<input, stage, lines, entries, result>>

NamePort      == stage = "name ports" /\ NameItem("port", document.ports)
NameNet       == stage = "name nets" /\ NameItem("net", document.nets)
NameComponent ==
  stage = "name components" /\ NameItem("component", document.components)

EndNaming ==
  /\ todo = {}
  /\ \/ /\ stage = "name ports"
        /\ stage' = "name nets" /\ todo' = DOMAIN document.nets
     \/ /\ stage = "name nets"
        /\ stage' = "name components" /\ todo' = DOMAIN document.components
     \/ /\ stage = "name components"
        /\ stage' = "normalize" /\ UNCHANGED todo
  /\ UNCHANGED <<input, used, names, lines, entries, result>>

\* What normalize needs of each port and component.
PortResolves(p) == <<"net", p.net>> \in DOMAIN names

ComponentResolves(c) ==
  /\ InCatalog(c)
  /\ \A port \in LogicalPorts(c) :
       /\ port \in DOMAIN c.connections
       /\ <<"net", c.connections[port].net>> \in DOMAIN names
  /\ c.type = "CONST" =>
       "value" \in DOMAIN c.parameters /\ c.parameters["value"].string

\* What the emitter itself would refuse (a missing connection, an unknown
\* type, a constant without a value) is refused here already.
Normalize ==
  /\ stage = "normalize"
  /\ IF /\ \A p \in ToSet(document.ports) : PortResolves(p)
        /\ \A c \in ToSet(document.components) : ComponentResolves(c)
     THEN stage' = "header" /\ UNCHANGED <<todo, result>>
     ELSE Stop("internal")
  /\ UNCHANGED <<input, used, names, lines, entries>>

-----------------------------------------------------------------------------
(***************************************************************************)
(* Emission.  LineEmitter numbers the lines from one.                      *)
(***************************************************************************)
Blank == [form |-> "blank"]

\* A range is written only for a width other than one.
Declaration(form, key, width) ==
  [form |-> form, name |-> names[key], width |-> width, vector |-> width # 1]

Whole(name) == [name |-> name, select |-> <<>>]

Operand(connection) ==
  [name   |-> names[<<"net", connection.net>>],
   select |-> IF connection.sliced THEN <<connection.msb, connection.lsb>>
              ELSE <<>>]

\* The port list of the header, in order of id.
PortNames ==
  LET order == SortSeq(document.ports, LAMBDA p, q : p.id < q.id)
  IN  [i \in DOMAIN document.ports |->
         [form |-> "header port", name |-> names[<<"port", order[i].id>>]]]

HeaderLines ==
  <<[form |-> "module", name |-> names[Module]]>>
    \o IF document.ports = <<>> THEN <<>> ELSE PortNames \o <<[form |-> ");"]>>

\* A source map entry; zero stands for a reference that is absent.
Entry(kind, first, last, port, net, component, key) ==
  [kind |-> kind, first |-> first, last |-> last, port |-> port, net |-> net,
   component |-> component, name |-> names[key]]

\* Fault: the header is taken for one line.
HeaderEntryOneLine == Entry("module", 1, 1, 0, 0, 0, Module)

HeaderEntry == Entry("module", 1, Len(HeaderLines), 0, 0, 0, Module)

EmitHeader ==
  /\ stage = "header"
  /\ lines' = HeaderLines \o <<Blank>>
  /\ entries' = {HeaderEntry}
  /\ stage' = "ports" /\ todo' = DOMAIN document.ports
  /\ UNCHANGED <<input, used, names, result>>

\* Item i of this stage is written as one line.
EmitLine(i, line) ==
  /\ lines' = Append(lines, line)
  /\ todo' = todo \ {i}
  /\ UNCHANGED <<input, stage, used, names, result>>

Here == Len(lines) + 1

DeclarePort ==
  /\ stage = "ports"
  /\ \E i \in DOMAIN document.ports :
       LET p == document.ports[i]
       IN  /\ IsNext(document.ports, i)
           /\ EmitLine(i, Declaration(p.dir, <<"port", p.id>>, p.width))
           /\ entries' = entries \cup
                {Entry("port", Here, Here, p.id, 0, 0, <<"port", p.id>>)}

DeclareNet ==
  /\ stage = "nets"
  /\ \E i \in DOMAIN document.nets :
       LET n == document.nets[i]
       IN  /\ IsNext(document.nets, i)
           /\ EmitLine(i, Declaration("net", <<"net", n.id>>, n.width))
           /\ entries' = entries \cup
                {Entry("net", Here, Here, 0, n.id, 0, <<"net", n.id>>)}

Assignment(left, right, bits) ==
  [form |-> "assign", left |-> left, right |-> right, bits |-> bits]

\* Fault: the sides are swapped.
BoundarySwapped(p) ==
  LET port == Whole(names[<<"port", p.id>>])
      net  == Whole(names[<<"net", p.net>>])
  IN  IF p.dir = "input" THEN Assignment(port, {net}, 0)
      ELSE Assignment(net, {port}, 0)

Boundary(p) ==
  LET port == Whole(names[<<"port", p.id>>])
      net  == Whole(names[<<"net", p.net>>])
  IN  IF p.dir = "input" THEN Assignment(net, {port}, 0)
      ELSE Assignment(port, {net}, 0)

AssignBoundary ==
  /\ stage = "boundary"
  /\ \E i \in DOMAIN document.ports :
       LET p == document.ports[i]
       IN  /\ IsNext(document.ports, i)
           /\ EmitLine(i, Boundary(p))
           /\ entries' = entries \cup
                {Entry("boundary", Here, Here, p.id, p.net, 0, <<"port", p.id>>)}

\* A literal has the digits of the parameter behind the component's width;
\* `bits` counts its digits and is zero for a gate.
Gate(c) ==
  Assignment(Operand(c.connections["Y"]),
             {Operand(c.connections[port]) : port \in Inputs(c)},
             IF c.type = "CONST" THEN c.parameters["value"].length ELSE 0)

AssignComponent ==
  /\ stage = "components"
  /\ \E i \in DOMAIN document.components :
       LET c == document.components[i]
       IN  /\ IsNext(document.components, i)
           /\ EmitLine(i, Gate(c))
           /\ entries' = entries \cup
                {Entry("component", Here, Here, 0, c.connections["Y"].net, c.id,
                       <<"component", c.id>>)}

\* A blank line parts the sections.
EndSection ==
  /\ todo = {}
  /\ \/ /\ stage = "ports"
        /\ stage' = "nets" /\ todo' = DOMAIN document.nets
     \/ /\ stage = "nets"
        /\ stage' = "boundary" /\ todo' = DOMAIN document.ports
     \/ /\ stage = "boundary"
        /\ stage' = "components" /\ todo' = DOMAIN document.components
  /\ lines' = Append(lines, Blank)
  /\ UNCHANGED <<input, used, names, entries, result>>

Finish ==
  /\ stage = "components" /\ todo = {}
  /\ lines' = lines \o <<Blank, [form |-> "endmodule"]>>
  /\ Stop("compiled")
  /\ UNCHANGED <<input, used, names, entries>>

Done == stage = "done" /\ UNCHANGED vars

CompileStep ==
  \/ Read \/ Reject \/ NameModule \/ NamePort \/ NameNet \/ NameComponent \/ EndNaming
  \/ Normalize \/ EmitHeader \/ DeclarePort \/ DeclareNet \/ AssignBoundary
  \/ AssignComponent \/ EndSection \/ Finish

Next == CompileStep \/ Done

Spec == Init /\ [][Next]_vars

-----------------------------------------------------------------------------
(***************************************************************************)
(* Properties.  Four of them read the lines as Verilog reads them: what a *)
(* name means is found through its text.                                   *)
(***************************************************************************)
LimitCodes ==
  {"LIMIT_PORTS", "LIMIT_COMPONENTS", "LIMIT_NETS", "LIMIT_PARAMETERS",
   "LIMIT_STRING_LENGTH", "WIDTH_EXCEEDS_LIMIT"}
DefectCodes == {"SCHEMA_UNSUPPORTED_VERSION", "WIDTH_ZERO", "COMPONENT_UNKNOWN_TYPE"}

\* The parser and the validator have checks of their own for the same bounds.
\* What the validator accepts can be read back when it is written out; what was
\* read is within every bound and of a known version and types; and what is
\* refused for a limit the validator would have refused for one.
ReaderAndValidatorAgree ==
  LET outcome == Parse(document, "plain")
      report  == Report(document)
  IN  stage = "read" =>
        /\ ~HasErrors(report) => outcome = "ok"
        /\ outcome = "ok" => report \cap (LimitCodes \cup DefectCodes) = {}
        /\ outcome = "limits" => report \cap LimitCodes # {}

\* Whatever the display names, no two items get one identifier, across the
\* module, ports, nets and components, and each is a plain Verilog identifier
\* that is no keyword (IdentifierAllocator::allocate).
NamesSafeAndDistinct ==
  /\ \A key \in DOMAIN names : IsSafe(names[key])
  /\ \A key, other \in DOMAIN names : names[key] = names[other] => key = other

Declarations == {n \in DOMAIN lines : lines[n].form \in {"input", "output", "net"}}
Assignments  == {n \in DOMAIN lines : lines[n].form = "assign"}

DeclarationOf(name) == CHOOSE n \in Declarations : lines[n].name = name

BitsRead(operand) ==
  IF operand.select = <<>> THEN 0..lines[DeclarationOf(operand.name)].width - 1
  ELSE operand.select[2]..operand.select[1]

Operands(n) == {lines[n].left} \cup lines[n].right

\* Every name in the output is declared once, every operand lies within its
\* declaration, and the two sides of an assignment have one width: what the
\* validator checks on the document's nets, ports and slices is enough for
\* what emit_verilog writes.
OutputIsWellFormed ==
  result = "compiled" =>
    /\ \A m, n \in Declarations : lines[m].name = lines[n].name => m = n
    /\ \A n \in Assignments : \A operand \in Operands(n) :
         /\ \E m \in Declarations :
              /\ lines[m].name = operand.name
              /\ BitsRead(operand) \subseteq 0..lines[m].width - 1
         /\ BitsRead(operand) # {}
         /\ Cardinality(BitsRead(operand)) = Cardinality(BitsRead(lines[n].left))
         /\ lines[n].bits \in {0, Cardinality(BitsRead(operand))}

AssignmentsTo(name, bit) ==
  {n \in Assignments :
     lines[n].left.name = name /\ bit \in BitsRead(lines[n].left)}

IsRead(name, bit) ==
  \E n \in Assignments : \E operand \in lines[n].right :
    operand.name = name /\ bit \in BitsRead(operand)

\* In the output no bit is assigned twice, an input is never assigned, and
\* every bit of an output, and every bit of a net that is read, is assigned
\* (validate_electrical_roles against emit_verilog).
ReadBitsDrivenOnce ==
  result = "compiled" =>
    \A m \in Declarations : \A bit \in 0..lines[m].width - 1 :
      LET drivers == AssignmentsTo(lines[m].name, bit)
      IN  IF lines[m].form = "input" THEN drivers = {}
          ELSE /\ Cardinality(drivers) <= 1
               /\ lines[m].form = "output" \/ IsRead(lines[m].name, bit)
                    => drivers # {}

\* The line that a source map entry points at is the line of its item.
Shows(entry, line) ==
  CASE entry.kind = "module" -> line.form \in {"module", "header port", ");"}
    [] entry.kind = "port"   -> /\ line.form \in {"input", "output"}
                                /\ line.name = names[<<"port", entry.port>>]
    [] entry.kind = "net"    -> /\ line.form = "net"
                                /\ line.name = names[<<"net", entry.net>>]
    [] entry.kind = "boundary" ->
         /\ line.form = "assign"
         /\ {line.left} \cup line.right =
              {Whole(names[<<"port", entry.port>>]), Whole(names[<<"net", entry.net>>])}
    [] entry.kind = "component" ->
         /\ line.form = "assign"
         /\ \E c \in ToSet(document.components) :
              c.id = entry.component /\ line = Gate(c)

\* Line by line the source map points at what is there: every line but the
\* blank ones and the last belongs to exactly one entry, of the item that the
\* line was written for (LineEmitter, emit_verilog).
SourceMapExact ==
  /\ \A n \in DOMAIN lines :
       Cardinality({e \in entries : n \in e.first..e.last})
         = IF lines[n].form \in {"blank", "endmodule"} THEN 0 ELSE 1
  /\ \A e \in entries : \A n \in e.first..e.last :
       n \in DOMAIN lines /\ Shows(e, lines[n])

\* The output is Verilog-2001, in which only a vector has bits to select
\* ("Validates, normalizes, and emits deterministic synthesizable
\* Verilog-2001", compiler.rs:84).
SelectsAreOfVectors ==
  \A n \in Assignments : \A operand \in Operands(n) :
    operand.select # <<>> => lines[DeclarationOf(operand.name)].vector
=============================================================================
