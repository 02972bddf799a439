------------------------------- MODULE Parser --------------------------------
(***************************************************************************)
(* Reading a canonical document from JSON (crates/jsonrtl/src/parser.rs,   *)
(* CircuitDocument::from_json_with_limits): the version, the canonical     *)
(* schema, the typed model and the configured limits, in this order.       *)
(*                                                                         *)
(* The text is told by the document it stands for and by the notation of   *)
(* its numbers: "plain" when all are digits, and "fraction" when one is    *)
(* written as 1.0 is.  JSON Schema takes that for an integer, the          *)
(* typed model does not.  Text that is no JSON, that is too long, or that  *)
(* lacks fields, says nothing of a document and is left out.               *)
(***************************************************************************)
EXTENDS Validation

CONSTANT SchemaLimits   \* the maxima written in circuit-v1.schema.json

ASSUME ParserAssumption ==
  /\ SchemaLimits \in [LimitNames -> Nat]
  /\ \A limit \in LimitNames : Limits[limit] <= SchemaLimits[limit]

\* Fault: the nets are left out.
ItemsButNets(doc) == ToSet(doc.ports) \cup ToSet(doc.components)

Items(doc) == ToSet(doc.ports) \cup ToSet(doc.components) \cup ToSet(doc.nets)
Texts(doc) == {doc.name} \cup {item.name : item \in Items(doc)}

\* Too many things, too long a name or too wide an item.
Exceeds(doc, limits) ==
  \/ Len(doc.ports) > limits.ports
  \/ Len(doc.components) > limits.components
  \/ Len(doc.nets) > limits.nets
  \/ \E text \in Texts(doc) : Len(text) > limits.string
  \/ \E item \in Items(doc) : item.width > limits.width
  \/ \E c \in ToSet(doc.components) :
       Cardinality(DOMAIN c.parameters) > limits.parameters

\* limit_diagnostics
LimitErrors(doc) == Exceeds(doc, Limits)

\* What the canonical schema asks for beyond fields and types.
SchemaErrors(doc) ==
  \/ Exceeds(doc, SchemaLimits)
  \/ <<>> \in Texts(doc)
  \/ \E item \in Items(doc) : item.width = 0
  \/ \E c \in ToSet(doc.components) :
       ~InCatalog(c) \/ Cardinality(DOMAIN c.connections) > 3

\* from_json_with_limits: "ok", or the kind of the error.
Parse(doc, notation) ==
  IF doc.schema \notin {"1.0", "1.1"} THEN "version"
  ELSE IF SchemaErrors(doc) THEN "schema"
  ELSE IF notation = "fraction" THEN "deserialization"
  ELSE IF LimitErrors(doc) THEN "limits"
  ELSE "ok"
=============================================================================
