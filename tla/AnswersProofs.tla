---------------------------- MODULE AnswersProofs ----------------------------
(***************************************************************************)
(* Proofs about CompileVerilog and Answers, for every set of documents,    *)
(* every alphabet and keyword list that meets IdentifiersAssumption, and   *)
(* all limits.                                                             *)
(***************************************************************************)
EXTENDS Answers, FiniteSetTheorems, TLAPS

-----------------------------------------------------------------------------
(* The identifier policy.                                                  *)

Text == Seq(Plain \cup Others)

\* The characters that the policy itself writes, as values like any other.
Under == "_"
En    == "n"
IdEnd  == <<"_", "i", "d">>

LEMMA Characters ==
  /\ Digits \cap Starters = {} /\ Plain = Starters \cup Digits
  /\ Under \in Starters /\ En \in Starters
  /\ IdEnd \in Seq(Plain) /\ Unnamed \in Seq(Plain) /\ Unnamed # <<>>
  /\ \A n \in 2..MaxSuffix : DigitChars[n + 1] \in Digits
<1>1. Digits \cap Starters = {} /\ Plain = Starters \cup Digits
  BY IdentifiersAssumption DEF Plain
<1>2. {"n", "u", "a", "m", "e", "d", "i", "_"} \subseteq Starters
  BY IdentifiersAssumption DEF Starters
<1>3. DOMAIN DigitChars = 1..10
  BY DEF DigitChars
<1>4. \A n \in 2..MaxSuffix : n + 1 \in 1..10
  BY DEF MaxSuffix
<1>5. \A a, b, c \in Plain : <<a, b, c>> \in Seq(Plain)
  OBVIOUS
<1>6. \A a, b, c, d, e, f \in Plain : <<a, b, b, c, d, e, f>> \in Seq(Plain)
  OBVIOUS
<1>7. "_" \in Plain /\ "i" \in Plain /\ "d" \in Plain
  BY <1>1, <1>2
<1>8. "u" \in Plain /\ "n" \in Plain /\ "a" \in Plain /\ "m" \in Plain /\ "e" \in Plain
  BY <1>1, <1>2
<1>9. IdEnd \in Seq(Plain)
  BY <1>5, <1>7, Zenon DEF IdEnd
<1>10. Unnamed \in Seq(Plain)
  BY <1>6, <1>7, <1>8, Zenon DEF Unnamed
<1>11. Unnamed # <<>>
  BY DEF Unnamed
<1>12. QED
  BY <1>1, <1>2, <1>3, <1>4, <1>9, <1>10, <1>11 DEF Digits, Under, En

\* Whatever the name, its stem is a word of plain characters that does not begin
\* with a digit.
LEMMA StemIsPlain ==
  ASSUME NEW name \in Text
  PROVE  Stem(name) \in Seq(Plain) /\ Len(Stem(name)) > 0 /\ Stem(name)[1] \in Starters
<1> DEFINE text == IF name = <<>> THEN Unnamed ELSE Cleaned(name)
<1>1. text \in Seq(Plain) /\ Len(text) > 0
  <2>1. CASE name = <<>>
    BY <2>1, Characters
  <2>2. CASE name # <<>>
    <3>1. /\ DOMAIN Cleaned(name) = 1..Len(name) /\ Len(name) \in Nat /\ Len(name) > 0
          /\ \A i \in 1..Len(name) : Cleaned(name)[i] \in Plain
      <4>1. Len(name) \in Nat /\ Len(name) > 0 /\ DOMAIN name = 1..Len(name)
        BY <2>2 DEF Text
      <4>2. "_" \in Plain
        BY Characters DEF Under
      <4>3. QED
        BY <4>1, <4>2 DEF Cleaned
    <3>2. Cleaned(name) \in [1..Len(name) -> Plain]
      BY <3>1 DEF Cleaned, Text
    <3>3. QED
      BY <2>2, <3>1, <3>2
  <2>3. QED
    BY <2>1, <2>2
<1>2. CASE text[1] \in Digits
  <2>1. Stem(name) = <<En, Under>> \o text
    BY <1>2 DEF Stem, En, Under
  <2> HIDE DEF text
  <2>2. QED
    BY <1>1, <2>1, Characters
<1>3. CASE text[1] \notin Digits
  <2>1. Stem(name) = text /\ text[1] \in Plain
    BY <1>1, <1>3 DEF Stem
  <2>2. QED
    BY <1>1, <1>3, <2>1, Characters
<1>4. QED
  BY <1>2, <1>3

\* The candidate for a name is an identifier that is no keyword, ...
LEMMA CandidateIsSafe ==
  ASSUME NEW name \in Text
  PROVE  /\ Candidate(name) \in Seq(Plain) /\ Len(Candidate(name)) > 0
         /\ Candidate(name)[1] \in Starters
         /\ Candidate(name) \notin Keywords
<1>1. Stem(name) \in Seq(Plain) /\ Len(Stem(name)) > 0 /\ Stem(name)[1] \in Starters
  BY StemIsPlain
<1>2. CASE Stem(name) \in Keywords
  <2>1. Candidate(name) = Stem(name) \o IdEnd
    BY <1>2 DEF Candidate, IdEnd
  <2>2. Candidate(name) \notin Keywords
    BY <1>2, <2>1, IdentifiersAssumption DEF IdEnd
  <2>3. QED
    BY <1>1, <2>1, <2>2, Characters
<1>3. CASE Stem(name) \notin Keywords
  BY <1>1, <1>3 DEF Candidate
<1>4. QED
  BY <1>2, <1>3

\* ... and so is every suffixed form of one.
LEMMA OffersAreSafe ==
  ASSUME NEW name \in Text, NEW text \in Offers(name)
  PROVE  IsSafe(text)
<1> DEFINE base == Candidate(name)
<1>1. /\ base \in Seq(Plain) /\ Len(base) > 0 /\ base[1] \in Starters
      /\ base \notin Keywords
  BY CandidateIsSafe
<1> HIDE DEF base
<1>2. CASE text = base
  BY <1>1, <1>2 DEF IsSafe
<1>3. ASSUME NEW n \in 2..MaxSuffix, text = Suffixed(base, n)
      PROVE  IsSafe(text)
  <2>1. PICK digit \in Plain : text = base \o <<Under, Under, digit>>
    BY <1>3, Characters DEF Suffixed, Under
  <2>2. /\ text \in Seq(Plain) /\ Len(text) = Len(base) + 3 /\ text[1] = base[1]
        /\ text[Len(base) + 1] = Under /\ text[Len(base) + 2] = Under
    BY <1>1, <2>1, Characters
  <2>3. \A k \in Keywords : \A i \in 1..Len(k) - 1 : k[i] # Under \/ k[i + 1] # Under
    BY IdentifiersAssumption DEF Under
  <2>4. text \notin Keywords
    BY <1>1, <2>2, <2>3
  <2>5. QED
    BY <1>1, <2>2, <2>4 DEF IsSafe
<1>4. QED
  BY <1>2, <1>3 DEF Offers, base
-----------------------------------------------------------------------------
(* Names.                                                                  *)

\* The allocator has given every identifier, and each to one item.
Naming ==
  /\ \A key \in DOMAIN names : names[key] \in used /\ IsSafe(names[key])
  /\ \A key, other \in DOMAIN names : names[key] = names[other] => key = other

LEMMA GiveNameKeepsNaming ==
  ASSUME Naming, NEW key, NEW name \in Text, GiveName(key, name)
  PROVE  Naming' /\ DOMAIN names' = DOMAIN names \cup {key}
<1>1. PICK text \in Offers(name) :
        /\ Allocates(used, name, text)
        /\ used' = used \cup {text}
        /\ names' = [k \in DOMAIN names \cup {key} |->
                       IF k = key THEN text ELSE names[k]]
  BY DEF GiveName
<1>2. text \notin used
  BY <1>1 DEF Allocates
<1>3. IsSafe(text)
  BY OffersAreSafe
<1>4. \A k \in DOMAIN names : names[k] # text
  BY <1>2 DEF Naming
<1>5. QED
  BY <1>1, <1>3, <1>4 DEF Naming

LEMMA NamesAreTexts ==
  ASSUME document \in Documents
  PROVE  /\ document.name \in Text
         /\ \A items \in {document.ports, document.nets, document.components} :
              \A i \in DOMAIN items : items[i].name \in Text
<1>1. Texts(document) \subseteq Text
  BY DocumentsAssumption DEF Text
<1>2. QED
  BY <1>1 DEF Texts, Items, ToSet

\* A step leaves the names alone or gives one.
LEMMA WhatNames ==
  ASSUME document \in Documents, [AnswersNext]_allVars
  PROVE  \/ UNCHANGED <<used, names>>
         \/ \E key, name : name \in Text /\ GiveName(key, name)
<1>1. CASE NameModule
  BY <1>1, NamesAreTexts DEF NameModule
<1>2. ASSUME NEW kind, NEW items \in {document.ports, document.nets, document.components},
             NameItem(kind, items)
      PROVE  \E key, name : name \in Text /\ GiveName(key, name)
  BY <1>2, NamesAreTexts DEF NameItem
<1>3. CASE NamePort \/ NameNet \/ NameComponent
  BY <1>2, <1>3 DEF NamePort, NameNet, NameComponent
<1>4. CASE Read \/ Reject \/ EndNaming \/ Normalize \/ EmitHeader \/ EndSection \/ Finish
  BY <1>4 DEF Read, Reject, EndNaming, Normalize, EmitHeader, EndSection, Finish
<1>5. CASE DeclarePort \/ DeclareNet \/ AssignBoundary \/ AssignComponent
  BY <1>5 DEF DeclarePort, DeclareNet, AssignBoundary, AssignComponent, EmitLine
<1>6. CASE Refuse \/ Judge \/ AllDone \/ UNCHANGED allVars
  BY <1>6 DEF Refuse, Judge, AllDone, allVars, vars
<1>7. QED
  BY <1>1, <1>3, <1>4, <1>5, <1>6 DEF AnswersNext, Compile, CompileStep

LEMMA DocumentStays ==
  ASSUME [AnswersNext]_allVars
  PROVE  UNCHANGED document
<1>1. CASE NameModule \/ NamePort \/ NameNet \/ NameComponent
  BY <1>1 DEF NameModule, NamePort, NameNet, NameComponent, NameItem, input
<1>2. CASE Read \/ Reject \/ EndNaming \/ Normalize \/ EmitHeader \/ EndSection \/ Finish
  BY <1>2 DEF Read, Reject, EndNaming, Normalize, EmitHeader, EndSection, Finish, input
<1>3. CASE DeclarePort \/ DeclareNet \/ AssignBoundary \/ AssignComponent
  BY <1>3 DEF DeclarePort, DeclareNet, AssignBoundary, AssignComponent, EmitLine, input
<1>4. CASE Refuse \/ Judge \/ AllDone \/ UNCHANGED allVars
  BY <1>4 DEF Refuse, Judge, AllDone, allVars, vars, input
<1>5. QED
  BY <1>1, <1>2, <1>3, <1>4 DEF AnswersNext, Compile, CompileStep

\* Whatever the display names, two items never get one identifier, and each is a
\* plain Verilog identifier that is no keyword (IdentifierAllocator::allocate).
THEOREM SafeAndDistinct == AnswersSpec => []NamesSafeAndDistinct
<1>1. AnswersInit => document \in Documents /\ Naming
  BY DEF AnswersInit, Init, Naming
<1>2. ASSUME document \in Documents, Naming, [AnswersNext]_allVars
      PROVE  (document \in Documents /\ Naming)'
  <2>1. CASE UNCHANGED <<used, names>>
    BY <1>2, <2>1, DocumentStays DEF Naming
  <2>2. CASE \E key, name : name \in Text /\ GiveName(key, name)
    BY <1>2, <2>2, GiveNameKeepsNaming, DocumentStays
  <2>3. QED
    BY <1>2, <2>1, <2>2, WhatNames
<1>3. Naming => NamesSafeAndDistinct
  BY DEF Naming, NamesSafeAndDistinct
<1>4. QED
  BY <1>1, <1>2, <1>3, PTL DEF AnswersSpec
-----------------------------------------------------------------------------
(* What the validator accepts, normalization does not refuse.              *)

\* Each check of the validator that normalization relies on.
LEMMA AcceptedIsChecked ==
  ASSUME NEW doc, ~HasErrors(Report(doc))
  PROVE  /\ \A p \in ToSet(doc.ports) : PortErrors(doc, p) \subseteq Warnings
         /\ \A c \in ToSet(doc.components) : ComponentErrors(doc, c) \subseteq Warnings
<1>1. Preflight(doc) \cap Warnings = {}
  BY DEF Preflight, When, Warnings
<1>2. Preflight(doc) = {}
  BY <1>1 DEF Report, HasErrors
<1>3. ReferencesAndCatalog(doc) \subseteq Warnings
  BY <1>2 DEF Report, HasErrors
<1>4. QED
  BY <1>3 DEF ReferencesAndCatalog

LEMMA ConnectedNetIsDeclared ==
  ASSUME NEW doc, NEW c, NEW port, ConnectionErrors(doc, c, port) \subseteq Warnings
  PROVE  /\ port \in DOMAIN c.connections
         /\ c.connections[port].net \in NetIds(doc)
<1>1. port \in DOMAIN c.connections
  BY DEF ConnectionErrors, Warnings
<1>2. When(c.connections[port].net \notin NetIds(doc), "NET_UNKNOWN_REFERENCE") \subseteq Warnings
  BY <1>1 DEF ConnectionErrors, ConnectedErrors
<1>3. QED
  BY <1>1, <1>2 DEF When, Warnings

\* Every net has its identifier when normalization looks at ports and components.
NetsNamed == \A i \in DOMAIN document.nets : <<"net", document.nets[i].id>> \in DOMAIN names

\* For every document that the validator accepts, normalize resolves every net of every
\* port and connection, every type and every constant, whose rules are written once more
\* there (ir.rs: normalize).
THEOREM AcceptedNormalizes ==
  ASSUME ~HasErrors(Report(document)), NetsNamed
  PROVE  /\ \A p \in ToSet(document.ports) : PortResolves(p)
         /\ \A c \in ToSet(document.components) : ComponentResolves(c)
<1>1. \A id \in NetIds(document) : <<"net", id>> \in DOMAIN names
  BY DEF NetsNamed, NetIds, ToSet
<1>2. ASSUME NEW p \in ToSet(document.ports)
      PROVE  PortResolves(p)
  <2>1. PortErrors(document, p) \subseteq Warnings
    BY AcceptedIsChecked
  <2>2. p.net \in NetIds(document)
    BY <2>1 DEF PortErrors, Warnings
  <2>3. QED
    BY <1>1, <2>2 DEF PortResolves
<1>3. ASSUME NEW c \in ToSet(document.components)
      PROVE  ComponentResolves(c)
  <2>1. ComponentErrors(document, c) \subseteq Warnings
    BY AcceptedIsChecked
  <2>2. InCatalog(c)
    BY <2>1 DEF ComponentErrors, Warnings
  <2> DEFINE connected == UNION {ConnectionErrors(document, c, port) : port \in LogicalPorts(c)}
             missing   == When(Required(c) \ DOMAIN c.parameters # {},
                               "COMPONENT_MISSING_PARAMETER")
  <2>3. connected \subseteq Warnings /\ missing \subseteq Warnings
          /\ ConstErrors(c) \subseteq Warnings
    <3>1. \E other : ComponentErrors(document, c)
                      = connected \cup other \cup missing \cup
                          When(DOMAIN c.parameters \ Required(c) # {},
                               "COMPONENT_UNKNOWN_PARAMETER")
                          \cup ConstErrors(c)
      BY <2>2 DEF ComponentErrors
    <3> HIDE DEF connected, missing
    <3>2. QED
      BY <2>1, <3>1
  <2>4. \A port \in LogicalPorts(c) : ConnectionErrors(document, c, port) \subseteq Warnings
    BY <2>3
  <2>5. \A port \in LogicalPorts(c) :
          /\ port \in DOMAIN c.connections
          /\ <<"net", c.connections[port].net>> \in DOMAIN names
    BY <1>1, <2>4, ConnectedNetIsDeclared
  <2>6. ASSUME c.type = "CONST"
        PROVE  "value" \in DOMAIN c.parameters /\ c.parameters["value"].string
    <3>1. "value" \in DOMAIN c.parameters
      BY <2>6, <2>3 DEF When, Warnings, Required
    <3>2. c.parameters["value"].string
      BY <2>6, <2>3, <3>1 DEF ConstErrors, Warnings
    <3>3. QED
      BY <3>1, <3>2
  <2>7. QED
    BY <2>2, <2>5, <2>6 DEF ComponentResolves
<1>4. QED
  BY <1>2, <1>3
-----------------------------------------------------------------------------
(* The way of a document through the compiler.                             *)

Underway == stage \notin {"read", "validate", "done"}

\* The nets are named one by one, and all of them before normalization.
NamesProgress ==
  /\ stage = "name nets" =>
       \A i \in DOMAIN document.nets \ todo :
         <<"net", document.nets[i].id>> \in DOMAIN names
  /\ stage \in {"name components", "normalize"} => NetsNamed

LinesProgress ==
  stage \in {"ports", "nets", "boundary", "components"} => \E S : lines \in Seq(S)

\* Only what was read and accepted gets beyond validation, and only if that was
\* asked for; what was understood is told by the text alone.
Understood ==
  /\ caller.fault \notin Unreadable(caller.by, caller.asks) \cup NoDocument
  /\ caller.by # "library" => Parse(document, caller.text) = "ok"

Callers ==
  /\ caller.by \in {"http", "cli", "library"} /\ caller.asks \in {"validate", "compile"}
  /\ caller.fault \in {"none"} \cup Amiss(caller.by, caller.asks)
  /\ caller.fault # "none" => caller.text # "fraction"
  /\ caller.by = "library" <=> caller.text = "typed"

Outcomes ==
  \/ /\ result = caller.fault
     /\ result \in Unreadable(caller.by, caller.asks) \cup NoDocument
  \/ /\ caller.fault \notin Unreadable(caller.by, caller.asks) \cup NoDocument
     /\ caller.by # "library"
     /\ result = Parse(document, caller.text) /\ result # "ok"
  \/ Understood /\ result = "rejected" /\ HasErrors(Report(document))
  \/ /\ Understood /\ ~HasErrors(Report(document))
     /\ caller.asks = "validate" /\ result = "valid"
  \/ /\ Understood /\ ~HasErrors(Report(document))
     /\ caller.asks = "compile" /\ result = "compiled"
     /\ lines[Len(lines)].form = "endmodule"

Answering ==
  /\ Callers
  /\ stage = "read" => caller.by # "library" /\ notation = caller.text
  /\ stage \notin {"read", "done"} => Understood
  /\ Underway => caller.asks = "compile" /\ ~HasErrors(Report(document))
  /\ stage = "done" => Outcomes

IInv ==
  /\ document \in Documents
  /\ NamesProgress
  /\ LinesProgress
  /\ Answering

LEMMA InitIInv == AnswersInit => IInv
<1> SUFFICES ASSUME AnswersInit PROVE IInv
  OBVIOUS
<1> USE DEF AnswersInit, Init
<1>1. document \in Documents /\ NamesProgress /\ LinesProgress
  BY DEF NamesProgress, LinesProgress
<1>2. Callers
  BY DEF Callers
<1>3. stage = "read" => caller.by # "library" /\ notation = caller.text
  OBVIOUS
<1>4. stage = "validate" => Understood
  BY DEF Understood, Amiss, Unreadable, Afterwards, NoDocument
<1>5. QED
  BY <1>1, <1>2, <1>3, <1>4 DEF IInv, Answering, Underway

\* The actions of naming, and what they do to the domain of `names`.
LEMMA GiveNameAdds ==
  ASSUME NEW key, NEW name, GiveName(key, name)
  PROVE  DOMAIN names' = DOMAIN names \cup {key}
BY DEF GiveName

LEMMA NamesProgressKept ==
  ASSUME IInv, [AnswersNext]_allVars
  PROVE  NamesProgress'
<1>0. UNCHANGED document
  BY DocumentStays
<1> USE DEF IInv, NamesProgress
<1>1. CASE NameModule
  BY <1>1 DEF NameModule
<1>2. CASE NamePort
  BY <1>2 DEF NamePort, NameItem
<1>3. CASE NameNet
  <2>1. PICK i \in DOMAIN document.nets :
          /\ GiveName(<<"net", document.nets[i].id>>, document.nets[i].name)
          /\ todo' = todo \ {i}
          /\ UNCHANGED stage
    BY <1>3 DEF NameNet, NameItem
  <2>2. DOMAIN names' = DOMAIN names \cup {<<"net", document.nets[i].id>>}
    BY <2>1, GiveNameAdds
  <2>3. stage = "name nets"
    BY <1>3 DEF NameNet
  <2>4. QED
    BY <1>0, <2>1, <2>2, <2>3
<1>4. CASE NameComponent
  <2>1. PICK key, name : GiveName(key, name) /\ UNCHANGED stage
    BY <1>4 DEF NameComponent, NameItem
  <2>2. DOMAIN names \subseteq DOMAIN names'
    BY <2>1, GiveNameAdds
  <2>3. stage = "name components"
    BY <1>4 DEF NameComponent
  <2>4. QED
    BY <1>0, <2>1, <2>2, <2>3 DEF NetsNamed
<1>5. CASE EndNaming
  BY <1>0, <1>5 DEF EndNaming, NetsNamed
<1>6. CASE Read \/ Reject \/ Normalize \/ EmitHeader \/ EndSection \/ Finish
  BY <1>6 DEF Read, Reject, Normalize, EmitHeader, EndSection, Finish, Stop
<1>7. CASE DeclarePort \/ DeclareNet \/ AssignBoundary \/ AssignComponent
  BY <1>7 DEF DeclarePort, DeclareNet, AssignBoundary, AssignComponent, EmitLine
<1>8. CASE Refuse \/ Judge
  BY <1>8 DEF Refuse, Judge, Stop
<1>9. CASE AllDone \/ UNCHANGED allVars
  BY <1>0, <1>9 DEF AllDone, allVars, vars, NetsNamed
<1>10. QED
  BY <1>1, <1>2, <1>3, <1>4, <1>5, <1>6, <1>7, <1>8, <1>9
     DEF AnswersNext, Compile, CompileStep
LEMMA HeaderIsSequence ==
  ASSUME document \in Documents
  PROVE  \E S : HeaderLines \o <<Blank>> \in Seq(S)
<1> DEFINE S == {PortNames[i] : i \in DOMAIN document.ports}
               \cup {[form |-> "module", name |-> names[Module]], [form |-> ");"], Blank}
           n == Len(document.ports)
<1>1. document.ports \in Seq(ToSet(document.ports))
  BY DocumentsAssumption
<1>2. n \in Nat /\ DOMAIN document.ports = 1..n
  BY <1>1
<1>3. DOMAIN PortNames = DOMAIN document.ports
  BY DEF PortNames
<1>4. PortNames \in [1..n -> S]
  <2>1. PortNames = [i \in 1..n |-> PortNames[i]]
    BY <1>2 DEF PortNames
  <2>2. QED
    BY <1>2, <2>1
<1>5. PICK first \in S, last \in S, blank \in S :
        /\ HeaderLines = <<first>> \o IF document.ports = <<>> THEN <<>>
                                      ELSE PortNames \o <<last>>
        /\ blank = Blank
  BY DEF HeaderLines
<1> HIDE DEF S
<1>6. PortNames \in Seq(S)
  BY <1>2, <1>4
<1>7. HeaderLines \in Seq(S)
  BY <1>5, <1>6
<1>8. HeaderLines \o <<blank>> \in Seq(S)
  BY <1>7
<1>9. QED
  BY <1>5, <1>8

LEMMA LinesProgressKept ==
  ASSUME IInv, [AnswersNext]_allVars
  PROVE  LinesProgress'
<1> DEFINE InLines == stage \in {"ports", "nets", "boundary", "components"}
<1>1. \A line : InLines => \E S : Append(lines, line) \in Seq(S)
  <2> SUFFICES ASSUME InLines, NEW line
               PROVE  \E S : Append(lines, line) \in Seq(S)
    OBVIOUS
  <2>1. PICK S : lines \in Seq(S)
    BY DEF IInv, LinesProgress
  <2>2. lines \in Seq(S \cup {line})
    BY <2>1
  <2>3. Append(lines, line) \in Seq(S \cup {line})
    BY <2>2
  <2>4. QED
    BY <2>3
<1>2. CASE EmitHeader
  BY <1>2, HeaderIsSequence DEF EmitHeader, IInv, LinesProgress
<1>3. ASSUME NEW i, NEW line, InLines, EmitLine(i, line)
      PROVE  LinesProgress'
  BY <1>1, <1>3 DEF EmitLine, LinesProgress
<1>4. CASE DeclarePort
  BY <1>3, <1>4 DEF DeclarePort
<1>5. CASE DeclareNet
  BY <1>3, <1>5 DEF DeclareNet
<1>6. CASE AssignBoundary
  BY <1>3, <1>6 DEF AssignBoundary
<1>7. CASE AssignComponent
  BY <1>3, <1>7 DEF AssignComponent
<1>8. CASE EndSection
  BY <1>1, <1>8 DEF EndSection, LinesProgress
<1>9. CASE NameModule \/ NamePort \/ NameNet \/ NameComponent \/ EndNaming \/ Read \/ Normalize
  BY <1>9 DEF NameModule, NamePort, NameNet, NameComponent, NameItem, EndNaming, Read,
              Normalize, Stop, LinesProgress
<1>10. CASE Reject \/ Finish \/ Refuse \/ Judge
  BY <1>10 DEF Reject, Finish, Refuse, Judge, Stop, LinesProgress
<1>11. CASE AllDone \/ UNCHANGED allVars
  BY <1>11 DEF IInv, AllDone, allVars, vars, LinesProgress
<1>12. QED
  BY <1>2, <1>4, <1>5, <1>6, <1>7, <1>8, <1>9, <1>10, <1>11
     DEF AnswersNext, Compile, CompileStep

-----------------------------------------------------------------------------
(* What the caller is told.                                                *)

LEMMA AnsweringKept ==
  ASSUME IInv, [AnswersNext]_allVars
  PROVE  Answering'
<1>1. UNCHANGED <<document, caller>>
  BY DocumentStays DEF AnswersNext, Refuse, Judge, Compile, AllDone, allVars
<1>2. Callers' /\ (Understood' <=> Understood)
  BY <1>1 DEF IInv, Answering, Callers, Understood
<1>3. CASE Refuse
  BY <1>1, <1>2, <1>3 DEF Refuse, Stop, Answering, Outcomes, Underway
<1>4. CASE Judge
  <2>1. Understood
    BY <1>4 DEF Judge, IInv, Answering
  <2>2. QED
    BY <1>1, <1>2, <1>4, <2>1 DEF Judge, Stop, Answering, Outcomes, Underway
<1>5. CASE Compile /\ Read
  <2>1. /\ caller.by # "library" /\ notation = caller.text
        /\ caller.fault \notin Unreadable(caller.by, caller.asks) \cup NoDocument
    BY <1>5 DEF Compile, Read, IInv, Answering
  <2>2. CASE Parse(document, notation) = "ok"
    <3>1. stage' = "validate" /\ Understood
      BY <1>5, <2>1, <2>2 DEF Read, Understood
    <3>2. QED
      BY <1>1, <1>2, <3>1 DEF Answering, Underway
  <2>3. CASE Parse(document, notation) # "ok"
    <3>1. stage' = "done" /\ result' = Parse(document, notation)
      BY <1>5, <2>3 DEF Read, Stop
    <3>2. QED
      BY <1>1, <1>2, <2>1, <2>3, <3>1 DEF Answering, Underway, Outcomes
  <2>4. QED
    BY <2>2, <2>3
<1>6. CASE Compile /\ Reject
  <2>1. Understood
    BY <1>6 DEF Reject, IInv, Answering
  <2>2. QED
    BY <1>1, <1>2, <1>6, <2>1 DEF Reject, Stop, Answering, Outcomes, Underway
<1>7. CASE Compile /\ NameModule
  <2>1. Understood /\ caller.asks = "compile" /\ ~HasErrors(Report(document))
    BY <1>7 DEF Compile, NameModule, IInv, Answering
  <2>2. stage' = "name ports"
    BY <1>7 DEF NameModule
  <2>3. QED
    BY <1>1, <1>2, <2>1, <2>2 DEF Answering, Underway
<1>8. ASSUME Underway, stage' \notin {"read", "done"}
      PROVE  Answering'
  BY <1>1, <1>2, <1>8 DEF IInv, Answering, Underway
<1>9. CASE NamePort \/ NameNet \/ NameComponent \/ EndNaming
  BY <1>8, <1>9 DEF NamePort, NameNet, NameComponent, NameItem, EndNaming, Underway
<1>10. CASE Normalize
  <2>1. NetsNamed /\ ~HasErrors(Report(document))
    BY <1>10 DEF Normalize, IInv, NamesProgress, Answering, Underway
  <2>2. stage' = "header"
    BY <1>10, <2>1, AcceptedNormalizes DEF Normalize
  <2>3. QED
    BY <1>8, <1>10, <2>2 DEF Normalize, Underway
<1>11. CASE EmitHeader \/ EndSection
  BY <1>8, <1>11 DEF EmitHeader, EndSection, Underway
<1>12. CASE DeclarePort \/ DeclareNet \/ AssignBoundary \/ AssignComponent
  BY <1>8, <1>12 DEF DeclarePort, DeclareNet, AssignBoundary, AssignComponent, EmitLine, Underway
<1>13. CASE Finish
  <2>1. /\ Understood /\ caller.asks = "compile" /\ ~HasErrors(Report(document))
        /\ stage' = "done" /\ result' = "compiled"
    BY <1>13 DEF Finish, Stop, IInv, Answering, Underway
  <2> DEFINE end == [form |-> "endmodule"]
  <2>2. PICK S : lines \in Seq(S) /\ lines' = lines \o <<Blank, end>>
    BY <1>13 DEF Finish, IInv, LinesProgress
  <2>3. lines'[Len(lines')].form = "endmodule"
    <3>1. end.form = "endmodule"
      OBVIOUS
    <3> HIDE DEF end
    <3>2. lines \in Seq(S \cup {Blank, end})
      BY <2>2
    <3>3. lines'[Len(lines')] = end
      BY <2>2, <3>2
    <3>4. QED
      BY <3>1, <3>3
  <2>4. QED
    BY <1>1, <1>2, <2>1, <2>2, <2>3 DEF Answering, Outcomes, Underway
<1>14. CASE AllDone \/ UNCHANGED allVars
  <2>1. UNCHANGED <<document, notation, stage, lines, result, caller>>
    BY <1>14 DEF AllDone, allVars, vars, input
  <2>2. (Outcomes' <=> Outcomes) /\ (Underway' <=> Underway)
    BY <1>2, <2>1 DEF Outcomes, Underway
  <2>3. QED
    BY <1>2, <2>1, <2>2 DEF IInv, Answering
<1>15. QED
  BY <1>3, <1>4, <1>5, <1>6, <1>7, <1>9, <1>10, <1>11, <1>12, <1>13, <1>14
     DEF AnswersNext, Compile, CompileStep
\* What from_json_with_limits may say (parser.rs); that the text fits no typed model
\* only of a number written as 1.0.
LEMMA ParserSays ==
  ASSUME NEW doc, NEW text
  PROVE  /\ Parse(doc, text) \in {"ok", "version", "schema", "deserialization", "limits"}
         /\ Parse(doc, text) = "deserialization" => text = "fraction"
BY DEF Parse

\* What each result comes to over HTTP (lib.rs: classify_parse_error) and on the
\* command line (main.rs: parse_failure).
LEMMA BlamedOverHttp ==
  ASSUME caller.by = "http"
  PROVE  /\ result \in {"valid", "compiled"} => Blamed = "nobody"
         /\ result = "rejected" =>
              Blamed = IF caller.asks = "validate" THEN "nobody" ELSE "caller"
         /\ result \in {"media type", "body too long", "text too long", "limits", "no text",
                        "no json", "version", "schema"} => Blamed = "caller"
         /\ result \in {"body cut off", "deserialization"} => Blamed = "program"
<1>1. result \in {"valid", "compiled"} => Status = 200
  BY DEF Status
<1>2. result = "rejected" => Status = IF caller.asks = "validate" THEN 200 ELSE 422
  BY DEF Status
<1>3. result = "media type" => Status = 415
  BY DEF Status
<1>4. result \in {"body too long", "text too long", "limits"} => Status = 413
  <2>1. result = "body too long" => Status = 413
    BY Zenon DEF Status
  <2>2. result = "text too long" => Status = 413
    BY Zenon DEF Status
  <2>3. result = "limits" => Status = 413
    BY Zenon DEF Status
  <2>4. QED
    BY <2>1, <2>2, <2>3
<1>5. result \in {"no text", "no json", "version", "schema"} => Status = 400
  <2>1. result = "no text" => Status = 400
    BY Zenon DEF Status
  <2>2. result = "no json" => Status = 400
    BY Zenon DEF Status
  <2>3. result = "version" => Status = 400
    BY Zenon DEF Status
  <2>4. result = "schema" => Status = 400
    BY Zenon DEF Status
  <2>5. QED
    BY <2>1, <2>2, <2>3, <2>4
<1>6. result \in {"body cut off", "deserialization"} => Status = 500
  <2>1. result = "body cut off" => Status = 500
    BY Zenon DEF Status
  <2>2. result = "deserialization" => Status = 500
    BY Zenon DEF Status
  <2>3. QED
    BY <2>1, <2>2
<1>7. /\ Status = 200 => Blamed = "nobody"
      /\ Status = 500 => Blamed = "program"
      /\ Status = 400 \/ Status = 413 \/ Status = 415 \/ Status = 422 => Blamed = "caller"
  BY DEF Blamed
<1>8. result = "rejected" => Blamed = IF caller.asks = "validate" THEN "nobody" ELSE "caller"
  BY <1>2, <1>7
<1>9. result \in {"media type", "body too long", "text too long", "limits", "no text",
                  "no json", "version", "schema"} => Blamed = "caller"
  <2>1. result \in {"media type", "body too long", "text too long", "limits"} => Blamed = "caller"
    <3>1. result = "media type" => Blamed = "caller"
      BY <1>3, <1>7
    <3>2. result \in {"body too long", "text too long", "limits"} => Blamed = "caller"
      BY <1>4, <1>7
    <3>3. QED
      BY <3>1, <3>2
  <2>2. result \in {"no text", "no json", "version", "schema"} => Blamed = "caller"
    BY <1>5, <1>7
  <2>3. QED
    BY <2>1, <2>2
<1>10. QED
  BY <1>1, <1>6, <1>7, <1>8, <1>9

LEMMA BlamedByCommand ==
  ASSUME caller.by = "cli"
  PROVE  /\ result = "valid" => Blamed = "nobody"
         /\ result = "compiled" =>
              Blamed = IF caller.fault = "cannot write" THEN "files" ELSE "nobody"
         /\ result \in {"text too long", "no json", "version", "schema", "limits",
                        "rejected"} => Blamed = "caller"
         /\ result \in {"unreadable", "no text", "output exists"} => Blamed = "files"
         /\ result = "deserialization" => Blamed = "program"
<1>1. /\ result = "valid" => ExitCode = 0
      /\ result = "compiled" => ExitCode = IF caller.fault = "cannot write" THEN 3 ELSE 0
  BY DEF ExitCode
<1>2. result \in {"text too long", "no json", "version", "schema", "limits", "rejected"}
        => ExitCode = 2
  BY DEF ExitCode
<1>3. result \in {"unreadable", "no text", "output exists"} => ExitCode = 3
  BY DEF ExitCode
<1>4. result = "deserialization" => ExitCode = 4
  BY DEF ExitCode
<1>5. /\ ExitCode = 0 => Blamed = "nobody"
      /\ ExitCode = 2 => Blamed = "caller"
      /\ ExitCode = 3 => Blamed = "files"
      /\ ExitCode = 4 => Blamed = "program"
  BY DEF Blamed
<1>6. QED
  BY <1>1, <1>2, <1>3, <1>4, <1>5

LEMMA BlamedInLibrary ==
  ASSUME caller.by = "library"
  PROVE  /\ result \in {"valid", "compiled"} => Blamed = "nobody"
         /\ result = "rejected" => Blamed = "caller"
BY DEF Blamed

LEMMA OutcomesAreTrue ==
  ASSUME Callers, Outcomes
  PROVE  /\ Yes <=> Accepted /\ caller.fault = "none"
         /\ Yes /\ caller.asks = "compile" => lines[Len(lines)].form = "endmodule"
         /\ Blamed = "program" => caller.fault = "body cut off" \/ caller.text = "fraction"
         /\ Blamed = "files" =>
              caller.fault \in {"unreadable", "no text", "output exists", "cannot write"}
         /\ Blamed = "caller" =>
              caller.fault \in Unreadable("http", caller.asks) \cup NoDocument \/ ~Accepted
<1> USE DEF Callers
<1>1. CASE /\ result = caller.fault
           /\ result \in Unreadable(caller.by, caller.asks) \cup NoDocument
  <2>1. CASE caller.by = "http"
    BY <1>1, <2>1, BlamedOverHttp DEF Amiss, Unreadable, NoDocument, Afterwards, Yes
  <2>2. CASE caller.by = "cli"
    BY <1>1, <2>2, BlamedByCommand DEF Amiss, Unreadable, NoDocument, Afterwards, Yes
  <2>3. CASE caller.by = "library"
    BY <1>1, <2>3 DEF Amiss, Unreadable, NoDocument, Afterwards
  <2>4. QED
    BY <2>1, <2>2, <2>3
<1>2. CASE /\ caller.fault \notin Unreadable(caller.by, caller.asks) \cup NoDocument
           /\ caller.by # "library"
           /\ result = Parse(document, caller.text) /\ result # "ok"
  <2>1. /\ result \in {"version", "schema", "deserialization", "limits"}
        /\ result = "deserialization" => caller.text = "fraction"
    BY <1>2, ParserSays
  <2>2. ~Accepted
    BY <1>2 DEF Accepted
  <2>3. CASE caller.by = "http"
    BY <2>1, <2>2, <2>3, BlamedOverHttp DEF Yes
  <2>4. CASE caller.by = "cli"
    BY <2>1, <2>2, <2>4, BlamedByCommand DEF Yes
  <2>5. QED
    BY <1>2, <2>3, <2>4
<1>3. ASSUME Understood
      PROVE  /\ caller.fault = "none" \/ (/\ caller.fault = "cannot write"
                                          /\ caller.by = "cli" /\ caller.asks = "compile")
             /\ Accepted <=> ~HasErrors(Report(document))
  BY <1>3 DEF Understood, Accepted, Amiss, Unreadable, NoDocument, Afterwards
<1>4. CASE Understood /\ result = "rejected" /\ HasErrors(Report(document))
  <2>1. CASE caller.by = "http"
    BY <1>3, <1>4, <2>1, BlamedOverHttp DEF Yes
  <2>2. CASE caller.by = "cli"
    BY <1>3, <1>4, <2>2, BlamedByCommand DEF Yes
  <2>3. CASE caller.by = "library"
    BY <1>3, <1>4, <2>3, BlamedInLibrary DEF Yes
  <2>4. QED
    BY <2>1, <2>2, <2>3
<1>5. CASE /\ Understood /\ ~HasErrors(Report(document))
           /\ caller.asks = "validate" /\ result = "valid"
  BY <1>3, <1>5, BlamedOverHttp, BlamedByCommand, BlamedInLibrary DEF Yes
<1>6. CASE /\ Understood /\ ~HasErrors(Report(document))
           /\ caller.asks = "compile" /\ result = "compiled"
           /\ lines[Len(lines)].form = "endmodule"
  BY <1>3, <1>6, BlamedOverHttp, BlamedByCommand, BlamedInLibrary DEF Yes
<1>7. QED
  BY <1>1, <1>2, <1>4, <1>5, <1>6 DEF Outcomes

\* The invariant of the way of a document: nothing that was not read and accepted
\* goes beyond validation (compiler.rs: compile_verilog), all nets are named when
\* normalization looks them up (ir.rs: normalize), and it refuses nothing.
THEOREM AnswersInvariant == AnswersSpec => []IInv
<1>1. IInv /\ [AnswersNext]_allVars => IInv'
  BY NamesProgressKept, LinesProgressKept, AnsweringKept, DocumentStays DEF IInv
<1>2. QED
  BY <1>1, InitIInv, PTL DEF AnswersSpec

\* Every caller is told the truth, for every document (lib.rs: validate,
\* compile_verilog; main.rs: validate_command, compile_command).
THEOREM TrueAnswers == AnswersSpec => []AnswersAreTrue
<1>1. IInv => AnswersAreTrue
  BY OutcomesAreTrue DEF IInv, Answering, AnswersAreTrue
<1>2. QED
  BY <1>1, AnswersInvariant, PTL
-----------------------------------------------------------------------------
(* Parser and validator.                                                   *)

LEMMA NumbersAreNumbers ==
  ASSUME NEW doc \in Documents
  PROVE  /\ Len(doc.ports) \in Nat /\ Len(doc.components) \in Nat /\ Len(doc.nets) \in Nat
         /\ \A text \in Texts(doc) : Len(text) \in Nat
         /\ \A item \in Items(doc) : item.width \in Nat
         /\ \A c \in ToSet(doc.components) : Cardinality(DOMAIN c.parameters) \in Nat
<1>1. /\ doc.ports \in Seq(ToSet(doc.ports))
      /\ doc.components \in Seq(ToSet(doc.components))
      /\ doc.nets \in Seq(ToSet(doc.nets))
  BY DocumentsAssumption
<1>2. Texts(doc) \subseteq Seq(Plain \cup Others)
  BY DocumentsAssumption
<1>3. /\ \A item \in Items(doc) : item.width \in Nat
      /\ \A c \in ToSet(doc.components) : IsFiniteSet(DOMAIN c.parameters)
  BY DocumentsAssumption
<1>4. \A c \in ToSet(doc.components) : Cardinality(DOMAIN c.parameters) \in Nat
  BY <1>3, FS_CardinalityType
<1>5. QED
  BY <1>1, <1>2, <1>3, <1>4

\* What exceeds a maximum of the schema exceeds the configured one.
LEMMA SchemaIsWider ==
  ASSUME NEW doc \in Documents, Exceeds(doc, SchemaLimits)
  PROVE  Exceeds(doc, Limits)
<1>1. \A limit \in LimitNames : /\ Limits[limit] \in Nat /\ SchemaLimits[limit] \in Nat
                                /\ Limits[limit] <= SchemaLimits[limit]
  BY ParserAssumption, ValidationAssumption
<1>2. \A limit \in LimitNames : \A n \in Nat : n > SchemaLimits[limit] => n > Limits[limit]
  BY <1>1
<1>3. \/ Len(doc.ports) > SchemaLimits.ports
      \/ Len(doc.components) > SchemaLimits.components
      \/ Len(doc.nets) > SchemaLimits.nets
      \/ \E text \in Texts(doc) : Len(text) > SchemaLimits.string
      \/ \E item \in Items(doc) : item.width > SchemaLimits.width
      \/ \E c \in ToSet(doc.components) :
           Cardinality(DOMAIN c.parameters) > SchemaLimits.parameters
  BY DEF Exceeds
<1>4. \A n \in Nat :
        /\ n > SchemaLimits.ports => n > Limits.ports
        /\ n > SchemaLimits.components => n > Limits.components
        /\ n > SchemaLimits.nets => n > Limits.nets
        /\ n > SchemaLimits.string => n > Limits.string
        /\ n > SchemaLimits.width => n > Limits.width
        /\ n > SchemaLimits.parameters => n > Limits.parameters
  BY <1>2 DEF LimitNames
<1>5. CASE Len(doc.ports) > SchemaLimits.ports
  BY <1>4, <1>5, NumbersAreNumbers DEF Exceeds
<1>6. CASE Len(doc.components) > SchemaLimits.components
  BY <1>4, <1>6, NumbersAreNumbers DEF Exceeds
<1>7. CASE Len(doc.nets) > SchemaLimits.nets
  BY <1>4, <1>7, NumbersAreNumbers DEF Exceeds
<1>8. ASSUME NEW text \in Texts(doc), Len(text) > SchemaLimits.string
      PROVE  Exceeds(doc, Limits)
  BY <1>4, <1>8, NumbersAreNumbers DEF Exceeds
<1>9. ASSUME NEW item \in Items(doc), item.width > SchemaLimits.width
      PROVE  Exceeds(doc, Limits)
  BY <1>4, <1>9, NumbersAreNumbers DEF Exceeds
<1>10. ASSUME NEW c \in ToSet(doc.components),
              Cardinality(DOMAIN c.parameters) > SchemaLimits.parameters
       PROVE  Exceeds(doc, Limits)
  BY <1>4, <1>10, NumbersAreNumbers DEF Exceeds
<1>11. QED
  BY <1>3, <1>5, <1>6, <1>7, <1>8, <1>9, <1>10

LEMMA ThreeAtMost ==
  ASSUME NEW a, NEW b, NEW c, NEW S \in SUBSET {a, b, c}
  PROVE  Cardinality(S) \in Nat /\ Cardinality(S) <= 3
<1>1. IsFiniteSet({a}) /\ Cardinality({a}) = 1
  BY FS_Singleton
<1>2. /\ IsFiniteSet({a} \cup {b}) /\ Cardinality({a} \cup {b}) \in Nat
      /\ Cardinality({a} \cup {b}) <= 2
  BY <1>1, FS_AddElement
<1>3. /\ IsFiniteSet(({a} \cup {b}) \cup {c})
      /\ Cardinality(({a} \cup {b}) \cup {c}) \in Nat
      /\ Cardinality(({a} \cup {b}) \cup {c}) <= 3
  <2>1. PICK T : T = {a} \cup {b}
    OBVIOUS
  <2>2. IsFiniteSet(T) /\ Cardinality(T) \in Nat /\ Cardinality(T) <= 2
    BY <1>2, <2>1
  <2>3. /\ IsFiniteSet(T \cup {c})
        /\ Cardinality(T \cup {c}) \in {Cardinality(T), Cardinality(T) + 1}
    BY <2>2, FS_AddElement
  <2>4. PICK U : U = T \cup {c}
    OBVIOUS
  <2>5. IsFiniteSet(U) /\ Cardinality(U) \in Nat /\ Cardinality(U) <= 3
    BY <2>2, <2>3, <2>4
  <2>6. QED
    BY <2>1, <2>4, <2>5
<1>4. S \subseteq ({a} \cup {b}) \cup {c}
  OBVIOUS
<1>5. /\ IsFiniteSet(S) /\ Cardinality(S) <= Cardinality(({a} \cup {b}) \cup {c})
  BY <1>3, <1>4, FS_Subset
<1>6. Cardinality(S) \in Nat
  BY <1>5, FS_CardinalityType
<1>7. QED
  BY <1>3, <1>5, <1>6

LEMMA AcceptedIsWithin ==
  ASSUME NEW doc \in Documents, ~HasErrors(Report(doc))
  PROVE  doc.schema \in {"1.0", "1.1"} /\ ~LimitErrors(doc) /\ ~SchemaErrors(doc)
<1>1. Preflight(doc) \cap Warnings = {}
  BY DEF Preflight, When, Warnings
<1>2. Preflight(doc) = {}
  BY <1>1 DEF Report, HasErrors
<1>3. /\ doc.schema \in {"1.0", "1.1"}
      /\ ~(Len(doc.ports) > Limits.ports) /\ ~(Len(doc.components) > Limits.components)
      /\ ~(Len(doc.nets) > Limits.nets)
      /\ \A c \in ToSet(doc.components) :
           ~(Cardinality(DOMAIN c.parameters) > Limits.parameters)
  BY <1>2 DEF Preflight, When
<1>4. Names(doc) \subseteq Warnings /\ Widths(doc) \subseteq Warnings
  BY <1>2 DEF Report, HasErrors
<1>5. \A text \in Texts(doc) : NameErrors(text) \subseteq Names(doc)
  BY DEF Names, Texts, Items
<1>6. \A text \in Texts(doc) : ~(Len(text) > Limits.string) /\ ~IsBlank(text)
  BY <1>4, <1>5 DEF NameErrors, When, Warnings
<1>7. \A item \in Items(doc) : item.width # 0 /\ ~(item.width > Limits.width)
  <2>1. \A item \in Items(doc) :
          /\ When(item.width = 0, "WIDTH_ZERO") \subseteq Widths(doc)
          /\ When(item.width > Limits.width, "WIDTH_EXCEEDS_LIMIT") \subseteq Widths(doc)
    BY DEF Widths, Items
  <2>2. QED
    BY <1>4, <2>1 DEF When, Warnings
<1>8. ~LimitErrors(doc)
  BY <1>3, <1>6, <1>7 DEF LimitErrors, Exceeds
<1>9. <<>> \notin Texts(doc)
  BY <1>6 DEF IsBlank
<1>10. ASSUME NEW c \in ToSet(doc.components)
       PROVE  InCatalog(c) /\ ~(Cardinality(DOMAIN c.connections) > 3)
  <2>1. ComponentErrors(doc, c) \subseteq Warnings
    BY AcceptedIsChecked
  <2>2. InCatalog(c)
    BY <2>1 DEF ComponentErrors, Warnings
  <2>3. When(DOMAIN c.connections \ LogicalPorts(c) # {}, "COMPONENT_UNKNOWN_CONNECTION")
          \subseteq Warnings
    BY <2>1, <2>2 DEF ComponentErrors
  <2>4. DOMAIN c.connections \subseteq LogicalPorts(c)
    BY <2>3 DEF When, Warnings
  <2>5. LogicalPorts(c) \subseteq {"A", "B", "Y"}
    BY <2>2 DEF LogicalPorts, Inputs, InCatalog
  <2>6. /\ Cardinality(DOMAIN c.connections) \in Nat
        /\ Cardinality(DOMAIN c.connections) <= 3
    BY <2>4, <2>5, ThreeAtMost
  <2>7. QED
    BY <2>2, <2>6
<1>11. QED
  BY <1>3, <1>7, <1>8, <1>9, <1>10, SchemaIsWider DEF SchemaErrors, LimitErrors
Forbidden == LimitCodes \cup DefectCodes

LEMMA ReadIsWithin ==
  ASSUME NEW doc \in Documents, Parse(doc, "plain") = "ok"
  PROVE  Report(doc) \cap Forbidden = {}
<1>1. doc.schema \in {"1.0", "1.1"} /\ ~SchemaErrors(doc) /\ ~Exceeds(doc, Limits)
  BY DEF Parse, LimitErrors
<1>2. Preflight(doc) = {}
  BY <1>1 DEF Preflight, When, Exceeds
<1> USE DEF Forbidden, LimitCodes, DefectCodes
<1>3. Identity(doc) \cap Forbidden = {}
  BY DEF Identity, When
<1>4. \A text \in Texts(doc) : NameErrors(text) \cap Forbidden = {}
  BY <1>1 DEF NameErrors, When, Exceeds
<1>5. Names(doc) \cap Forbidden = {}
  BY <1>4 DEF Names, When, Texts, Items
<1>6. \A item \in Items(doc) : item.width # 0 /\ ~(item.width > Limits.width)
  BY <1>1 DEF SchemaErrors, Exceeds
<1>7. Widths(doc) = {}
  BY <1>6 DEF Widths, When, Items
<1>8. \A p \in ToSet(doc.ports) : PortErrors(doc, p) \cap Forbidden = {}
  BY DEF PortErrors, When
<1>9. ASSUME NEW c \in ToSet(doc.components)
      PROVE  ComponentErrors(doc, c) \cap Forbidden = {}
  <2>1. InCatalog(c)
    BY <1>1 DEF SchemaErrors
  <2>2. \A port : ConnectionErrors(doc, c, port) \cap Forbidden = {}
    BY DEF ConnectionErrors, ConnectedErrors, ConnectionWidth, When
  <2>3. ConstErrors(c) \cap Forbidden = {}
    BY DEF ConstErrors, When
  <2>4. QED
    BY <2>1, <2>2, <2>3 DEF ComponentErrors, When
<1>10. ReferencesAndCatalog(doc) \cap Forbidden = {}
  BY <1>8, <1>9 DEF ReferencesAndCatalog
<1>11. Connectivity(doc) \cap Forbidden = {}
  BY DEF Connectivity, When
<1>12. Cycles(doc) \cap Forbidden = {}
  BY DEF Cycles, When
<1> HIDE DEF Forbidden
<1>13. QED
  BY <1>2, <1>3, <1>5, <1>7, <1>10, <1>11, <1>12 DEF Report

LEMMA RefusedForALimit ==
  ASSUME NEW doc \in Documents, Parse(doc, "plain") = "limits"
  PROVE  Report(doc) \cap LimitCodes # {}
<1>1. doc.schema \in {"1.0", "1.1"} /\ Exceeds(doc, Limits)
  BY DEF Parse, LimitErrors
<1>2. Preflight(doc) \subseteq LimitCodes
  BY <1>1 DEF Preflight, When, LimitCodes
<1>3. CASE Preflight(doc) # {}
  BY <1>2, <1>3 DEF Report
<1>4. CASE Preflight(doc) = {}
  <2>1. \/ \E text \in Texts(doc) : Len(text) > Limits.string
        \/ \E item \in Items(doc) : item.width > Limits.width
    BY <1>1, <1>4 DEF Preflight, When, Exceeds
  <2>2. ASSUME NEW text \in Texts(doc), Len(text) > Limits.string
        PROVE  "LIMIT_STRING_LENGTH" \in Names(doc)
    <3>1. "LIMIT_STRING_LENGTH" \in NameErrors(text)
      BY <2>2 DEF NameErrors, When
    <3>2. QED
      BY <3>1 DEF Names, Texts, Items
  <2>3. ASSUME NEW item \in Items(doc), item.width > Limits.width
        PROVE  "WIDTH_EXCEEDS_LIMIT" \in Widths(doc)
    <3>1. "WIDTH_EXCEEDS_LIMIT" \in When(item.width > Limits.width, "WIDTH_EXCEEDS_LIMIT")
      BY <2>3 DEF When
    <3>2. QED
      BY <3>1 DEF Widths, Items
  <2>4. QED
    BY <1>4, <2>1, <2>2, <2>3 DEF Report, LimitCodes
<1>5. QED
  BY <1>3, <1>4

\* For every document and all limits of which none is above the schema's: what the
\* validator accepts can be read back when it is written out, what was read breaks no
\* bound that the validator checks, and what the parser refuses for a limit the validator
\* refuses for one (parser.rs: from_json_with_limits; validation.rs).
THEOREM ReaderAgrees == AnswersSpec => []ReaderAndValidatorAgree
<1>1. IInv => ReaderAndValidatorAgree
  <2> SUFFICES ASSUME document \in Documents
               PROVE  LET outcome == Parse(document, "plain")
                          report  == Report(document)
                      IN  /\ ~HasErrors(report) => outcome = "ok"
                          /\ outcome = "ok" => report \cap (LimitCodes \cup DefectCodes) = {}
                          /\ outcome = "limits" => report \cap LimitCodes # {}
    BY DEF IInv, ReaderAndValidatorAgree
  <2>1. ~HasErrors(Report(document)) => Parse(document, "plain") = "ok"
    BY AcceptedIsWithin DEF Parse
  <2>2. QED
    BY <2>1, ReadIsWithin, RefusedForALimit DEF Forbidden
<1>2. QED
  BY <1>1, AnswersInvariant, PTL


-----------------------------------------------------------------------------
(* The output.  A section writes one line and one source map entry for     *)
(* each of its items; the entries tell which line is whose.                *)

\* The sections that follow the header, by the kind of their entries.
EntryKinds == {"port", "net", "boundary", "component"}

ItemsOf(kind) ==
  CASE kind = "net"       -> document.nets
    [] kind = "component" -> document.components
    [] kind \in {"port", "boundary"} -> document.ports

SectionOf(kind) ==
  CASE kind = "port"      -> "ports"    [] kind = "net"       -> "nets"
    [] kind = "boundary"  -> "boundary" [] kind = "component" -> "components"

\* The stages at which the section of a kind is complete.
After(kind) ==
  {"done"} \cup CASE kind = "port"      -> {"nets", "boundary", "components"}
                  [] kind = "net"       -> {"boundary", "components"}
                  [] kind = "boundary"  -> {"components"}
                  [] kind = "component" -> {}

LineOf(kind, i) ==
  LET item == ItemsOf(kind)[i] IN
  CASE kind = "port"      -> Declaration(item.dir, <<"port", item.id>>, item.width)
    [] kind = "net"       -> Declaration("net", <<"net", item.id>>, item.width)
    [] kind = "boundary"  -> Boundary(item)
    [] kind = "component" -> Gate(item)

EntryOf(kind, i, n) ==
  LET item == ItemsOf(kind)[i] IN
  CASE kind = "port"      -> Entry("port", n, n, item.id, 0, 0, <<"port", item.id>>)
    [] kind = "net"       -> Entry("net", n, n, 0, item.id, 0, <<"net", item.id>>)
    [] kind = "boundary"  ->
         Entry("boundary", n, n, item.id, item.net, 0, <<"port", item.id>>)
    [] kind = "component" ->
         Entry("component", n, n, 0, item.connections["Y"].net, item.id,
               <<"component", item.id>>)

\* The items of a kind whose lines are written.
Taken(kind) ==
  {i \in DOMAIN ItemsOf(kind) :
     stage \in After(kind) \/ (stage = SectionOf(kind) /\ i \notin todo)}

Sections == {"ports", "nets", "boundary", "components"}
Writing  == stage \in Sections \/ result = "compiled"

\* Line n is the line of item i.
WrittenAt(kind, i, n) ==
  n \in DOMAIN lines /\ lines[n] = LineOf(kind, i) /\ EntryOf(kind, i, n) \in entries

\* Each item that is taken has exactly one line; a line that declares or assigns,
\* and an entry but the header's, belongs to an item that is taken.
Transcript ==
  /\ \A kind \in EntryKinds : \A i \in Taken(kind) :
       \E n \in DOMAIN lines : WrittenAt(kind, i, n)
  /\ \A kind \in EntryKinds : \A i \in DOMAIN ItemsOf(kind) : \A m, n \in DOMAIN lines :
       WrittenAt(kind, i, m) /\ WrittenAt(kind, i, n) => m = n
  /\ \A n \in Declarations \cup Assignments :
       \E kind \in EntryKinds : \E i \in Taken(kind) : WrittenAt(kind, i, n)
  /\ \A e \in entries :
       \/ e.kind = "module"
       \/ \E kind \in EntryKinds : \E i \in Taken(kind) : \E n \in DOMAIN lines :
            e = EntryOf(kind, i, n)

\* Within a kind, an id stands for one item.
OneOfEachId ==
  \A kind \in EntryKinds : \A i, j \in DOMAIN ItemsOf(kind) :
    ItemsOf(kind)[i].id = ItemsOf(kind)[j].id => i = j

OutputInv ==
  /\ stage # "done" => result = "none"
  /\ ~Writing => lines = <<>> /\ entries = {}
  /\ Writing => Transcript
  /\ SourceMapExact

LEMMA NoRepetition ==
  ASSUME ~HasErrors(Report(document))
  PROVE  OneOfEachId
<1>1. Preflight(document) \cap Warnings = {}
  BY DEF Preflight, When, Warnings
<1>2. Preflight(document) = {}
  BY <1>1 DEF Report, HasErrors
<1>3. Identity(document) \subseteq Warnings
  BY <1>2 DEF Report, HasErrors
<1>4. /\ Repeated(document.components) = {} /\ Repeated(document.nets) = {}
      /\ Repeated(document.ports) = {}
  BY <1>3 DEF Identity, When, Warnings
<1>5. ASSUME NEW items, Repeated(items) = {}, NEW i \in DOMAIN items,
             NEW j \in DOMAIN items, items[i].id = items[j].id
      PROVE  i = j
  BY <1>5 DEF Repeated
<1>6. \A kind \in EntryKinds : Repeated(ItemsOf(kind)) = {}
  BY <1>4 DEF EntryKinds, ItemsOf
<1>7. QED
  BY <1>5, <1>6 DEF OneOfEachId

\* An entry tells its kind, its line and its item.
LEMMA EntriesDiffer ==
  ASSUME OneOfEachId, NEW kind \in EntryKinds, NEW other \in EntryKinds,
         NEW i \in DOMAIN ItemsOf(kind), NEW j \in DOMAIN ItemsOf(other), NEW m, NEW n,
         EntryOf(kind, i, m) = EntryOf(other, j, n)
  PROVE  kind = other /\ i = j /\ m = n
<1>1. /\ EntryOf(kind, i, m).kind = kind /\ EntryOf(kind, i, m).first = m
      /\ EntryOf(other, j, n).kind = other /\ EntryOf(other, j, n).first = n
  BY DEF EntryOf, Entry, EntryKinds
<1>2. kind = other /\ m = n
  BY <1>1
<1>3. ItemsOf(kind)[i].id = ItemsOf(kind)[j].id
  BY <1>2 DEF EntryOf, Entry, EntryKinds
<1>4. QED
  BY <1>2, <1>3 DEF OneOfEachId

LEMMA EntrySpans ==
  ASSUME NEW kind \in EntryKinds, NEW i, NEW n
  PROVE  /\ EntryOf(kind, i, n).kind = kind
         /\ EntryOf(kind, i, n).first = n /\ EntryOf(kind, i, n).last = n
BY DEF EntryOf, Entry, EntryKinds

\* A step that writes the line of an item that was still to do.
WritesItem(kind, i) ==
  /\ stage = SectionOf(kind) /\ stage' = stage /\ result' = result
  /\ i \in DOMAIN ItemsOf(kind) /\ i \in todo /\ todo' = todo \ {i}
  /\ lines' = Append(lines, LineOf(kind, i))
  /\ entries' = entries \cup {EntryOf(kind, i, Here)}
  /\ UNCHANGED <<document, names>>

\* What is written depends on the document and the names alone.
LEMMA LinesStay ==
  ASSUME UNCHANGED <<document, names>>
  PROVE  \A kind \in EntryKinds : \A i :
           /\ ItemsOf(kind)' = ItemsOf(kind)
           /\ LineOf(kind, i)' = LineOf(kind, i)
           /\ \A n : EntryOf(kind, i, n)' = EntryOf(kind, i, n)
<1>1. \A form, key, width : Declaration(form, key, width)' = Declaration(form, key, width)
  BY DEF Declaration
<1>2. \A p : Boundary(p)' = Boundary(p)
  BY DEF Boundary
<1>3. \A c : Operand(c)' = Operand(c)
  BY DEF Operand
<1>4. \A c : Gate(c)' = Gate(c)
  BY <1>3 DEF Gate
<1>5. \A kind : ItemsOf(kind)' = ItemsOf(kind)
  BY DEF ItemsOf
<1>6. \A kind, i : LineOf(kind, i)' = LineOf(kind, i)
  BY <1>1, <1>2, <1>4, <1>5 DEF LineOf
<1>7. \A kind \in EntryKinds : \A i, n : EntryOf(kind, i, n)' = EntryOf(kind, i, n)
  <2>1. \A kind, n, port, net, component, key :
          Entry(kind, n, n, port, net, component, key)'
            = Entry(kind, n, n, port, net, component, key)
    BY DEF Entry
  <2>2. QED
    BY <1>5, <2>1 DEF EntryOf, EntryKinds
<1>8. QED
  BY <1>5, <1>6, <1>7

\* What the line of an item looks like.
LEMMA LineForms ==
  ASSUME document \in Documents, NEW kind \in EntryKinds, NEW i \in DOMAIN ItemsOf(kind)
  PROVE  /\ LineOf(kind, i).form \in {"input", "output", "net", "assign"}
         /\ \A n : Shows(EntryOf(kind, i, n), LineOf(kind, i))
<1> DEFINE item == ItemsOf(kind)[i]
<1>1. CASE kind = "port"
  <2>1. item \in ToSet(document.ports)
    BY <1>1 DEF ItemsOf, ToSet
  <2>2. item.dir \in {"input", "output"}
    BY <2>1, DocumentsAssumption
  <2>3. LineOf(kind, i) = Declaration(item.dir, <<"port", item.id>>, item.width)
    BY <1>1 DEF LineOf
  <2>4. \A n : EntryOf(kind, i, n) = Entry("port", n, n, item.id, 0, 0, <<"port", item.id>>)
    BY <1>1 DEF EntryOf
  <2>5. /\ LineOf(kind, i).form \in {"input", "output"}
        /\ LineOf(kind, i).name = names[<<"port", item.id>>]
    BY <2>2, <2>3 DEF Declaration
  <2>6. \A n : EntryOf(kind, i, n).kind = "port" /\ EntryOf(kind, i, n).port = item.id
    BY <2>4 DEF Entry
  <2> HIDE DEF item
  <2>7. \A n : Shows(EntryOf(kind, i, n), LineOf(kind, i))
    BY <2>5, <2>6 DEF Shows
  <2>8. QED
    BY <2>5, <2>7
<1>2. CASE kind = "net"
  <2>1. LineOf(kind, i) = Declaration("net", <<"net", item.id>>, item.width)
    BY <1>2 DEF LineOf
  <2>2. \A n : EntryOf(kind, i, n) = Entry("net", n, n, 0, item.id, 0, <<"net", item.id>>)
    BY <1>2 DEF EntryOf
  <2>3. /\ LineOf(kind, i).form = "net"
        /\ LineOf(kind, i).name = names[<<"net", item.id>>]
    BY <2>1 DEF Declaration
  <2>4. \A n : EntryOf(kind, i, n).kind = "net" /\ EntryOf(kind, i, n).net = item.id
    BY <2>2 DEF Entry
  <2>5. \A n : Shows(EntryOf(kind, i, n), LineOf(kind, i))
    BY <2>3, <2>4 DEF Shows
  <2>6. QED
    BY <2>3, <2>5
<1>3. CASE kind = "boundary"
  <2>1. LineOf(kind, i) = Boundary(item)
    BY <1>3 DEF LineOf
  <2>2. \A n : EntryOf(kind, i, n) =
                 Entry("boundary", n, n, item.id, item.net, 0, <<"port", item.id>>)
    BY <1>3 DEF EntryOf
  <2> DEFINE port == Whole(names[<<"port", item.id>>])
             net  == Whole(names[<<"net", item.net>>])
  <2>3. /\ Boundary(item).form = "assign"
        /\ {Boundary(item).left} \cup Boundary(item).right = {port, net}
    <3>1. Boundary(item) \in {Assignment(net, {port}, 0), Assignment(port, {net}, 0)}
      BY DEF Boundary
    <3> HIDE DEF port, net
    <3>2. QED
      BY <3>1 DEF Assignment
  <2>4. \A n : /\ EntryOf(kind, i, n).kind = "boundary"
               /\ EntryOf(kind, i, n).port = item.id /\ EntryOf(kind, i, n).net = item.net
    BY <2>2 DEF Entry
  <2>5. \A n : Shows(EntryOf(kind, i, n), LineOf(kind, i))
    BY <2>1, <2>3, <2>4 DEF Shows
  <2>6. QED
    BY <2>1, <2>3, <2>5
<1>4. CASE kind = "component"
  <2>1. LineOf(kind, i) = Gate(item)
    BY <1>4 DEF LineOf
  <2>2. \A n : EntryOf(kind, i, n) =
                 Entry("component", n, n, 0, item.connections["Y"].net, item.id,
                       <<"component", item.id>>)
    BY <1>4 DEF EntryOf
  <2>3. item \in ToSet(document.components)
    BY <1>4 DEF ItemsOf, ToSet
  <2>4. Gate(item).form = "assign"
    BY DEF Gate, Assignment
  <2>5. \A n : /\ EntryOf(kind, i, n).kind = "component"
               /\ EntryOf(kind, i, n).component = item.id
    BY <2>2 DEF Entry
  <2>6. QED
    BY <2>1, <2>3, <2>4, <2>5 DEF Shows
<1>5. QED
  BY <1>1, <1>2, <1>3, <1>4 DEF EntryKinds


\* The items taken, before and after a step that takes one.
LEMMA TakenGrows ==
  ASSUME NEW kind \in EntryKinds, NEW i, WritesItem(kind, i)
  PROVE  /\ i \notin Taken(kind)
         /\ \A other \in EntryKinds :
              Taken(other)' = IF other = kind THEN Taken(kind) \cup {i} ELSE Taken(other)
<1>1. \A other \in EntryKinds : ItemsOf(other)' = ItemsOf(other)
  BY LinesStay DEF WritesItem
<1>2. /\ stage' = stage /\ stage = SectionOf(kind) /\ i \in DOMAIN ItemsOf(kind)
      /\ i \in todo /\ todo' = todo \ {i}
  BY DEF WritesItem
<1>3. \A other \in EntryKinds :
        /\ SectionOf(other) = SectionOf(kind) => other = kind
        /\ SectionOf(other) \notin After(other)
  BY DEF EntryKinds, SectionOf, After
<1>4. stage \notin After(kind)
  BY <1>2, <1>3
<1>5. i \notin Taken(kind)
  BY <1>2, <1>4 DEF Taken
<1>6. \A other \in EntryKinds \ {kind} : Taken(other)' = Taken(other)
  <2>1. \A other \in EntryKinds \ {kind} : stage # SectionOf(other)
    BY <1>2, <1>3
  <2>2. QED
    BY <1>1, <1>2, <2>1 DEF Taken
<1>7. Taken(kind)' = Taken(kind) \cup {i}
  <2>1. Taken(kind)' = {j \in DOMAIN ItemsOf(kind) : j \notin todo \ {i}}
    BY <1>1, <1>2, <1>4 DEF Taken
  <2>2. Taken(kind) = {j \in DOMAIN ItemsOf(kind) : j \notin todo}
    BY <1>2, <1>4 DEF Taken
  <2>3. QED
    BY <1>2, <2>1, <2>2
<1>8. QED
  BY <1>5, <1>6, <1>7

\* Appending a line leaves the others where they are.
LEMMA Appended ==
  ASSUME NEW S, NEW s \in Seq(S), NEW x
  PROVE  /\ DOMAIN Append(s, x) = DOMAIN s \cup {Len(s) + 1} /\ Len(s) \in Nat
         /\ DOMAIN s = 1..Len(s) /\ Len(s) + 1 \notin DOMAIN s
         /\ Append(s, x)[Len(s) + 1] = x
         /\ \A n \in DOMAIN s : Append(s, x)[n] = s[n]
<1>1. s \in Seq(S \cup {x})
  OBVIOUS
<1>2. Len(s) \in Nat /\ DOMAIN s = 1..Len(s)
  OBVIOUS
<1>3. /\ Append(s, x) \in Seq(S \cup {x}) /\ Len(Append(s, x)) = Len(s) + 1
      /\ Append(s, x)[Len(s) + 1] = x
      /\ \A n \in 1..Len(s) : Append(s, x)[n] = s[n]
  BY <1>1
<1>4. 1..Len(s) + 1 = 1..Len(s) \cup {Len(s) + 1}
  BY <1>2
<1>5. QED
  BY <1>2, <1>3, <1>4

\* A section's step keeps lines, entries and items in step with one another.
LEMMA ItemKeepsTranscript ==
  ASSUME OneOfEachId, Transcript, \E S : lines \in Seq(S),
         NEW kind \in EntryKinds, NEW i, WritesItem(kind, i)
  PROVE  Transcript'
<1>1. PICK h : h = Here
  OBVIOUS
<1> DEFINE new  == EntryOf(kind, i, h)
           line == LineOf(kind, i)
<1>2. /\ i \in DOMAIN ItemsOf(kind) /\ lines' = Append(lines, line)
      /\ entries' = entries \cup {new} /\ UNCHANGED <<document, names>>
  BY <1>1 DEF WritesItem
<1>3. /\ DOMAIN lines' = DOMAIN lines \cup {h} /\ h \notin DOMAIN lines
      /\ lines'[h] = line /\ \A n \in DOMAIN lines : lines'[n] = lines[n]
  <2>1. PICK S : lines \in Seq(S)
    OBVIOUS
  <2>2. QED
    BY <1>1, <1>2, <2>1, Appended DEF Here
<1>4. /\ i \notin Taken(kind)
      /\ \A other \in EntryKinds :
           Taken(other)' = IF other = kind THEN Taken(kind) \cup {i} ELSE Taken(other)
  BY TakenGrows
<1>5. \A other \in EntryKinds : \A j :
        /\ ItemsOf(other)' = ItemsOf(other) /\ LineOf(other, j)' = LineOf(other, j)
        /\ \A n : EntryOf(other, j, n)' = EntryOf(other, j, n)
  BY <1>2, LinesStay
<1>6. \A other \in EntryKinds : Taken(other) \subseteq DOMAIN ItemsOf(other)
  BY DEF Taken
\* No entry yet points at the new line, and none is of the new item.
<1>7. \A other \in EntryKinds : \A j \in DOMAIN ItemsOf(other) : \A n :
        n = h \/ (other = kind /\ j = i) => EntryOf(other, j, n) \notin entries
  <2>1. SUFFICES ASSUME NEW other \in EntryKinds, NEW j \in DOMAIN ItemsOf(other), NEW n,
                        n = h \/ (other = kind /\ j = i),
                        EntryOf(other, j, n) \in entries
                 PROVE  FALSE
    OBVIOUS
  <2>2. EntryOf(other, j, n).kind # "module"
    BY EntrySpans DEF EntryKinds
  <2>3. PICK k, l, m :
          /\ k \in EntryKinds /\ l \in Taken(k) /\ m \in DOMAIN lines
          /\ EntryOf(other, j, n) = EntryOf(k, l, m)
    BY <2>1, <2>2 DEF Transcript
  <2>4. other = k /\ j = l /\ n = m
    BY <1>6, <2>3, EntriesDiffer
  <2>5. QED
    BY <1>3, <1>4, <2>1, <2>3, <2>4
\* The lines of the items afterwards: those of before, and the new one.
<1> DEFINE W(other, j, n) ==
             \/ WrittenAt(other, j, n)
             \/ other = kind /\ j = i /\ n = h
<1>8. \A other \in EntryKinds : \A j \in DOMAIN ItemsOf(other) : \A n :
        WrittenAt(other, j, n)' <=> W(other, j, n)
  <2>1. SUFFICES ASSUME NEW other \in EntryKinds, NEW j \in DOMAIN ItemsOf(other), NEW n
                 PROVE  WrittenAt(other, j, n)' <=> W(other, j, n)
    OBVIOUS
  <2>2. WrittenAt(other, j, n)' <=>
          /\ n \in DOMAIN lines' /\ lines'[n] = LineOf(other, j)
          /\ EntryOf(other, j, n) \in entries \cup {new}
    BY <1>2, <1>5 DEF WrittenAt
  <2>3. EntryOf(other, j, n) = new <=> other = kind /\ j = i /\ n = h
    BY <1>2, EntriesDiffer
  <2>4. line = LineOf(kind, i)
    OBVIOUS
  <2> HIDE DEF new, line
  <2>5. CASE n = h
    BY <1>3, <1>7, <2>2, <2>3, <2>4, <2>5 DEF WrittenAt
  <2>6. CASE n # h
    BY <1>3, <2>2, <2>3, <2>6 DEF WrittenAt
  <2>7. QED
    BY <2>5, <2>6
<1>9. \A other \in EntryKinds : \A j, n : WrittenAt(other, j, n) => n \in DOMAIN lines
  BY DEF WrittenAt
<1>10. \A j, n : WrittenAt(kind, i, n) => FALSE
  BY <1>2, <1>7 DEF WrittenAt
<1>11. \A other \in EntryKinds : \A j \in Taken(other)' : \E n \in DOMAIN lines' :
         WrittenAt(other, j, n)'
  <2>1. SUFFICES ASSUME NEW other \in EntryKinds, NEW j \in Taken(other)'
                 PROVE  \E n \in DOMAIN lines' : WrittenAt(other, j, n)'
    OBVIOUS
  <2>2. CASE other = kind /\ j = i
    BY <1>2, <1>3, <1>8, <2>2
  <2>3. CASE ~(other = kind /\ j = i)
    <3>1. j \in Taken(other) /\ j \in DOMAIN ItemsOf(other)
      BY <1>4, <1>6, <2>3
    <3>2. PICK n \in DOMAIN lines : WrittenAt(other, j, n)
      BY <3>1 DEF Transcript
    <3>3. WrittenAt(other, j, n)' /\ n \in DOMAIN lines'
      BY <1>3, <1>8, <3>1, <3>2
    <3>4. QED
      BY <3>3
  <2>4. QED
    BY <2>2, <2>3
<1>12. \A other \in EntryKinds : \A j \in DOMAIN ItemsOf(other)' : \A m, n \in DOMAIN lines' :
         WrittenAt(other, j, m)' /\ WrittenAt(other, j, n)' => m = n
  <2>1. SUFFICES ASSUME NEW other \in EntryKinds, NEW j \in DOMAIN ItemsOf(other), NEW m,
                        NEW n, W(other, j, m), W(other, j, n)
                 PROVE  m = n
    BY <1>5, <1>8
  <2>2. CASE other = kind /\ j = i
    BY <1>10, <2>1, <2>2
  <2>3. CASE ~(other = kind /\ j = i)
    BY <1>9, <2>1, <2>3 DEF Transcript
  <2>4. QED
    BY <2>2, <2>3
<1>13. \A n \in (Declarations \cup Assignments)' :
         \E other \in EntryKinds : \E j \in Taken(other)' : WrittenAt(other, j, n)'
  <2>1. SUFFICES ASSUME NEW n \in (Declarations \cup Assignments)'
                 PROVE  \E other \in EntryKinds : \E j \in Taken(other)' :
                          WrittenAt(other, j, n)'
    OBVIOUS
  <2>2. n \in DOMAIN lines' /\ lines'[n].form \in {"input", "output", "net", "assign"}
    BY DEF Declarations, Assignments
  <2>3. CASE n = h
    <3>1. i \in Taken(kind)'
      BY <1>4
    <3>2. WrittenAt(kind, i, n)'
      BY <1>2, <1>8, <2>3
    <3>3. QED
      BY <3>1, <3>2
  <2>4. CASE n # h
    <3>1. n \in Declarations \cup Assignments
      BY <1>3, <2>2, <2>4 DEF Declarations, Assignments
    <3>2. PICK other, j :
            other \in EntryKinds /\ j \in Taken(other) /\ WrittenAt(other, j, n)
      BY <3>1 DEF Transcript
    <3>3. j \in Taken(other)' /\ WrittenAt(other, j, n)'
      BY <1>4, <1>6, <1>8, <3>2
    <3>4. QED
      BY <3>2, <3>3
  <2>5. QED
    BY <2>3, <2>4
<1>14. \A e \in entries' :
         \/ e.kind = "module"
         \/ \E other \in EntryKinds : \E j \in Taken(other)' : \E n \in DOMAIN lines' :
              e = EntryOf(other, j, n)'
  <2>1. SUFFICES ASSUME NEW e \in entries', e.kind # "module"
                 PROVE  \E other \in EntryKinds : \E j \in Taken(other)' :
                          \E n \in DOMAIN lines' : e = EntryOf(other, j, n)'
    OBVIOUS
  <2>2. CASE e = new
    <3>1. e = EntryOf(kind, i, h)'
      BY <1>5, <2>2
    <3>2. i \in Taken(kind)' /\ h \in DOMAIN lines'
      BY <1>3, <1>4
    <3>3. QED
      BY <3>1, <3>2
  <2>3. CASE e \in entries
    <3>1. PICK other, j, n :
            /\ other \in EntryKinds /\ j \in Taken(other) /\ n \in DOMAIN lines
            /\ e = EntryOf(other, j, n)
      BY <2>1, <2>3 DEF Transcript
    <3>2. e = EntryOf(other, j, n)'
      BY <1>5, <3>1
    <3>3. j \in Taken(other)' /\ n \in DOMAIN lines'
      BY <1>3, <1>4, <3>1
    <3>4. QED
      BY <3>1, <3>2, <3>3
  <2>4. QED
    BY <1>2, <2>2, <2>3
<1>15. QED
  BY <1>11, <1>12, <1>13, <1>14 DEF Transcript


\* What an entry shows depends on the document and the names alone.
LEMMA ShowsStays ==
  ASSUME UNCHANGED <<document, names>>
  PROVE  \A e, line : Shows(e, line)' <=> Shows(e, line)
<1>1. \A c : Operand(c)' = Operand(c)
  BY DEF Operand
<1>2. \A c : Gate(c)' = Gate(c)
  BY <1>1 DEF Gate
<1>3. ToSet(document.components)' = ToSet(document.components)
  OBVIOUS
<1>4. QED
  BY <1>2, <1>3 DEF Shows

\* A section's step adds a line and the one entry that points at it.
LEMMA ItemKeepsSourceMap ==
  ASSUME document \in Documents, SourceMapExact, \E S : lines \in Seq(S),
         NEW kind \in EntryKinds, NEW i, WritesItem(kind, i)
  PROVE  SourceMapExact'
<1>1. PICK h : h = Here
  OBVIOUS
<1>2. PICK new : new = EntryOf(kind, i, h)
  OBVIOUS
<1>3. PICK line : line = LineOf(kind, i)
  OBVIOUS
<1>4. /\ i \in DOMAIN ItemsOf(kind) /\ lines' = Append(lines, line)
      /\ entries' = entries \cup {new} /\ UNCHANGED <<document, names>>
  BY <1>1, <1>2, <1>3 DEF WritesItem
<1>5. /\ DOMAIN lines' = DOMAIN lines \cup {h} /\ h \notin DOMAIN lines
      /\ lines'[h] = line /\ \A n \in DOMAIN lines : lines'[n] = lines[n]
      /\ h \in Nat /\ DOMAIN lines \subseteq Nat
  <2>1. PICK S : lines \in Seq(S)
    OBVIOUS
  <2>2. QED
    BY <1>1, <1>4, <2>1, Appended DEF Here
<1>6. new.first = h /\ new.last = h
  BY <1>2, EntrySpans
<1>7. \A n \in Nat : n \in new.first..new.last <=> n = h
  BY <1>5, <1>6
<1>8. line.form \in {"input", "output", "net", "assign"} /\ Shows(new, line)
  BY <1>2, <1>3, <1>4, LineForms
<1>9. \A e, l : Shows(e, l)' <=> Shows(e, l)
  BY <1>4, ShowsStays
<1>10. \A e \in entries : \A n \in e.first..e.last : n \in DOMAIN lines /\ Shows(e, lines[n])
  BY DEF SourceMapExact
<1> DEFINE Covers(n) == {e \in entries : n \in e.first..e.last}
           Covered(n) == {e \in entries' : n \in e.first..e.last}
<1>11. \A n \in DOMAIN lines :
         Cardinality(Covers(n)) = IF lines[n].form \in {"blank", "endmodule"} THEN 0 ELSE 1
  BY DEF SourceMapExact
<1>12. \A n \in DOMAIN lines : Covered(n) = Covers(n)
  BY <1>4, <1>5, <1>7
<1>13. Covered(h) = {new}
  BY <1>4, <1>5, <1>7, <1>10
<1>14. Cardinality(Covered(h)) = 1
  BY <1>13, FS_Singleton
<1> HIDE DEF Covers
<1>15. \A n \in DOMAIN lines' :
         Cardinality(Covered(n)) = IF lines'[n].form \in {"blank", "endmodule"} THEN 0 ELSE 1
  <2> SUFFICES ASSUME NEW n \in DOMAIN lines'
               PROVE  Cardinality(Covered(n))
                        = IF lines'[n].form \in {"blank", "endmodule"} THEN 0 ELSE 1
    OBVIOUS
  <2> HIDE DEF Covered
  <2>1. CASE n = h
    BY <1>5, <1>8, <1>14, <2>1
  <2>2. CASE n \in DOMAIN lines
    BY <1>5, <1>11, <1>12, <2>2
  <2>3. QED
    BY <1>5, <2>1, <2>2
<1>16. \A e \in entries' : \A n \in e.first..e.last : n \in DOMAIN lines' /\ Shows(e, lines'[n])
  <2>1. \A n \in new.first..new.last : n = h
    BY <1>5, <1>6
  <2>2. QED
    BY <1>4, <1>5, <1>8, <1>10, <2>1
<1>17. \A e \in entries' : \A n \in e.first..e.last : Shows(e, lines[n])'
  BY <1>9, <1>16
<1>18. QED
  BY <1>15, <1>16, <1>17 DEF SourceMapExact

\* Lines that belong to no item are put behind the others.
Padded ==
  /\ DOMAIN lines \subseteq DOMAIN lines'
  /\ \A n \in DOMAIN lines : lines'[n] = lines[n]
  /\ \A n \in DOMAIN lines' \ DOMAIN lines : lines'[n].form \in {"blank", "endmodule"}
  /\ UNCHANGED <<document, names, entries>>

LEMMA PaddingKeepsSourceMap ==
  ASSUME SourceMapExact, Padded
  PROVE  SourceMapExact'
<1> DEFINE Covers(n) == {e \in entries : n \in e.first..e.last}
<1>1. \A e, l : Shows(e, l)' <=> Shows(e, l)
  BY ShowsStays DEF Padded
<1>2. entries' = entries
  BY DEF Padded
<1>3. \A e \in entries : \A n \in e.first..e.last : n \in DOMAIN lines /\ Shows(e, lines[n])
  BY DEF SourceMapExact
<1>4. \A n \in DOMAIN lines :
        Cardinality(Covers(n)) = IF lines[n].form \in {"blank", "endmodule"} THEN 0 ELSE 1
  BY DEF SourceMapExact
<1>5. \A n \in DOMAIN lines' :
        Cardinality(Covers(n)) = IF lines'[n].form \in {"blank", "endmodule"} THEN 0 ELSE 1
  <2> SUFFICES ASSUME NEW n \in DOMAIN lines'
               PROVE  Cardinality(Covers(n))
                        = IF lines'[n].form \in {"blank", "endmodule"} THEN 0 ELSE 1
    OBVIOUS
  <2>1. CASE n \in DOMAIN lines
    BY <1>4, <2>1 DEF Padded
  <2>2. CASE n \notin DOMAIN lines
    <3>1. Covers(n) = {}
      BY <1>3, <2>2
    <3>2. Cardinality(Covers(n)) = 0
      BY <3>1, FS_EmptySet
    <3>3. QED
      BY <2>2, <3>2 DEF Padded
  <2>3. QED
    BY <2>1, <2>2
<1>6. \A e \in entries : \A n \in e.first..e.last :
        n \in DOMAIN lines' /\ Shows(e, lines[n])'
  <2> SUFFICES ASSUME NEW e \in entries, NEW n \in e.first..e.last
               PROVE  n \in DOMAIN lines' /\ Shows(e, lines[n])'
    OBVIOUS
  <2>1. n \in DOMAIN lines /\ Shows(e, lines[n])
    BY <1>3
  <2>2. PICK l : l = lines[n]
    OBVIOUS
  <2>3. n \in DOMAIN lines' /\ lines'[n] = l
    BY <2>1, <2>2 DEF Padded
  <2>4. Shows(e, l)'
    BY <1>1, <2>1, <2>2
  <2>5. QED
    BY <2>3, <2>4
<1>7. QED
  BY <1>2, <1>5, <1>6 DEF SourceMapExact

LEMMA PaddingKeepsTranscript ==
  ASSUME document \in Documents, Transcript, Padded,
         \A kind \in EntryKinds : Taken(kind)' = Taken(kind)
  PROVE  Transcript'
<1>1. \A kind \in EntryKinds : \A i :
        /\ ItemsOf(kind)' = ItemsOf(kind) /\ LineOf(kind, i)' = LineOf(kind, i)
        /\ \A n : EntryOf(kind, i, n)' = EntryOf(kind, i, n)
  BY LinesStay DEF Padded
<1>2. \A kind \in EntryKinds : \A i \in DOMAIN ItemsOf(kind) :
        LineOf(kind, i).form \notin {"blank", "endmodule"}
  BY LineForms
<1>3. \A kind \in EntryKinds : \A i \in DOMAIN ItemsOf(kind) : \A n :
        WrittenAt(kind, i, n)' <=> WrittenAt(kind, i, n)
  <2> SUFFICES ASSUME NEW kind \in EntryKinds, NEW i \in DOMAIN ItemsOf(kind), NEW n
               PROVE  WrittenAt(kind, i, n)' <=> WrittenAt(kind, i, n)
    OBVIOUS
  <2>1. WrittenAt(kind, i, n)' <=>
          n \in DOMAIN lines' /\ lines'[n] = LineOf(kind, i) /\ EntryOf(kind, i, n) \in entries
    BY <1>1 DEF WrittenAt, Padded
  <2>2. LineOf(kind, i).form \notin {"blank", "endmodule"}
    BY <1>2
  <2>3. QED
    BY <2>1, <2>2 DEF WrittenAt, Padded
<1>4. \A kind \in EntryKinds : Taken(kind) \subseteq DOMAIN ItemsOf(kind)
  BY DEF Taken
<1>5. \A kind \in EntryKinds : \A i, n : WrittenAt(kind, i, n) => n \in DOMAIN lines'
  BY DEF WrittenAt, Padded
<1>6. \A kind \in EntryKinds : \A i \in Taken(kind)' : \E n \in DOMAIN lines' :
        WrittenAt(kind, i, n)'
  BY <1>3, <1>4, <1>5 DEF Transcript
<1>7. \A kind \in EntryKinds : \A i \in DOMAIN ItemsOf(kind)' : \A m, n \in DOMAIN lines' :
        WrittenAt(kind, i, m)' /\ WrittenAt(kind, i, n)' => m = n
  <2>1. \A kind \in EntryKinds : \A i, n : WrittenAt(kind, i, n) => n \in DOMAIN lines
    BY DEF WrittenAt
  <2>2. QED
    BY <1>1, <1>3, <2>1 DEF Transcript
<1>8. (Declarations \cup Assignments)' = Declarations \cup Assignments
  BY DEF Declarations, Assignments, Padded
<1>9. \A n \in (Declarations \cup Assignments)' :
        \E kind \in EntryKinds : \E i \in Taken(kind)' : WrittenAt(kind, i, n)'
  <2> SUFFICES ASSUME NEW n \in Declarations \cup Assignments
               PROVE  \E kind \in EntryKinds : \E i \in Taken(kind)' : WrittenAt(kind, i, n)'
    BY <1>8
  <2>1. PICK kind, i : kind \in EntryKinds /\ i \in Taken(kind) /\ WrittenAt(kind, i, n)
    BY DEF Transcript
  <2>2. i \in Taken(kind)' /\ WrittenAt(kind, i, n)'
    BY <1>3, <1>4, <2>1
  <2>3. QED
    BY <2>1, <2>2
<1>10. \A e \in entries' :
         \/ e.kind = "module"
         \/ \E kind \in EntryKinds : \E i \in Taken(kind)' : \E n \in DOMAIN lines' :
              e = EntryOf(kind, i, n)'
  <2> SUFFICES ASSUME NEW e \in entries, e.kind # "module"
               PROVE  \E kind \in EntryKinds : \E i \in Taken(kind)' : \E n \in DOMAIN lines' :
                        e = EntryOf(kind, i, n)'
    BY DEF Padded
  <2>1. PICK kind, i, n :
          /\ kind \in EntryKinds /\ i \in Taken(kind) /\ n \in DOMAIN lines
          /\ e = EntryOf(kind, i, n)
    BY DEF Transcript
  <2>2. i \in Taken(kind)' /\ n \in DOMAIN lines' /\ e = EntryOf(kind, i, n)'
    BY <1>1, <2>1 DEF Padded
  <2>3. QED
    BY <2>1, <2>2
<1>11. QED
  BY <1>6, <1>7, <1>9, <1>10 DEF Transcript


LEMMA HeaderForms ==
  ASSUME document \in Documents
  PROVE  \E S : /\ HeaderLines \in Seq(S)
                /\ \A line \in S : line.form \in {"module", "header port", ");"}
<1> DEFINE first == [form |-> "module", name |-> names[Module]]
           last  == [form |-> ");"]
           S == {PortNames[i] : i \in DOMAIN document.ports} \cup {first, last}
           n == Len(document.ports)
<1>1. document.ports \in Seq(ToSet(document.ports))
  BY DocumentsAssumption
<1>2. n \in Nat /\ DOMAIN document.ports = 1..n
  BY <1>1
<1>3. PortNames = [i \in 1..n |-> PortNames[i]]
  BY <1>2 DEF PortNames
<1>4. \A i \in DOMAIN document.ports : PortNames[i].form = "header port"
  BY DEF PortNames
<1>5. \A line \in S : line.form \in {"module", "header port", ");"}
  <2>1. first.form = "module" /\ last.form = ");"
    OBVIOUS
  <2> HIDE DEF first, last
  <2>2. QED
    BY <1>4, <2>1
<1>6. HeaderLines = <<first>> \o IF document.ports = <<>> THEN <<>> ELSE PortNames \o <<last>>
  BY DEF HeaderLines
<1>7. first \in S /\ last \in S /\ \A i \in 1..n : PortNames[i] \in S
  BY <1>2
<1> HIDE DEF S, first, last
<1>8. PortNames \in [1..n -> S]
  BY <1>3, <1>7
<1>9. PortNames \in Seq(S)
  BY <1>2, <1>8
<1>10. HeaderLines \in Seq(S)
  BY <1>6, <1>7, <1>9
<1>11. QED
  BY <1>5, <1>10

\* The header is the first entry; no item is written yet.
LEMMA HeaderKeeps ==
  ASSUME document \in Documents, EmitHeader
  PROVE  Transcript' /\ SourceMapExact'
<1>1. PICK header, entry : header = HeaderLines /\ entry = HeaderEntry
  OBVIOUS
<1>2. PICK S : /\ header \in Seq(S)
               /\ \A line \in S : line.form \in {"module", "header port", ");"}
  BY <1>1, HeaderForms
<1>3. PICK k : k = Len(header)
  OBVIOUS
<1>4. /\ k \in Nat /\ DOMAIN header = 1..k
      /\ \A n \in 1..k : header[n].form \in {"module", "header port", ");"}
  <2>1. header \in Seq(S)
    BY <1>2
  <2>2. k \in Nat /\ DOMAIN header = 1..k /\ \A n \in 1..k : header[n] \in S
    BY <1>3, <2>1
  <2>3. QED
    BY <1>2, <2>2
<1>5. lines' = header \o <<Blank>> /\ entries' = {entry} /\ UNCHANGED <<document, names>>
        /\ stage' = "ports" /\ todo' = DOMAIN document.ports
  BY <1>1 DEF EmitHeader, input
<1>6. entry.kind = "module" /\ entry.first = 1 /\ entry.last = k
  BY <1>1, <1>3 DEF HeaderEntry, Entry
<1>7. PICK blank : blank = Blank
  OBVIOUS
<1>8. blank.form = "blank"
  BY <1>7 DEF Blank
<1>9. /\ DOMAIN lines' = 1..k + 1
      /\ \A n \in 1..k : lines'[n] = header[n]
      /\ lines'[k + 1] = blank
  <2>1. header \in Seq(S)
    BY <1>2
  <2>2. lines' = Append(header, blank)
    BY <1>5, <1>7, <2>1
  <2>3. /\ DOMAIN lines' = DOMAIN header \cup {k + 1} /\ lines'[k + 1] = blank
        /\ \A n \in DOMAIN header : lines'[n] = header[n]
    BY <1>3, <2>1, <2>2, Appended
  <2>4. 1..k \cup {k + 1} = 1..k + 1
    <3>1. k \in Nat
      BY <1>4
    <3>2. QED
      BY <3>1
  <2>5. QED
    BY <1>4, <2>3, <2>4
<1>10. \A n \in 1..k : lines'[n].form \in {"module", "header port", ");"}
  BY <1>4, <1>9
<1>11. lines'[k + 1].form = "blank"
  BY <1>8, <1>9
<1>12. \A n \in DOMAIN lines' : n \in 1..k \/ n = k + 1
  <2>1. k \in Nat /\ DOMAIN lines' = 1..k + 1
    BY <1>4, <1>9
  <2>2. QED
    BY <2>1
<1>13. SourceMapExact'
  <2>1. \A n \in DOMAIN lines' :
          Cardinality({e \in entries' : n \in e.first..e.last})
            = IF lines'[n].form \in {"blank", "endmodule"} THEN 0 ELSE 1
    <3>1. ASSUME NEW n \in 1..k
          PROVE  Cardinality({e \in entries' : n \in e.first..e.last}) = 1
      <4>1. n \in entry.first..entry.last
        BY <1>6
      <4>2. {e \in entries' : n \in e.first..e.last} = {entry}
        BY <1>5, <4>1
      <4>3. QED
        BY <4>2, FS_Singleton
    <3>2. Cardinality({e \in entries' : k + 1 \in e.first..e.last}) = 0
      <4>1. k + 1 \notin 1..k
        <5>1. k \in Nat
          BY <1>4
        <5>2. QED
          BY <5>1
      <4>2. k + 1 \notin entry.first..entry.last
        BY <1>6, <4>1
      <4>3. {e \in entries' : k + 1 \in e.first..e.last} = {}
        BY <1>5, <4>2
      <4>4. QED
        BY <4>3, FS_EmptySet
    <3>3. QED
      BY <1>10, <1>11, <1>12, <3>1, <3>2
  <2>2. ASSUME NEW e \in entries', NEW n \in e.first..e.last
        PROVE  n \in DOMAIN lines' /\ Shows(e, lines[n])'
    <3>1. n \in 1..k /\ e.kind = "module"
      BY <1>5, <1>6, <2>2
    <3>2. lines'[n].form \in {"module", "header port", ");"} /\ n \in DOMAIN lines'
      <4>1. 1..k \subseteq 1..k + 1
        <5>1. k \in Nat
          BY <1>4
        <5>2. QED
          BY <5>1
      <4>2. QED
        BY <1>9, <1>10, <3>1, <4>1
    <3>3. QED
      BY <3>1, <3>2 DEF Shows
  <2>3. QED
    BY <2>1, <2>2 DEF SourceMapExact
<1>14. Transcript'
  <2>1. \A kind \in EntryKinds : ItemsOf(kind)' = ItemsOf(kind)
    BY <1>5, LinesStay
  <2>2. ASSUME NEW kind \in EntryKinds
        PROVE  Taken(kind)' = {}
    <3>1. stage' \notin After(kind)
      BY <1>5, <2>2 DEF After, EntryKinds
    <3>2. CASE kind = "port"
      <4>1. ItemsOf(kind)' = document.ports
        BY <2>1, <3>2 DEF ItemsOf
      <4>2. QED
        BY <1>5, <3>1, <4>1 DEF Taken
    <3>3. CASE kind # "port"
      <4>1. SectionOf(kind) # "ports"
        BY <3>3 DEF SectionOf, EntryKinds
      <4>2. QED
        BY <1>5, <3>1, <4>1 DEF Taken
    <3>4. QED
      BY <3>2, <3>3
  <2>3. (Declarations \cup Assignments)' = {}
    BY <1>10, <1>11, <1>12 DEF Declarations, Assignments
  <2>4. ASSUME NEW kind \in EntryKinds, NEW i, NEW n
        PROVE  ~WrittenAt(kind, i, n)'
    <3>1. EntryOf(kind, i, n)' # entry
      <4>1. EntryOf(kind, i, n)' = EntryOf(kind, i, n)
        BY <1>5, LinesStay
      <4>2. EntryOf(kind, i, n).kind = kind /\ kind # "module"
        BY EntrySpans DEF EntryKinds
      <4>3. QED
        BY <1>6, <4>1, <4>2
    <3>2. QED
      BY <1>5, <3>1 DEF WrittenAt
  <2>5. QED
    BY <1>5, <1>6, <2>2, <2>3, <2>4 DEF Transcript
<1>15. QED
  BY <1>13, <1>14

LEMMA NothingWritten ==
  ASSUME lines = <<>>, entries = {}
  PROVE  SourceMapExact
<1>1. DOMAIN lines = {}
  OBVIOUS
<1>2. QED
  BY <1>1 DEF SourceMapExact

\* Which steps write, and what.
LEMMA WhatIsWritten ==
  ASSUME IInv, OutputInv, CompileStep
  PROVE  \/ /\ UNCHANGED <<lines, entries>>
            /\ ~Writing /\ ~Writing' /\ (stage' # "done" => result' = "none")
         \/ EmitHeader
         \/ \E kind \in EntryKinds : \E i : WritesItem(kind, i)
         \/ /\ Writing /\ Padded
            /\ \A kind \in EntryKinds : Taken(kind)' = Taken(kind)
            /\ Writing' /\ (stage' # "done" => result' = "none")
<1> USE DEF OutputInv
<1>1. CASE Read
  <2>1. Parse(document, notation) # "compiled"
    BY ParserSays
  <2>2. QED
    BY <1>1, <2>1 DEF Read, Stop, Writing, Sections
<1>2. CASE Reject \/ Normalize
  BY <1>2 DEF Reject, Normalize, Stop, Writing, Sections
<1>3. CASE NameModule \/ EndNaming
  BY <1>3 DEF NameModule, EndNaming, Writing, Sections
<1>4. CASE NamePort \/ NameNet \/ NameComponent
  BY <1>4 DEF NamePort, NameNet, NameComponent, NameItem, Writing, Sections
<1>5. CASE EmitHeader
  BY <1>5
<1>6. CASE DeclarePort
  <2>1. \E i : WritesItem("port", i)
    BY <1>6 DEF DeclarePort, EmitLine, IsNext, WritesItem, SectionOf, ItemsOf, LineOf, EntryOf,
                input
  <2>2. QED
    BY <2>1 DEF EntryKinds
<1>7. CASE DeclareNet
  <2>1. \E i : WritesItem("net", i)
    BY <1>7 DEF DeclareNet, EmitLine, IsNext, WritesItem, SectionOf, ItemsOf, LineOf, EntryOf,
                input
  <2>2. QED
    BY <2>1 DEF EntryKinds
<1>8. CASE AssignBoundary
  <2>1. \E i : WritesItem("boundary", i)
    BY <1>8 DEF AssignBoundary, EmitLine, IsNext, WritesItem, SectionOf, ItemsOf, LineOf,
                EntryOf, input
  <2>2. QED
    BY <2>1 DEF EntryKinds
<1>9. CASE AssignComponent
  <2>1. \E i : WritesItem("component", i)
    BY <1>9 DEF AssignComponent, EmitLine, IsNext, WritesItem, SectionOf, ItemsOf, LineOf,
                EntryOf, input
  <2>2. QED
    BY <2>1 DEF EntryKinds
<1>10. CASE EndSection
  <2>1. /\ stage \in {"ports", "nets", "boundary"} /\ todo = {}
        /\ lines' = Append(lines, Blank)
        /\ UNCHANGED <<document, names, entries, result>>
    BY <1>10 DEF EndSection, input
  <2>2. PICK S, blank : lines \in Seq(S) /\ blank = Blank
    BY <2>1 DEF IInv, LinesProgress
  <2>3. blank.form = "blank"
    BY <2>2 DEF Blank
  <2>4. Padded
    BY <2>1, <2>2, <2>3, Appended DEF Padded
  <2>5. ASSUME NEW kind \in EntryKinds
        PROVE  Taken(kind)' = Taken(kind)
    <3>1. ItemsOf(kind)' = ItemsOf(kind)
      BY <2>1, LinesStay
    <3>2. CASE stage = "ports"
      <4>1. stage' = "nets" /\ todo' = DOMAIN document.nets
        BY <1>10, <3>2 DEF EndSection
      <4>2. kind = "net" => ItemsOf(kind) = document.nets
        BY DEF ItemsOf
      <4>3. QED
        BY <2>1, <3>1, <3>2, <4>1, <4>2 DEF Taken, SectionOf, After, EntryKinds
    <3>3. CASE stage = "nets"
      <4>1. stage' = "boundary" /\ todo' = DOMAIN document.ports
        BY <1>10, <3>3 DEF EndSection
      <4>2. kind = "boundary" => ItemsOf(kind) = document.ports
        BY DEF ItemsOf
      <4>3. QED
        BY <2>1, <3>1, <3>3, <4>1, <4>2 DEF Taken, SectionOf, After, EntryKinds
    <3>4. CASE stage = "boundary"
      <4>1. stage' = "components" /\ todo' = DOMAIN document.components
        BY <1>10, <3>4 DEF EndSection
      <4>2. kind = "component" => ItemsOf(kind) = document.components
        BY DEF ItemsOf
      <4>3. QED
        BY <2>1, <3>1, <3>4, <4>1, <4>2 DEF Taken, SectionOf, After, EntryKinds
    <3>5. QED
      BY <2>1, <3>2, <3>3, <3>4
  <2>6. Writing /\ Writing'
    BY <1>10, <2>1 DEF EndSection, Writing, Sections
  <2>7. QED
    BY <2>1, <2>4, <2>5, <2>6
<1>11. CASE Finish
  <2>1. /\ stage = "components" /\ todo = {} /\ stage' = "done" /\ result' = "compiled"
        /\ UNCHANGED <<document, names, entries>>
    BY <1>11 DEF Finish, Stop, input
  <2>2. PICK S, blank, end : /\ lines \in Seq(S) /\ blank = Blank
                             /\ end = [form |-> "endmodule"]
    BY <2>1 DEF IInv, LinesProgress
  <2>3. blank.form = "blank" /\ end.form = "endmodule" /\ lines' = lines \o <<blank, end>>
    BY <1>11, <2>2 DEF Finish, Blank
  <2>4. /\ lines \in Seq(S \cup {blank, end}) /\ <<blank, end>> \in Seq(S \cup {blank, end})
        /\ Len(lines) \in Nat /\ DOMAIN lines = 1..Len(lines)
    BY <2>2
  <2>5. /\ DOMAIN lines' = 1..Len(lines) + 2
        /\ \A n \in 1..Len(lines) : lines'[n] = lines[n]
        /\ lines'[Len(lines) + 1] = blank /\ lines'[Len(lines) + 2] = end
    BY <2>3, <2>4
  <2>6. Padded
    <3>1. \A n \in DOMAIN lines' \ DOMAIN lines : n = Len(lines) + 1 \/ n = Len(lines) + 2
      BY <2>4, <2>5
    <3>2. DOMAIN lines \subseteq DOMAIN lines'
      BY <2>4, <2>5
    <3>3. QED
      BY <2>1, <2>3, <2>4, <2>5, <3>1, <3>2 DEF Padded
  <2>7. \A kind \in EntryKinds : Taken(kind)' = Taken(kind)
    <3>1. \A kind \in EntryKinds : ItemsOf(kind)' = ItemsOf(kind)
      BY <2>1, LinesStay
    <3>2. QED
      BY <2>1, <3>1 DEF Taken, SectionOf, After, EntryKinds
  <2>8. QED
    BY <2>1, <2>6, <2>7 DEF Writing, Sections
<1>12. QED
  BY <1>1, <1>2, <1>3, <1>4, <1>5, <1>6, <1>7, <1>8, <1>9, <1>10, <1>11 DEF CompileStep

LEMMA OutputKept ==
  ASSUME IInv, OutputInv, [AnswersNext]_allVars
  PROVE  OutputInv'
<1>0. document \in Documents
  BY DEF IInv
<1>1. CASE /\ UNCHANGED <<lines, entries>>
           /\ ~Writing /\ ~Writing' /\ (stage' # "done" => result' = "none")
  <2>1. lines' = <<>> /\ entries' = {}
    BY <1>1 DEF OutputInv
  <2>2. SourceMapExact'
    BY <2>1 DEF SourceMapExact
  <2>3. QED
    BY <1>1, <2>1, <2>2 DEF OutputInv
<1>2. CASE EmitHeader
  <2>1. Transcript' /\ SourceMapExact'
    BY <1>0, <1>2, HeaderKeeps
  <2>2. stage' = "ports" /\ result' = "none"
    BY <1>2 DEF EmitHeader, OutputInv
  <2>3. QED
    BY <2>1, <2>2 DEF OutputInv, Writing, Sections
<1>3. ASSUME NEW kind \in EntryKinds, NEW i, WritesItem(kind, i)
      PROVE  OutputInv'
  <2>1. stage \in Sections /\ stage' = stage /\ result' = result
    BY <1>3 DEF WritesItem, EntryKinds, SectionOf, Sections
  <2>2. /\ ~HasErrors(Report(document)) /\ result = "none"
        /\ Transcript /\ SourceMapExact /\ \E S : lines \in Seq(S)
    BY <2>1 DEF IInv, Answering, Underway, LinesProgress, OutputInv, Sections, Writing
  <2>3. Transcript'
    BY <1>3, <2>2, NoRepetition, ItemKeepsTranscript
  <2>4. SourceMapExact'
    BY <1>0, <1>3, <2>2, ItemKeepsSourceMap
  <2>5. QED
    BY <2>1, <2>2, <2>3, <2>4 DEF OutputInv, Writing
<1>4. CASE /\ Writing /\ Padded
           /\ \A kind \in EntryKinds : Taken(kind)' = Taken(kind)
           /\ Writing' /\ (stage' # "done" => result' = "none")
  <2>1. Transcript' /\ SourceMapExact'
    BY <1>0, <1>4, PaddingKeepsTranscript, PaddingKeepsSourceMap DEF OutputInv
  <2>2. QED
    BY <1>4, <2>1 DEF OutputInv
<1>5. CASE CompileStep
  BY <1>1, <1>2, <1>3, <1>4, <1>5, WhatIsWritten
<1>6. CASE Refuse
  <2>1. caller.fault # "compiled"
    BY DEF IInv, Answering, Callers, Amiss, Unreadable, Afterwards, NoDocument
  <2>2. QED
    BY <1>1, <1>6, <2>1 DEF Refuse, Stop, Writing, Sections, OutputInv
<1>7. CASE Judge
  BY <1>1, <1>7 DEF Judge, Stop, Writing, Sections, OutputInv
<1>8. CASE UNCHANGED allVars
  <2>1. UNCHANGED <<document, names, stage, todo, result, lines, entries>>
    BY <1>8 DEF allVars, vars, input
  <2>2. Padded
    BY <2>1 DEF Padded
  <2>3. \A kind \in EntryKinds : Taken(kind)' = Taken(kind)
    BY <2>1, LinesStay DEF Taken
  <2>4. CASE Writing
    BY <1>4, <2>1, <2>2, <2>3, <2>4 DEF OutputInv, Writing
  <2>5. CASE ~Writing
    BY <1>1, <2>1, <2>5 DEF OutputInv, Writing
  <2>6. QED
    BY <2>4, <2>5
<1>9. QED
  BY <1>5, <1>6, <1>7, <1>8 DEF AnswersNext, Compile, AllDone


\* All ports and nets have their identifiers before the first line is written.
PortsNamed ==
  \A i \in DOMAIN document.ports : <<"port", document.ports[i].id>> \in DOMAIN names

NamesKept ==
  /\ stage = "name ports" =>
       \A i \in DOMAIN document.ports \ todo :
         <<"port", document.ports[i].id>> \in DOMAIN names
  /\ stage \in {"name nets", "name components", "normalize", "header"} => PortsNamed
  /\ stage = "header" \/ Writing => PortsNamed /\ NetsNamed

LEMMA NamesKeptKept ==
  ASSUME IInv, OutputInv, NamesKept, [AnswersNext]_allVars
  PROVE  NamesKept'
<1>0. UNCHANGED document
  BY DocumentStays
<1>1. ~Writing /\ stage # "done" => result = "none"
  BY DEF OutputInv
<1>2. ASSUME DOMAIN names \subseteq DOMAIN names'
      PROVE  /\ PortsNamed => PortsNamed'
             /\ NetsNamed => NetsNamed'
  BY <1>0, <1>2 DEF PortsNamed, NetsNamed
<1>3. ASSUME NEW key, NEW name, GiveName(key, name), UNCHANGED <<stage, result>>,
             stage \in {"name ports", "name nets", "name components"}
      PROVE  /\ DOMAIN names' = DOMAIN names \cup {key} /\ ~Writing'
             /\ PortsNamed => PortsNamed'
             /\ NetsNamed => NetsNamed'
  <2>1. DOMAIN names' = DOMAIN names \cup {key}
    BY <1>3, GiveNameAdds
  <2>2. ~Writing'
    BY <1>3 DEF OutputInv, Writing, Sections
  <2>3. QED
    BY <1>2, <2>1, <2>2
<1>4. CASE NameModule
  <2>1. stage' = "name ports" /\ todo' = DOMAIN document.ports /\ ~Writing'
    BY <1>4 DEF NameModule, OutputInv, Writing, Sections
  <2>2. QED
    BY <1>0, <2>1 DEF NamesKept
<1>5. CASE NamePort
  <2>1. PICK i \in DOMAIN document.ports :
          /\ GiveName(<<"port", document.ports[i].id>>, document.ports[i].name)
          /\ todo' = todo \ {i} /\ UNCHANGED <<stage, result>> /\ stage = "name ports"
    BY <1>5 DEF NamePort, NameItem
  <2>2. /\ DOMAIN names' = DOMAIN names \cup {<<"port", document.ports[i].id>>}
        /\ ~Writing'
    BY <1>3, <2>1
  <2>3. \A j \in DOMAIN document.ports \ todo : <<"port", document.ports[j].id>> \in DOMAIN names
    BY <2>1 DEF NamesKept
  <2>4. QED
    BY <1>0, <2>1, <2>2, <2>3 DEF NamesKept
<1>6. CASE NameNet \/ NameComponent
  <2>1. PICK key, name : /\ GiveName(key, name) /\ UNCHANGED <<stage, result>>
                         /\ stage \in {"name nets", "name components"}
    BY <1>6 DEF NameNet, NameComponent, NameItem
  <2>2. PortsNamed' /\ ~Writing'
    BY <1>3, <2>1 DEF NamesKept
  <2>3. QED
    BY <2>1, <2>2 DEF NamesKept
<1>7. CASE EndNaming
  <2>1. /\ stage' \in {"name nets", "name components", "normalize"} /\ names' = names
        /\ ~Writing'
    BY <1>7 DEF EndNaming, OutputInv, Writing, Sections
  <2>2. PortsNamed
    BY <1>7 DEF EndNaming, NamesKept, PortsNamed
  <2>3. QED
    BY <1>2, <2>1, <2>2 DEF NamesKept
<1>8. CASE Normalize
  <2>1. PortsNamed /\ NetsNamed /\ names' = names
    BY <1>8 DEF Normalize, NamesKept, IInv, NamesProgress
  <2>2. (stage' = "header" /\ ~Writing') \/ (stage' = "done" /\ ~Writing')
    BY <1>8 DEF Normalize, Stop, OutputInv, Writing, Sections
  <2>3. QED
    BY <1>2, <2>1, <2>2 DEF NamesKept
<1>9. ASSUME stage = "header" \/ Writing, names' = names, stage' \in Sections \cup {"done"}
      PROVE  NamesKept'
  BY <1>2, <1>9 DEF NamesKept, Sections
<1>10. CASE EmitHeader \/ EndSection \/ Finish
  BY <1>9, <1>10 DEF EmitHeader, EndSection, Finish, Stop, Writing, Sections
<1>11. CASE DeclarePort \/ DeclareNet \/ AssignBoundary \/ AssignComponent
  BY <1>9, <1>11 DEF DeclarePort, DeclareNet, AssignBoundary, AssignComponent, EmitLine,
                     Writing, Sections
<1>12. ASSUME stage' \in {"validate", "done"}, ~Writing'
       PROVE  NamesKept'
  BY <1>12 DEF NamesKept
<1>13. CASE Read
  <2>1. Parse(document, notation) # "compiled"
    BY ParserSays
  <2>2. QED
    BY <1>12, <1>13, <2>1 DEF Read, Stop, OutputInv, Writing, Sections
<1>14. CASE Reject \/ Judge
  BY <1>12, <1>14 DEF Reject, Judge, Stop, Writing, Sections
<1>15. CASE Refuse
  <2>1. caller.fault # "compiled"
    BY DEF IInv, Answering, Callers, Amiss, Unreadable, Afterwards, NoDocument
  <2>2. QED
    BY <1>12, <1>15, <2>1 DEF Refuse, Stop, Writing, Sections
<1>16. CASE UNCHANGED allVars
  BY <1>0, <1>16 DEF allVars, vars, input, NamesKept, PortsNamed, NetsNamed, Writing
<1>17. QED
  BY <1>4, <1>5, <1>6, <1>7, <1>8, <1>10, <1>11, <1>13, <1>14, <1>15, <1>16
     DEF AnswersNext, Compile, CompileStep, AllDone

\* The invariant of what is written: lines, source map and items go together, and no line
\* needs a name that is not given.
WriterInv == OutputInv /\ NamesKept

\* The text under construction has what its items call for and nothing else, from the
\* report of the validator to the answer.
THEOREM WriterInvariant == AnswersSpec => [](IInv /\ WriterInv)
<1>1. AnswersInit => IInv /\ WriterInv
  <2> SUFFICES ASSUME AnswersInit PROVE IInv /\ WriterInv
    OBVIOUS
  <2>1. /\ stage \in {"read", "validate"} /\ result = "none"
        /\ lines = <<>> /\ entries = {}
    BY DEF AnswersInit, Init
  <2>2. SourceMapExact
    BY <2>1, NothingWritten
  <2>3. QED
    BY <2>1, <2>2, InitIInv DEF WriterInv, OutputInv, NamesKept, Writing, Sections
<1>2. IInv /\ WriterInv /\ [AnswersNext]_allVars => (IInv /\ WriterInv)'
  BY NamesProgressKept, LinesProgressKept, AnsweringKept, DocumentStays, OutputKept,
     NamesKeptKept DEF IInv, WriterInv
<1>3. QED
  BY <1>1, <1>2, PTL DEF AnswersSpec

\* Every line but the blank ones and the last belongs to exactly one entry of the source
\* map, whose item it was written for, at every moment (compiler.rs: LineEmitter).
THEOREM SourceMap == AnswersSpec => []SourceMapExact
<1>1. WriterInv => SourceMapExact
  BY DEF WriterInv, OutputInv
<1>2. QED
  BY <1>1, WriterInvariant, PTL

-----------------------------------------------------------------------------
(* The output as Verilog reads it.                                         *)

\* The facts about an accepted document that the output rests on.
NetWith(id) == {j \in DOMAIN document.nets : document.nets[j].id = id}

LEMMA NetsAreUnique ==
  ASSUME OneOfEachId
  PROVE  /\ Repeated(document.ports) = {} /\ Repeated(document.nets) = {}
         /\ Repeated(document.components) = {}
         /\ UniqueNets(document) = ToSet(document.nets)
         /\ \A j \in DOMAIN document.nets :
              /\ IsUnique(document, document.nets[j].id)
              /\ NetOf(document, document.nets[j].id) = document.nets[j]
<1>1. /\ ItemsOf("port") = document.ports /\ ItemsOf("net") = document.nets
      /\ ItemsOf("component") = document.components
  BY DEF ItemsOf
<1>2. \A items \in {document.ports, document.nets, document.components} :
        \A i, j \in DOMAIN items : items[i].id = items[j].id => i = j
  BY <1>1 DEF OneOfEachId, EntryKinds
<1>3. \A items \in {document.ports, document.nets, document.components} : Repeated(items) = {}
  BY <1>2 DEF Repeated
<1>4. UniqueNets(document) = ToSet(document.nets)
  BY <1>3 DEF UniqueNets
<1>5. ASSUME NEW j \in DOMAIN document.nets
      PROVE  /\ IsUnique(document, document.nets[j].id)
             /\ NetOf(document, document.nets[j].id) = document.nets[j]
  <2>1. document.nets[j] \in UniqueNets(document)
    BY <1>4 DEF ToSet
  <2>2. \A net \in UniqueNets(document) : net.id = document.nets[j].id => net = document.nets[j]
    BY <1>2, <1>4 DEF ToSet
  <2>3. QED
    BY <2>1, <2>2 DEF IsUnique, NetOf
<1>6. QED
  BY <1>3, <1>4, <1>5

LEMMA NoConnectivityErrors ==
  ASSUME ~HasErrors(Report(document)), NEW net \in UniqueNets(document)
  PROVE  /\ ~Contested(document, net)
         /\ \A e \in Consumers(document, net) :
              e.bits \subseteq UNION {d.bits : d \in Drivers(document, net)}
<1>1. Preflight(document) = {}
  <2>1. Preflight(document) \cap Warnings = {}
    BY DEF Preflight, When, Warnings
  <2>2. QED
    BY <2>1 DEF Report, HasErrors
<1>2. Connectivity(document) \subseteq Warnings
  BY <1>1 DEF Report, HasErrors
<1> DEFINE multiple == When(Contested(document, net), "NET_MULTIPLE_DRIVERS")
           missing  == When(\E e \in Consumers(document, net) :
                              ~(e.bits \subseteq UNION {d.bits : d \in Drivers(document, net)}),
                            "NET_NO_DRIVER")
<1>3. multiple \cup missing \subseteq Connectivity(document)
  <2> DEFINE Of(n) ==
        When(Contested(document, n), "NET_MULTIPLE_DRIVERS")
          \cup When(\E e \in Consumers(document, n) :
                      ~(e.bits \subseteq UNION {d.bits : d \in Drivers(document, n)}),
                    "NET_NO_DRIVER")
          \cup When(Consumers(document, n) = {} /\ Drivers(document, n) = {}, "NET_UNUSED")
          \cup When(Consumers(document, n) = {} /\ Drivers(document, n) # {},
                    "NET_NO_CONSUMERS")
  <2>1. Connectivity(document) = UNION {Of(n) : n \in UniqueNets(document)}
    BY DEF Connectivity
  <2>2. multiple \cup missing \subseteq Of(net)
    OBVIOUS
  <2> HIDE DEF Of, multiple, missing
  <2>3. Of(net) \subseteq UNION {Of(n) : n \in UniqueNets(document)}
    OBVIOUS
  <2>4. QED
    BY <2>1, <2>2, <2>3
<1>4. multiple \subseteq Warnings /\ missing \subseteq Warnings
  BY <1>2, <1>3
<1>5. QED
  BY <1>4 DEF When, Warnings

LEMMA WidthsArePositive ==
  ASSUME document \in Documents, ~HasErrors(Report(document)), NEW item \in Items(document)
  PROVE  item.width \in Nat /\ item.width > 0
<1>1. item.width \in Nat
  BY DocumentsAssumption
<1>2. ~SchemaErrors(document)
  BY AcceptedIsWithin
<1>3. item.width # 0
  BY <1>2 DEF SchemaErrors
<1>4. QED
  BY <1>1, <1>3

\* The net of a port has the port's width.
LEMMA PortFits ==
  ASSUME ~HasErrors(Report(document)), OneOfEachId, NEW p \in ToSet(document.ports)
  PROVE  \E j \in DOMAIN document.nets :
           document.nets[j].id = p.net /\ document.nets[j].width = p.width
<1>1. PortErrors(document, p) \subseteq Warnings
  BY AcceptedIsChecked
<1>2. p.net \in NetIds(document)
  BY <1>1 DEF PortErrors, Warnings
<1>3. PICK j \in DOMAIN document.nets : document.nets[j].id = p.net
  BY <1>2 DEF NetIds, ToSet
<1>4. ~(IsUnique(document, p.net) /\ NetOf(document, p.net).width # p.width)
  BY <1>1, <1>2 DEF PortErrors, When, Warnings
<1>5. QED
  BY <1>3, <1>4, NetsAreUnique

\* A connection selects as many bits of its net as the component is wide, all of them
\* there.
LEMMA ConnectionFits ==
  ASSUME document \in Documents, ~HasErrors(Report(document)), OneOfEachId,
         NEW c \in ToSet(document.components), NEW port \in LogicalPorts(c)
  PROVE  /\ InCatalog(c) /\ port \in DOMAIN c.connections
         /\ \E j \in DOMAIN document.nets :
              /\ document.nets[j].id = c.connections[port].net
              /\ BitsOf(c.connections[port], document.nets[j].width) # {}
              /\ Cardinality(BitsOf(c.connections[port], document.nets[j].width)) = c.width
<1>1. ComponentErrors(document, c) \subseteq Warnings
  BY AcceptedIsChecked
<1>2. InCatalog(c)
  BY <1>1 DEF ComponentErrors, Warnings
<1>3. ConnectionErrors(document, c, port) \subseteq Warnings
  <2> DEFINE connected == UNION {ConnectionErrors(document, c, q) : q \in LogicalPorts(c)}
  <2>1. connected \subseteq ComponentErrors(document, c)
    BY <1>2 DEF ComponentErrors
  <2>2. ConnectionErrors(document, c, port) \subseteq connected
    OBVIOUS
  <2>3. QED
    BY <1>1, <2>1, <2>2
<1>4. port \in DOMAIN c.connections
  BY <1>3 DEF ConnectionErrors, Warnings
<1>5. PICK connection : connection = c.connections[port]
  OBVIOUS
<1>6. ConnectedErrors(document, c, connection) \subseteq Warnings
  BY <1>3, <1>4, <1>5 DEF ConnectionErrors
<1>7. connection.net \in NetIds(document)
  BY <1>6 DEF ConnectedErrors, When, Warnings
<1>8. PICK j \in DOMAIN document.nets : document.nets[j].id = connection.net
  BY <1>7 DEF NetIds, ToSet
<1>9. PICK net : net = document.nets[j]
  OBVIOUS
<1>10. ConnectionWidth(c, connection, net) \subseteq Warnings
  <2>1. IsUnique(document, connection.net) /\ NetOf(document, connection.net) = net
    BY <1>8, <1>9, NetsAreUnique
  <2>2. ConnectionWidth(c, connection, net) \subseteq ConnectedErrors(document, c, connection)
    BY <2>1 DEF ConnectedErrors
  <2>3. QED
    BY <1>6, <2>2
<1>11. PICK bits : bits = BitsOf(connection, net.width)
  OBVIOUS
<1>12. ~(connection.sliced /\ bits = {}) /\ Cardinality(bits) = c.width
  BY <1>10, <1>11 DEF ConnectionWidth, When, Warnings
<1>13. bits # {}
  <2>1. c.width \in Nat /\ c.width > 0
    BY WidthsArePositive DEF Items
  <2>2. Cardinality({}) = 0
    BY FS_EmptySet
  <2>3. QED
    BY <1>12, <2>1, <2>2
<1>14. QED
  BY <1>2, <1>4, <1>5, <1>8, <1>9, <1>11, <1>12, <1>13

\* A literal has as many digits as the component is wide.
LEMMA LiteralFits ==
  ASSUME ~HasErrors(Report(document)), NEW c \in ToSet(document.components), c.type = "CONST"
  PROVE  c.parameters["value"].length = c.width
<1>1. ComponentErrors(document, c) \subseteq Warnings
  BY AcceptedIsChecked
<1>2. InCatalog(c)
  BY <1>1 DEF ComponentErrors, Warnings
<1>3. /\ ConstErrors(c) \subseteq ComponentErrors(document, c)
      /\ When(Required(c) \ DOMAIN c.parameters # {}, "COMPONENT_MISSING_PARAMETER")
           \subseteq ComponentErrors(document, c)
  <2> DEFINE connected == UNION {ConnectionErrors(document, c, q) : q \in LogicalPorts(c)}
             missing   == When(Required(c) \ DOMAIN c.parameters # {},
                               "COMPONENT_MISSING_PARAMETER")
  <2>1. \E other, more : ComponentErrors(document, c)
                           = connected \cup other \cup missing \cup more \cup ConstErrors(c)
    BY <1>2 DEF ComponentErrors
  <2> HIDE DEF connected, missing
  <2>2. ConstErrors(c) \cup missing \subseteq ComponentErrors(document, c)
    BY <2>1
  <2>3. QED
    BY <2>2 DEF missing
<1>4. "value" \in DOMAIN c.parameters
  BY <1>1, <1>3 DEF When, Warnings, Required
<1>5. ConstErrors(c) \subseteq Warnings
  BY <1>1, <1>3
<1>6. QED
  BY <1>4, <1>5 DEF ConstErrors, When, Warnings


\* All that is known when the last line is written.
Compiled ==
  /\ document \in Documents /\ ~HasErrors(Report(document)) /\ OneOfEachId
  /\ PortsNamed /\ NetsNamed /\ NamesSafeAndDistinct
  /\ Transcript /\ \A kind \in EntryKinds : Taken(kind) = DOMAIN ItemsOf(kind)

LEMMA CompiledIsWhole ==
  ASSUME IInv, WriterInv, NamesSafeAndDistinct, result = "compiled"
  PROVE  Compiled
<1>1. Writing /\ stage = "done"
  BY DEF WriterInv, OutputInv, Writing
<1>2. document \in Documents /\ Outcomes /\ Callers
  BY <1>1 DEF IInv, Answering
<1>3. caller.fault # "compiled"
  BY <1>2 DEF Callers, Amiss, Unreadable, Afterwards, NoDocument
<1>4. Parse(document, caller.text) # "compiled"
  BY ParserSays
<1>5. ~HasErrors(Report(document))
  BY <1>2, <1>3, <1>4 DEF Outcomes
<1>6. PortsNamed /\ NetsNamed /\ Transcript
  BY <1>1 DEF WriterInv, OutputInv, NamesKept
<1>7. \A kind \in EntryKinds : Taken(kind) = DOMAIN ItemsOf(kind)
  BY <1>1 DEF Taken, After
<1>8. QED
  BY <1>2, <1>5, <1>6, <1>7, NoRepetition DEF Compiled

\* The lines that declare, and those that assign.
Declared == {"port", "net"}
Assigned == {"boundary", "component"}

LEMMA DeclaringLine ==
  ASSUME document \in Documents, NEW kind \in Declared, NEW i \in DOMAIN ItemsOf(kind)
  PROVE  /\ LineOf(kind, i).form = IF kind = "port" THEN document.ports[i].dir ELSE "net"
         /\ LineOf(kind, i).form \in {"input", "output", "net"}
         /\ LineOf(kind, i).name = names[<<kind, ItemsOf(kind)[i].id>>]
         /\ LineOf(kind, i).width = ItemsOf(kind)[i].width
         /\ ItemsOf(kind)[i].width \in Nat
<1> DEFINE item == ItemsOf(kind)[i]
<1>1. CASE kind = "port"
  <2>1. item = document.ports[i] /\ item \in ToSet(document.ports)
    BY <1>1 DEF ItemsOf, ToSet
  <2>2. item.dir \in {"input", "output"} /\ item.width \in Nat
    BY <2>1, DocumentsAssumption DEF Items
  <2>3. LineOf(kind, i) = Declaration(item.dir, <<"port", item.id>>, item.width)
    BY <1>1 DEF LineOf
  <2> HIDE DEF item
  <2>4. QED
    BY <1>1, <2>1, <2>2, <2>3 DEF Declaration, item
<1>2. CASE kind = "net"
  <2>1. item \in ToSet(document.nets)
    BY <1>2 DEF ItemsOf, ToSet
  <2>2. item.width \in Nat
    BY <2>1, DocumentsAssumption DEF Items
  <2>3. LineOf(kind, i) = Declaration("net", <<"net", item.id>>, item.width)
    BY <1>2 DEF LineOf
  <2> HIDE DEF item
  <2>4. QED
    BY <1>2, <2>2, <2>3 DEF Declaration, item
<1>3. QED
  BY <1>1, <1>2 DEF Declared

LEMMA AssigningLine ==
  ASSUME NEW kind \in Assigned, NEW i
  PROVE  /\ LineOf(kind, i).form = "assign"
         /\ LineOf(kind, i) = IF kind = "boundary" THEN Boundary(document.ports[i])
                              ELSE Gate(document.components[i])
<1>1. CASE kind = "boundary"
  <2>1. LineOf(kind, i) = Boundary(document.ports[i])
    BY <1>1 DEF LineOf, ItemsOf
  <2>2. Boundary(document.ports[i]).form = "assign"
    BY DEF Boundary, Assignment
  <2>3. QED
    BY <1>1, <2>1, <2>2
<1>2. CASE kind = "component"
  <2>1. LineOf(kind, i) = Gate(document.components[i])
    BY <1>2 DEF LineOf, ItemsOf
  <2>2. Gate(document.components[i]).form = "assign"
    BY DEF Gate, Assignment
  <2>3. QED
    BY <1>2, <2>1, <2>2
<1>3. QED
  BY <1>1, <1>2 DEF Assigned

LEMMA KindsOfLines ==
  ASSUME Compiled
  PROVE  /\ \A m \in Declarations :
              \E kind \in Declared : \E i \in DOMAIN ItemsOf(kind) : WrittenAt(kind, i, m)
         /\ \A n \in Assignments :
              \E kind \in Assigned : \E i \in DOMAIN ItemsOf(kind) : WrittenAt(kind, i, n)
         /\ \A kind \in Declared : \A i \in DOMAIN ItemsOf(kind) : \A m :
              WrittenAt(kind, i, m) => m \in Declarations
         /\ \A kind \in Assigned : \A i \in DOMAIN ItemsOf(kind) : \A n :
              WrittenAt(kind, i, n) => n \in Assignments
<1>1. EntryKinds = Declared \cup Assigned
  BY DEF EntryKinds, Declared, Assigned
<1>2. \A kind \in Declared : \A i \in DOMAIN ItemsOf(kind) : \A m : WrittenAt(kind, i, m) =>
        m \in DOMAIN lines /\ lines[m].form \in {"input", "output", "net"}
  BY DeclaringLine DEF WrittenAt, Compiled
<1>3. \A kind \in Assigned : \A i, n : WrittenAt(kind, i, n) =>
        n \in DOMAIN lines /\ lines[n].form = "assign"
  BY AssigningLine DEF WrittenAt
<1>4. \A n \in Declarations \cup Assignments :
        \E kind \in EntryKinds : \E i \in DOMAIN ItemsOf(kind) : WrittenAt(kind, i, n)
  BY DEF Compiled, Transcript
<1>5. ASSUME NEW n \in Declarations \cup Assignments
      PROVE  /\ n \in Declarations => lines[n].form \in {"input", "output", "net"}
             /\ n \in Assignments => lines[n].form = "assign"
             /\ n \in DOMAIN lines
  BY DEF Declarations, Assignments
<1>6. ASSUME NEW m \in Declarations
      PROVE  \E kind \in Declared : \E i \in DOMAIN ItemsOf(kind) : WrittenAt(kind, i, m)
  <2>1. PICK kind, i :
          kind \in EntryKinds /\ i \in DOMAIN ItemsOf(kind) /\ WrittenAt(kind, i, m)
    BY <1>4
  <2>2. kind \in Declared
    BY <1>1, <1>3, <1>5, <2>1
  <2>3. QED
    BY <2>1, <2>2
<1>7. ASSUME NEW n \in Assignments
      PROVE  \E kind \in Assigned : \E i \in DOMAIN ItemsOf(kind) : WrittenAt(kind, i, n)
  <2>1. PICK kind, i :
          kind \in EntryKinds /\ i \in DOMAIN ItemsOf(kind) /\ WrittenAt(kind, i, n)
    BY <1>4
  <2>2. kind \in Assigned
    BY <1>1, <1>2, <1>5, <2>1
  <2>3. QED
    BY <2>1, <2>2
<1>8. \A kind \in Declared : \A i \in DOMAIN ItemsOf(kind) : \A m :
        WrittenAt(kind, i, m) => m \in Declarations
  BY <1>2 DEF Declarations
<1>9. \A kind \in Assigned : \A i \in DOMAIN ItemsOf(kind) : \A n :
        WrittenAt(kind, i, n) => n \in Assignments
  BY <1>3 DEF Assignments
<1>10. QED
  BY <1>6, <1>7, <1>8, <1>9

\* A name stands for one port or net.
LEMMA NameTellsItem ==
  ASSUME Compiled, NEW kind \in Declared, NEW other \in Declared,
         NEW i \in DOMAIN ItemsOf(kind), NEW j \in DOMAIN ItemsOf(other),
         names[<<kind, ItemsOf(kind)[i].id>>] = names[<<other, ItemsOf(other)[j].id>>]
  PROVE  kind = other /\ i = j
<1>1. \A k \in Declared : \A l \in DOMAIN ItemsOf(k) : <<k, ItemsOf(k)[l].id>> \in DOMAIN names
  BY DEF Compiled, PortsNamed, NetsNamed, Declared, ItemsOf
<1>2. <<kind, ItemsOf(kind)[i].id>> = <<other, ItemsOf(other)[j].id>>
  BY <1>1 DEF Compiled, NamesSafeAndDistinct
<1>3. kind = other /\ ItemsOf(kind)[i].id = ItemsOf(kind)[j].id
  BY <1>2
<1>4. QED
  BY <1>3 DEF Compiled, OneOfEachId, Declared, EntryKinds

\* Its declaration is there, and is the only one.
LEMMA OneDeclaration ==
  ASSUME Compiled, NEW kind \in Declared, NEW i \in DOMAIN ItemsOf(kind)
  PROVE  \E m \in Declarations :
           /\ WrittenAt(kind, i, m)
           /\ lines[m].name = names[<<kind, ItemsOf(kind)[i].id>>]
           /\ lines[m].width = ItemsOf(kind)[i].width
           /\ \A n \in Declarations :
                lines[n].name = names[<<kind, ItemsOf(kind)[i].id>>] => n = m
           /\ DeclarationOf(names[<<kind, ItemsOf(kind)[i].id>>]) = m
<1>1. kind \in EntryKinds /\ document \in Documents
  BY DEF Declared, EntryKinds, Compiled
<1>2. PICK m : WrittenAt(kind, i, m)
  BY <1>1 DEF Compiled, Transcript
<1>3. m \in Declarations /\ lines[m] = LineOf(kind, i)
  BY <1>2, KindsOfLines DEF WrittenAt
<1>4. /\ lines[m].name = names[<<kind, ItemsOf(kind)[i].id>>]
      /\ lines[m].width = ItemsOf(kind)[i].width
  BY <1>1, <1>3, DeclaringLine
<1>5. ASSUME NEW n \in Declarations, lines[n].name = names[<<kind, ItemsOf(kind)[i].id>>]
      PROVE  n = m
  <2>1. PICK other, j :
          other \in Declared /\ j \in DOMAIN ItemsOf(other) /\ WrittenAt(other, j, n)
    BY KindsOfLines
  <2>2. lines[n].name = names[<<other, ItemsOf(other)[j].id>>]
    BY <1>1, <2>1, DeclaringLine DEF WrittenAt
  <2>3. names[<<kind, ItemsOf(kind)[i].id>>] = names[<<other, ItemsOf(other)[j].id>>]
    BY <1>5, <2>2
  <2>4. kind = other /\ i = j
    BY <2>1, <2>3, NameTellsItem, Zenon
  <2>5. QED
    BY <1>1, <1>2, <2>1, <2>4 DEF Compiled, Transcript, WrittenAt
<1>6. DeclarationOf(names[<<kind, ItemsOf(kind)[i].id>>]) = m
  BY <1>3, <1>4, <1>5 DEF DeclarationOf
<1>7. QED
  BY <1>2, <1>3, <1>4, <1>5, <1>6

\* The bits that an operand names.
LEMMA WholeBits ==
  ASSUME Compiled, NEW kind \in Declared, NEW i \in DOMAIN ItemsOf(kind)
  PROVE  BitsRead(Whole(names[<<kind, ItemsOf(kind)[i].id>>])) = 0..ItemsOf(kind)[i].width - 1
<1>1. PICK name : name = names[<<kind, ItemsOf(kind)[i].id>>]
  OBVIOUS
<1>2. lines[DeclarationOf(name)].width = ItemsOf(kind)[i].width
  BY <1>1, OneDeclaration
<1>3. Whole(name).select = <<>> /\ Whole(name).name = name
  BY DEF Whole
<1>4. QED
  BY <1>1, <1>2, <1>3 DEF BitsRead

LEMMA OperandBits ==
  ASSUME Compiled, NEW c \in ToSet(document.components), NEW port \in LogicalPorts(c)
  PROVE  \E j \in DOMAIN document.nets :
           LET net  == document.nets[j]
               bits == BitsOf(c.connections[port], net.width)
           IN  /\ net.id = c.connections[port].net
               /\ Operand(c.connections[port]).name = names[<<"net", net.id>>]
               /\ BitsRead(Operand(c.connections[port])) = bits
               /\ bits # {} /\ Cardinality(bits) = c.width /\ bits \subseteq 0..net.width - 1
               /\ port \in DOMAIN c.connections /\ InCatalog(c)
<1>1. document \in Documents /\ ~HasErrors(Report(document)) /\ OneOfEachId
  BY DEF Compiled
<1>2. PICK connection : connection = c.connections[port]
  OBVIOUS
<1>3. PICK j \in DOMAIN document.nets :
        /\ document.nets[j].id = connection.net
        /\ BitsOf(connection, document.nets[j].width) # {}
        /\ Cardinality(BitsOf(connection, document.nets[j].width)) = c.width
  BY <1>1, <1>2, ConnectionFits
<1>4. port \in DOMAIN c.connections /\ InCatalog(c)
  BY <1>1, ConnectionFits
<1>5. connection.sliced \in BOOLEAN /\ connection.msb \in Nat /\ connection.lsb \in Nat
  BY <1>1, <1>2, <1>4, DocumentsAssumption
<1>6. PICK w : w = document.nets[j].width
  OBVIOUS
<1>7. w \in Nat
  BY <1>1, <1>6, DocumentsAssumption DEF Items, ToSet
<1>8. PICK operand : operand = Operand(connection)
  OBVIOUS
<1>9. /\ operand.name = names[<<"net", document.nets[j].id>>]
      /\ operand.select = IF connection.sliced THEN <<connection.msb, connection.lsb>>
                          ELSE <<>>
  BY <1>3, <1>8 DEF Operand
<1>10. lines[DeclarationOf(operand.name)].width = w
  <2>1. ItemsOf("net") = document.nets /\ "net" \in Declared
    BY DEF ItemsOf, Declared
  <2>2. QED
    BY <1>6, <1>9, <2>1, OneDeclaration
<1>11. BitsOf(connection, w) # {} /\ Cardinality(BitsOf(connection, w)) = c.width
  BY <1>3, <1>6
<1>12. /\ BitsRead(operand) = BitsOf(connection, w)
       /\ BitsOf(connection, w) \subseteq 0..w - 1
  <2>1. CASE ~connection.sliced
    BY <1>9, <1>10, <2>1 DEF BitsRead, BitsOf
  <2>2. CASE connection.sliced
    <3>1. ~(connection.lsb > connection.msb \/ connection.msb >= w)
      BY <1>11, <2>2 DEF BitsOf
    <3>2. BitsOf(connection, w) = connection.lsb..connection.msb
      BY <2>2, <3>1 DEF BitsOf
    <3>3. BitsRead(operand) = connection.lsb..connection.msb
      BY <1>9, <2>2 DEF BitsRead
    <3>4. connection.lsb..connection.msb \subseteq 0..w - 1
      BY <1>5, <1>7, <3>1
    <3>5. QED
      BY <3>2, <3>3, <3>4
  <2>3. QED
    BY <1>5, <2>1, <2>2
<1>13. QED
  BY <1>2, <1>3, <1>4, <1>6, <1>8, <1>9, <1>11, <1>12


\* What a boundary and a component assign, and from what.
LEMMA BoundaryOperands ==
  ASSUME Compiled, NEW i \in DOMAIN document.ports
  PROVE  \E j \in DOMAIN document.nets :
           LET p == document.ports[i]
               port == Whole(names[<<"port", p.id>>])
               net  == Whole(names[<<"net", document.nets[j].id>>])
           IN  /\ document.nets[j].id = p.net /\ document.nets[j].width = p.width
               /\ p.dir \in {"input", "output"} /\ p.width \in Nat /\ p.width > 0
               /\ BitsRead(port) = 0..p.width - 1 /\ BitsRead(net) = 0..p.width - 1
               /\ Boundary(p).left = IF p.dir = "input" THEN net ELSE port
               /\ Boundary(p).right = IF p.dir = "input" THEN {port} ELSE {net}
               /\ Boundary(p).bits = 0
<1>1. PICK p : p = document.ports[i]
  OBVIOUS
<1>2. document \in Documents /\ ~HasErrors(Report(document)) /\ OneOfEachId
  BY DEF Compiled
<1>3. p \in ToSet(document.ports)
  BY <1>1 DEF ToSet
<1>4. PICK j \in DOMAIN document.nets :
        document.nets[j].id = p.net /\ document.nets[j].width = p.width
  BY <1>2, <1>3, PortFits
<1>5. p.dir \in {"input", "output"}
  BY <1>2, <1>3, DocumentsAssumption
<1>6. p.width \in Nat /\ p.width > 0
  BY <1>2, <1>3, WidthsArePositive DEF Items
<1>7. PICK port, net : /\ port = Whole(names[<<"port", p.id>>])
                       /\ net = Whole(names[<<"net", document.nets[j].id>>])
  OBVIOUS
<1>8. BitsRead(port) = 0..p.width - 1
  <2>1. ItemsOf("port") = document.ports /\ "port" \in Declared
    BY DEF ItemsOf, Declared
  <2>2. QED
    BY <1>1, <1>7, <2>1, WholeBits
<1>9. BitsRead(net) = 0..p.width - 1
  <2>1. ItemsOf("net") = document.nets /\ "net" \in Declared
    BY DEF ItemsOf, Declared
  <2>2. BitsRead(net) = 0..document.nets[j].width - 1
    BY <1>7, <2>1, WholeBits
  <2>3. QED
    BY <1>4, <2>2
<1>10. /\ Boundary(p).left = IF p.dir = "input" THEN net ELSE port
       /\ Boundary(p).right = IF p.dir = "input" THEN {port} ELSE {net}
       /\ Boundary(p).bits = 0
  BY <1>4, <1>7 DEF Boundary, Assignment
<1>11. QED
  BY <1>1, <1>4, <1>5, <1>6, <1>7, <1>8, <1>9, <1>10

LEMMA OutputWellFormed ==
  ASSUME Compiled
  PROVE  /\ \A m, n \in Declarations : lines[m].name = lines[n].name => m = n
         /\ \A n \in Assignments : \A operand \in Operands(n) :
              /\ \E m \in Declarations :
                   /\ lines[m].name = operand.name
                   /\ BitsRead(operand) \subseteq 0..lines[m].width - 1
              /\ BitsRead(operand) # {}
              /\ Cardinality(BitsRead(operand)) = Cardinality(BitsRead(lines[n].left))
              /\ lines[n].bits \in {0, Cardinality(BitsRead(operand))}
<1>0. document \in Documents /\ ~HasErrors(Report(document)) /\ OneOfEachId
  BY DEF Compiled
<1>1. ASSUME NEW m \in Declarations, NEW n \in Declarations, lines[m].name = lines[n].name
      PROVE  m = n
  <2>1. PICK kind, i :
          kind \in Declared /\ i \in DOMAIN ItemsOf(kind) /\ WrittenAt(kind, i, m)
    BY KindsOfLines
  <2>2. lines[m].name = names[<<kind, ItemsOf(kind)[i].id>>]
    BY <1>0, <2>1, DeclaringLine DEF WrittenAt
  <2>3. PICK k \in Declarations :
          \A l \in Declarations :
            lines[l].name = names[<<kind, ItemsOf(kind)[i].id>>] => l = k
    BY <2>1, OneDeclaration
  <2>4. QED
    BY <1>1, <2>2, <2>3
\* An operand names bits of a net or port that is declared.
<1>2. ASSUME NEW kind \in Declared, NEW i \in DOMAIN ItemsOf(kind), NEW operand,
             operand.name = names[<<kind, ItemsOf(kind)[i].id>>],
             BitsRead(operand) \subseteq 0..ItemsOf(kind)[i].width - 1
      PROVE  \E m \in Declarations :
               /\ lines[m].name = operand.name
               /\ BitsRead(operand) \subseteq 0..lines[m].width - 1
  <2>1. PICK m \in Declarations :
          /\ lines[m].name = names[<<kind, ItemsOf(kind)[i].id>>]
          /\ lines[m].width = ItemsOf(kind)[i].width
    BY OneDeclaration
  <2>2. QED
    BY <1>2, <2>1
<1>3. /\ "port" \in Declared /\ "net" \in Declared
      /\ ItemsOf("port") = document.ports /\ ItemsOf("net") = document.nets
  BY DEF Declared, ItemsOf
<1> DEFINE Sound(n, operand) ==
             /\ \E m \in Declarations :
                  /\ lines[m].name = operand.name
                  /\ BitsRead(operand) \subseteq 0..lines[m].width - 1
             /\ BitsRead(operand) # {}
             /\ Cardinality(BitsRead(operand)) = Cardinality(BitsRead(lines[n].left))
             /\ lines[n].bits \in {0, Cardinality(BitsRead(operand))}
<1>4. ASSUME NEW n \in Assignments, NEW i \in DOMAIN document.ports,
             lines[n] = Boundary(document.ports[i]), NEW operand \in Operands(n)
      PROVE  Sound(n, operand)
  <2>1. PICK p : p = document.ports[i]
    OBVIOUS
  <2>2. PICK j \in DOMAIN document.nets :
          LET port == Whole(names[<<"port", p.id>>])
              net  == Whole(names[<<"net", document.nets[j].id>>])
          IN  /\ document.nets[j].width = p.width
              /\ p.width \in Nat /\ p.width > 0
              /\ BitsRead(port) = 0..p.width - 1 /\ BitsRead(net) = 0..p.width - 1
              /\ Boundary(p).left = IF p.dir = "input" THEN net ELSE port
              /\ Boundary(p).right = IF p.dir = "input" THEN {port} ELSE {net}
              /\ Boundary(p).bits = 0
    BY <2>1, BoundaryOperands
  <2>3. PICK port, net : /\ port = Whole(names[<<"port", p.id>>])
                         /\ net = Whole(names[<<"net", document.nets[j].id>>])
    OBVIOUS
  <2>4. port.name = names[<<"port", p.id>>] /\ net.name = names[<<"net", document.nets[j].id>>]
    BY <2>3 DEF Whole
  <2>5. lines[n].left \in {port, net} /\ operand \in {port, net} /\ lines[n].bits = 0
    BY <1>4, <2>1, <2>2, <2>3 DEF Operands
  <2>6. BitsRead(port) = 0..p.width - 1 /\ BitsRead(net) = 0..p.width - 1
    BY <2>2, <2>3
  <2>7. 0..p.width - 1 # {}
    <3>1. p.width \in Nat /\ p.width > 0
      BY <2>2
    <3>2. 0 \in 0..p.width - 1
      BY <3>1
    <3>3. QED
      BY <3>2
  <2>8. \E m \in Declarations :
          /\ lines[m].name = operand.name
          /\ BitsRead(operand) \subseteq 0..lines[m].width - 1
    <3>1. CASE operand = port
      <4>1. /\ operand.name = names[<<"port", ItemsOf("port")[i].id>>]
            /\ BitsRead(operand) \subseteq 0..ItemsOf("port")[i].width - 1
        BY <1>3, <2>1, <2>4, <2>6, <3>1
      <4>2. QED
        BY <1>2, <1>3, <4>1
    <3>2. CASE operand = net
      BY <1>2, <1>3, <2>2, <2>4, <2>6, <3>2
    <3>3. QED
      BY <2>5, <3>1, <3>2
  <2>9. QED
    BY <2>5, <2>6, <2>7, <2>8
<1>5. ASSUME NEW n \in Assignments, NEW i \in DOMAIN document.components,
             lines[n] = Gate(document.components[i]), NEW operand \in Operands(n)
      PROVE  Sound(n, operand)
  <2>1. PICK c : c = document.components[i]
    OBVIOUS
  <2>2. c \in ToSet(document.components)
    BY <2>1 DEF ToSet
  <2>3. /\ lines[n].left = Operand(c.connections["Y"])
        /\ lines[n].right = {Operand(c.connections[port]) : port \in Inputs(c)}
        /\ lines[n].bits = IF c.type = "CONST" THEN c.parameters["value"].length ELSE 0
    BY <1>5, <2>1 DEF Gate, Assignment
  <2>4. ASSUME NEW port \in LogicalPorts(c)
        PROVE  LET o == Operand(c.connections[port])
               IN  /\ \E m \in Declarations :
                        /\ lines[m].name = o.name
                        /\ BitsRead(o) \subseteq 0..lines[m].width - 1
                   /\ BitsRead(o) # {} /\ Cardinality(BitsRead(o)) = c.width
    <3>1. PICK o : o = Operand(c.connections[port])
      OBVIOUS
    <3>2. PICK j \in DOMAIN document.nets :
            LET net  == document.nets[j]
                bits == BitsOf(c.connections[port], net.width)
            IN  /\ o.name = names[<<"net", net.id>>] /\ BitsRead(o) = bits
                /\ bits # {} /\ Cardinality(bits) = c.width /\ bits \subseteq 0..net.width - 1
      BY <2>2, <3>1, OperandBits
    <3>3. \E m \in Declarations :
            /\ lines[m].name = o.name
            /\ BitsRead(o) \subseteq 0..lines[m].width - 1
      BY <1>2, <1>3, <3>2
    <3>4. QED
      BY <3>1, <3>2, <3>3
  <2>5. PICK port \in LogicalPorts(c) : operand = Operand(c.connections[port])
    BY <2>3 DEF Operands, LogicalPorts
  <2>6. "Y" \in LogicalPorts(c)
    BY DEF LogicalPorts
  <2>7. Cardinality(BitsRead(lines[n].left)) = c.width
    BY <2>3, <2>4, <2>6
  <2>8. lines[n].bits \in {0, c.width}
    BY <1>0, <2>2, <2>3, LiteralFits
  <2>9. QED
    BY <2>4, <2>5, <2>7, <2>8
<1>6. ASSUME NEW n \in Assignments, NEW operand \in Operands(n)
      PROVE  Sound(n, operand)
  <2>1. PICK kind, i :
          kind \in Assigned /\ i \in DOMAIN ItemsOf(kind) /\ WrittenAt(kind, i, n)
    BY KindsOfLines
  <2>2. lines[n] = IF kind = "boundary" THEN Boundary(document.ports[i])
                   ELSE Gate(document.components[i])
    BY <2>1, AssigningLine DEF WrittenAt
  <2>3. CASE kind = "boundary"
    BY <1>4, <2>1, <2>2, <2>3 DEF ItemsOf
  <2>4. CASE kind = "component"
    BY <1>5, <2>1, <2>2, <2>4 DEF ItemsOf
  <2>5. QED
    BY <2>1, <2>3, <2>4 DEF Assigned
<1>7. QED
  BY <1>1, <1>6

\* In the text of every compilation each name is declared once, each operand lies within
\* its declaration, and the sides of an assignment are equally wide (compiler.rs:
\* emit_verilog, after validation.rs).
THEOREM WellFormedOutput == AnswersSpec => []OutputIsWellFormed
<1>1. IInv /\ WriterInv /\ NamesSafeAndDistinct => OutputIsWellFormed
  BY CompiledIsWhole, OutputWellFormed DEF OutputIsWellFormed
<1>2. QED
  BY <1>1, WriterInvariant, SafeAndDistinct, PTL


\* Lines and ends of nets: what assigns to a net is a driver of it, ...
LEMMA AssigningIsDriving ==
  ASSUME Compiled, NEW j \in DOMAIN document.nets, NEW kind \in Assigned,
         NEW i \in DOMAIN ItemsOf(kind),
         LineOf(kind, i).left.name = names[<<"net", document.nets[j].id>>]
  PROVE  \E e \in Drivers(document, document.nets[j]) :
           /\ e.at = <<IF kind = "boundary" THEN "port" ELSE "Y", i>>
           /\ e.bits = BitsRead(LineOf(kind, i).left)
<1>0. /\ "port" \in Declared /\ "net" \in Declared
      /\ ItemsOf("port") = document.ports /\ ItemsOf("net") = document.nets
  BY DEF Declared, ItemsOf
<1>1. PICK net : net = document.nets[j]
  OBVIOUS
<1>2. OneOfEachId
  BY DEF Compiled
<1>3. CASE kind = "boundary"
  <2>1. i \in DOMAIN document.ports /\ LineOf(kind, i) = Boundary(document.ports[i])
    BY <1>3, AssigningLine DEF ItemsOf
  <2>2. PICK p : p = document.ports[i]
    OBVIOUS
  <2>3. PICK k \in DOMAIN document.nets :
          LET port  == Whole(names[<<"port", p.id>>])
              other == Whole(names[<<"net", document.nets[k].id>>])
          IN  /\ document.nets[k].id = p.net /\ document.nets[k].width = p.width
              /\ p.dir \in {"input", "output"}
              /\ BitsRead(other) = 0..p.width - 1
              /\ Boundary(p).left = IF p.dir = "input" THEN other ELSE port
    BY <2>1, <2>2, BoundaryOperands
  <2>4. p.dir = "input"
    <3>1. SUFFICES ASSUME p.dir = "output" PROVE FALSE
      BY <2>3
    <3>2. names[<<"port", p.id>>] = names[<<"net", net.id>>]
      BY <1>1, <2>1, <2>2, <2>3, <3>1 DEF Whole
    <3>3. names[<<"port", ItemsOf("port")[i].id>>] = names[<<"net", ItemsOf("net")[j].id>>]
      BY <1>0, <1>1, <2>2, <3>2
    <3>4. "port" = "net"
      BY <1>0, <2>1, <3>3, NameTellsItem
    <3>5. QED
      BY <3>4
  <2>5. LineOf(kind, i).left = Whole(names[<<"net", document.nets[k].id>>])
    BY <2>1, <2>2, <2>3, <2>4
  <2>6. k = j
    <3>1. names[<<"net", ItemsOf("net")[k].id>>] = names[<<"net", ItemsOf("net")[j].id>>]
      BY <1>0, <2>5 DEF Whole
    <3>2. QED
      BY <1>0, <3>1, NameTellsItem
  <2>7. PICK e : e = [at |-> <<"port", i>>, bits |-> 0..net.width - 1]
    OBVIOUS
  <2>8. e \in PortEnds(document, net, {"input"})
    BY <1>1, <1>2, <2>1, <2>2, <2>3, <2>4, <2>6, <2>7, NetsAreUnique DEF PortEnds
  <2>9. e.at = <<"port", i>> /\ e.bits = BitsRead(LineOf(kind, i).left)
    BY <1>1, <2>3, <2>5, <2>6, <2>7
  <2>10. QED
    BY <1>1, <1>3, <2>8, <2>9 DEF Drivers
<1>4. CASE kind = "component"
  <2>1. i \in DOMAIN document.components /\ LineOf(kind, i) = Gate(document.components[i])
    BY <1>4, AssigningLine DEF ItemsOf
  <2>2. PICK c : c = document.components[i]
    OBVIOUS
  <2>3. c \in ToSet(document.components) /\ "Y" \in LogicalPorts(c)
    BY <2>1, <2>2 DEF ToSet, LogicalPorts
  <2>4. PICK k \in DOMAIN document.nets :
          LET other == document.nets[k]
              bits  == BitsOf(c.connections["Y"], other.width)
          IN  /\ other.id = c.connections["Y"].net
              /\ Operand(c.connections["Y"]).name = names[<<"net", other.id>>]
              /\ BitsRead(Operand(c.connections["Y"])) = bits
              /\ bits # {} /\ "Y" \in DOMAIN c.connections /\ InCatalog(c)
    BY <2>3, OperandBits
  <2>5. LineOf(kind, i).left = Operand(c.connections["Y"])
    BY <2>1, <2>2 DEF Gate, Assignment
  <2>6. k = j
    <3>1. names[<<"net", ItemsOf("net")[k].id>>] = names[<<"net", ItemsOf("net")[j].id>>]
      BY <1>0, <2>4, <2>5
    <3>2. QED
      BY <1>0, <3>1, NameTellsItem
  <2>7. PICK e : e = [at |-> <<"Y", i>>, bits |-> BitsOf(c.connections["Y"], net.width)]
    OBVIOUS
  <2>8. Touches(document, net, i, "Y")
    BY <1>1, <1>2, <2>2, <2>3, <2>4, <2>6, NetsAreUnique DEF Touches
  <2>9. e \in ComponentEnds(document, net, {"Y"})
    <3>1. <<"Y", i>> \in {x \in {"Y"} \X DOMAIN document.components :
                            Touches(document, net, x[2], x[1])}
      BY <2>1, <2>8
    <3>2. e = [at |-> <<"Y", i>>,
               bits |-> BitsOf(document.components[<<"Y", i>>[2]].connections[<<"Y", i>>[1]],
                               net.width)]
      BY <2>2, <2>7
    <3>3. QED
      BY <3>1, <3>2 DEF ComponentEnds
  <2>10. e.at = <<"Y", i>> /\ e.bits = BitsRead(LineOf(kind, i).left)
    BY <1>1, <2>4, <2>5, <2>6, <2>7
  <2>11. QED
    BY <1>1, <1>4, <2>9, <2>10 DEF Drivers
<1>5. QED
  BY <1>3, <1>4 DEF Assigned

\* ... what drives it is assigned to it, ...
LEMMA DrivingIsAssigning ==
  ASSUME Compiled, NEW j \in DOMAIN document.nets,
         NEW e \in Drivers(document, document.nets[j])
  PROVE  \E n \in Assignments :
           /\ lines[n].left.name = names[<<"net", document.nets[j].id>>]
           /\ BitsRead(lines[n].left) = e.bits
<1>0. OneOfEachId /\ ItemsOf("net") = document.nets
  BY DEF Compiled, ItemsOf
<1>1. PICK net : net = document.nets[j]
  OBVIOUS
<1>2. ASSUME NEW kind \in Assigned, NEW i \in DOMAIN ItemsOf(kind),
             LineOf(kind, i).left.name = names[<<"net", net.id>>],
             BitsRead(LineOf(kind, i).left) = e.bits
      PROVE  \E n \in Assignments :
               /\ lines[n].left.name = names[<<"net", net.id>>]
               /\ BitsRead(lines[n].left) = e.bits
  <2>1. kind \in EntryKinds
    BY DEF Assigned, EntryKinds
  <2>2. PICK n : WrittenAt(kind, i, n)
    BY <2>1 DEF Compiled, Transcript
  <2>3. n \in Assignments /\ lines[n] = LineOf(kind, i)
    BY <2>2, KindsOfLines DEF WrittenAt
  <2>4. QED
    BY <1>2, <2>3
<1>3. CASE e \in PortEnds(document, net, {"input"})
  <2>1. PICK i \in DOMAIN document.ports :
          /\ document.ports[i].dir = "input" /\ document.ports[i].net = net.id
          /\ e = [at |-> <<"port", i>>, bits |-> 0..net.width - 1]
    BY <1>3 DEF PortEnds
  <2>2. PICK p : p = document.ports[i]
    OBVIOUS
  <2>3. PICK k \in DOMAIN document.nets :
          LET other == Whole(names[<<"net", document.nets[k].id>>])
          IN  /\ document.nets[k].id = p.net /\ document.nets[k].width = p.width
              /\ BitsRead(other) = 0..p.width - 1
              /\ p.dir = "input" => Boundary(p).left = other
    BY <2>2, BoundaryOperands
  <2>4. k = j
    BY <1>0, <1>1, <2>1, <2>2, <2>3 DEF OneOfEachId, EntryKinds
  <2>5. i \in DOMAIN ItemsOf("boundary") /\ LineOf("boundary", i) = Boundary(p)
    BY <2>2 DEF ItemsOf, LineOf
  <2>6. /\ LineOf("boundary", i).left.name = names[<<"net", net.id>>]
        /\ BitsRead(LineOf("boundary", i).left) = e.bits
    BY <1>1, <2>1, <2>2, <2>3, <2>4, <2>5 DEF Whole
  <2>7. QED
    BY <1>1, <1>2, <2>5, <2>6 DEF Assigned
<1>4. CASE e \in ComponentEnds(document, net, {"Y"})
  <2>1. PICK x \in {"Y"} \X DOMAIN document.components :
          /\ Touches(document, net, x[2], x[1])
          /\ e = [at |-> x,
                  bits |-> BitsOf(document.components[x[2]].connections[x[1]], net.width)]
    BY <1>4 DEF ComponentEnds
  <2>2. PICK i \in DOMAIN document.components : i = x[2] /\ x[1] = "Y"
    BY <2>1
  <2>3. PICK c : c = document.components[i]
    OBVIOUS
  <2>4. /\ c.connections["Y"].net = net.id
        /\ e.bits = BitsOf(c.connections["Y"], net.width)
    BY <2>1, <2>2, <2>3 DEF Touches
  <2>5. c \in ToSet(document.components) /\ "Y" \in LogicalPorts(c)
    BY <2>3 DEF ToSet, LogicalPorts
  <2>6. PICK k \in DOMAIN document.nets :
          LET other == document.nets[k]
              bits  == BitsOf(c.connections["Y"], other.width)
          IN  /\ other.id = c.connections["Y"].net
              /\ Operand(c.connections["Y"]).name = names[<<"net", other.id>>]
              /\ BitsRead(Operand(c.connections["Y"])) = bits
    BY <2>5, OperandBits
  <2>7. k = j
    BY <1>0, <1>1, <2>4, <2>6 DEF OneOfEachId, EntryKinds
  <2>8. i \in DOMAIN ItemsOf("component") /\ LineOf("component", i) = Gate(c)
    BY <2>3 DEF ItemsOf, LineOf
  <2>9. Gate(c).left = Operand(c.connections["Y"])
    BY DEF Gate, Assignment
  <2>10. /\ LineOf("component", i).left.name = names[<<"net", net.id>>]
         /\ BitsRead(LineOf("component", i).left) = e.bits
    BY <1>1, <2>4, <2>6, <2>7, <2>8, <2>9
  <2>11. QED
    BY <1>1, <1>2, <2>8, <2>10 DEF Assigned
<1>5. QED
  BY <1>1, <1>3, <1>4 DEF Drivers

\* ... and what is read from it is a consumer of it.
LEMMA ReadingIsConsuming ==
  ASSUME Compiled, NEW j \in DOMAIN document.nets, NEW kind \in Assigned,
         NEW i \in DOMAIN ItemsOf(kind), NEW operand \in LineOf(kind, i).right,
         operand.name = names[<<"net", document.nets[j].id>>]
  PROVE  \E e \in Consumers(document, document.nets[j]) : e.bits = BitsRead(operand)
<1>0. /\ "port" \in Declared /\ "net" \in Declared
      /\ ItemsOf("port") = document.ports /\ ItemsOf("net") = document.nets
  BY DEF Declared, ItemsOf
<1>1. PICK net : net = document.nets[j]
  OBVIOUS
<1>2. OneOfEachId
  BY DEF Compiled
<1>3. CASE kind = "boundary"
  <2>1. i \in DOMAIN document.ports /\ LineOf(kind, i) = Boundary(document.ports[i])
    BY <1>3, AssigningLine DEF ItemsOf
  <2>2. PICK p : p = document.ports[i]
    OBVIOUS
  <2>3. PICK k \in DOMAIN document.nets :
          LET port  == Whole(names[<<"port", p.id>>])
              other == Whole(names[<<"net", document.nets[k].id>>])
          IN  /\ document.nets[k].id = p.net /\ document.nets[k].width = p.width
              /\ p.dir \in {"input", "output"}
              /\ BitsRead(other) = 0..p.width - 1
              /\ Boundary(p).right = IF p.dir = "input" THEN {port} ELSE {other}
    BY <2>1, <2>2, BoundaryOperands
  <2>4. p.dir = "output"
    <3>1. SUFFICES ASSUME p.dir = "input" PROVE FALSE
      BY <2>3
    <3>2. operand = Whole(names[<<"port", p.id>>])
      BY <2>1, <2>2, <2>3, <3>1
    <3>3. names[<<"port", ItemsOf("port")[i].id>>] = names[<<"net", ItemsOf("net")[j].id>>]
      BY <1>0, <2>2, <3>2 DEF Whole
    <3>4. "port" = "net"
      BY <1>0, <2>1, <3>3, NameTellsItem
    <3>5. QED
      BY <3>4
  <2>5. operand = Whole(names[<<"net", document.nets[k].id>>])
    BY <2>1, <2>2, <2>3, <2>4
  <2>6. k = j
    <3>1. names[<<"net", ItemsOf("net")[k].id>>] = names[<<"net", ItemsOf("net")[j].id>>]
      BY <1>0, <2>5 DEF Whole
    <3>2. QED
      BY <1>0, <3>1, NameTellsItem
  <2>7. PICK e : e = [at |-> <<"port", i>>, bits |-> 0..net.width - 1]
    OBVIOUS
  <2>8. e \in PortEnds(document, net, {"output"})
    BY <1>1, <1>2, <2>1, <2>2, <2>3, <2>4, <2>6, <2>7, NetsAreUnique DEF PortEnds
  <2>9. e.bits = BitsRead(operand)
    BY <1>1, <2>3, <2>5, <2>6, <2>7
  <2>10. QED
    BY <1>1, <2>8, <2>9 DEF Consumers
<1>4. CASE kind = "component"
  <2>1. i \in DOMAIN document.components /\ LineOf(kind, i) = Gate(document.components[i])
    BY <1>4, AssigningLine DEF ItemsOf
  <2>2. PICK c : c = document.components[i]
    OBVIOUS
  <2>3. PICK q \in Inputs(c) : operand = Operand(c.connections[q])
    BY <2>1, <2>2 DEF Gate, Assignment
  <2>4. c \in ToSet(document.components) /\ q \in LogicalPorts(c)
    BY <2>1, <2>2 DEF ToSet, LogicalPorts
  <2>5. PICK k \in DOMAIN document.nets :
          LET other == document.nets[k]
              bits  == BitsOf(c.connections[q], other.width)
          IN  /\ other.id = c.connections[q].net
              /\ Operand(c.connections[q]).name = names[<<"net", other.id>>]
              /\ BitsRead(Operand(c.connections[q])) = bits
              /\ bits # {} /\ q \in DOMAIN c.connections /\ InCatalog(c)
    BY <2>4, OperandBits
  <2>6. k = j
    <3>1. names[<<"net", ItemsOf("net")[k].id>>] = names[<<"net", ItemsOf("net")[j].id>>]
      BY <1>0, <2>3, <2>5
    <3>2. QED
      BY <1>0, <3>1, NameTellsItem
  <2>7. q \in {"A", "B"}
    BY <2>3, <2>5 DEF Inputs, InCatalog
  <2>8. PICK e : e = [at |-> <<q, i>>, bits |-> BitsOf(c.connections[q], net.width)]
    OBVIOUS
  <2>9. Touches(document, net, i, q)
    BY <1>1, <1>2, <2>2, <2>4, <2>5, <2>6, NetsAreUnique DEF Touches
  <2>10. e \in ComponentEnds(document, net, {"A", "B"})
    <3>1. <<q, i>> \in {x \in {"A", "B"} \X DOMAIN document.components :
                          Touches(document, net, x[2], x[1])}
      BY <2>1, <2>7, <2>9
    <3>2. e = [at |-> <<q, i>>,
               bits |-> BitsOf(document.components[<<q, i>>[2]].connections[<<q, i>>[1]],
                               net.width)]
      BY <2>2, <2>8
    <3>3. QED
      BY <3>1, <3>2 DEF ComponentEnds
  <2>11. e.bits = BitsRead(operand)
    BY <1>1, <2>3, <2>5, <2>6, <2>8
  <2>12. QED
    BY <1>1, <2>10, <2>11 DEF Consumers
<1>5. QED
  BY <1>3, <1>4 DEF Assigned


\* A port is assigned at most by its own boundary, if it is an output.
LEMMA AssignsPort ==
  ASSUME Compiled, NEW i \in DOMAIN document.ports, NEW kind \in Assigned,
         NEW k \in DOMAIN ItemsOf(kind),
         LineOf(kind, k).left.name = names[<<"port", document.ports[i].id>>]
  PROVE  kind = "boundary" /\ k = i /\ document.ports[i].dir = "output"
<1>0. /\ "port" \in Declared /\ "net" \in Declared
      /\ ItemsOf("port") = document.ports /\ ItemsOf("net") = document.nets
  BY DEF Declared, ItemsOf
<1>1. ASSUME NEW j \in DOMAIN document.nets,
             LineOf(kind, k).left.name = names[<<"net", document.nets[j].id>>]
      PROVE  FALSE
  <2>1. names[<<"port", ItemsOf("port")[i].id>>] = names[<<"net", ItemsOf("net")[j].id>>]
    BY <1>0, <1>1
  <2>2. "port" = "net"
    BY <1>0, <2>1, NameTellsItem
  <2>3. QED
    BY <2>2
<1>2. CASE kind = "boundary"
  <2>1. k \in DOMAIN document.ports /\ LineOf(kind, k) = Boundary(document.ports[k])
    BY <1>2, AssigningLine DEF ItemsOf
  <2>2. PICK p : p = document.ports[k]
    OBVIOUS
  <2>3. PICK j \in DOMAIN document.nets :
          LET port == Whole(names[<<"port", p.id>>])
              net  == Whole(names[<<"net", document.nets[j].id>>])
          IN  /\ p.dir \in {"input", "output"}
              /\ Boundary(p).left = IF p.dir = "input" THEN net ELSE port
    BY <2>1, <2>2, BoundaryOperands
  <2>4. p.dir = "output"
    BY <1>1, <2>1, <2>2, <2>3 DEF Whole
  <2>5. names[<<"port", ItemsOf("port")[k].id>>] = names[<<"port", ItemsOf("port")[i].id>>]
    BY <1>0, <2>1, <2>2, <2>3, <2>4 DEF Whole
  <2>6. k = i
    BY <1>0, <2>1, <2>5, NameTellsItem
  <2>7. QED
    BY <1>2, <2>2, <2>4, <2>6
<1>3. CASE kind = "component"
  <2>1. k \in DOMAIN document.components /\ LineOf(kind, k) = Gate(document.components[k])
    BY <1>3, AssigningLine DEF ItemsOf
  <2>2. PICK c : c = document.components[k]
    OBVIOUS
  <2>3. c \in ToSet(document.components) /\ "Y" \in LogicalPorts(c)
    BY <2>1, <2>2 DEF ToSet, LogicalPorts
  <2>4. PICK j \in DOMAIN document.nets :
          Operand(c.connections["Y"]).name = names[<<"net", document.nets[j].id>>]
    BY <2>3, OperandBits
  <2>5. LineOf(kind, k).left = Operand(c.connections["Y"])
    BY <2>1, <2>2 DEF Gate, Assignment
  <2>6. QED
    BY <1>1, <2>4, <2>5
<1>4. QED
  BY <1>2, <1>3 DEF Assigned

LEMMA AtMostOne ==
  ASSUME NEW S, \A x, y \in S : x = y
  PROVE  Cardinality(S) <= 1
<1>1. CASE S = {}
  BY <1>1, FS_EmptySet
<1>2. CASE S # {}
  <2>1. PICK x : S = {x}
    BY <1>2
  <2>2. QED
    BY <2>1, FS_Singleton
<1>3. QED
  BY <1>1, <1>2

\* An assignment of the output is the line of an item.
LEMMA AssignmentOf ==
  ASSUME Compiled, NEW n \in Assignments
  PROVE  \E kind \in Assigned : \E i \in DOMAIN ItemsOf(kind) :
           WrittenAt(kind, i, n) /\ lines[n] = LineOf(kind, i)
BY KindsOfLines DEF WrittenAt

LEMMA OneLineEach ==
  ASSUME Compiled, NEW kind \in Assigned, NEW i \in DOMAIN ItemsOf(kind), NEW m, NEW n,
         WrittenAt(kind, i, m), WrittenAt(kind, i, n)
  PROVE  m = n
<1>1. m \in DOMAIN lines /\ n \in DOMAIN lines /\ kind \in EntryKinds
  BY DEF WrittenAt, Assigned, EntryKinds
<1>2. QED
  BY <1>1 DEF Compiled, Transcript

LEMMA NetDrivenOnce ==
  ASSUME Compiled, NEW j \in DOMAIN document.nets, NEW bit,
         NEW name, name = names[<<"net", document.nets[j].id>>]
  PROVE  /\ Cardinality(AssignmentsTo(name, bit)) <= 1
         /\ IsRead(name, bit) => AssignmentsTo(name, bit) # {}
<1>1. PICK net : net = document.nets[j]
  OBVIOUS
<1>2. /\ ~Contested(document, net)
      /\ \A e \in Consumers(document, net) :
           e.bits \subseteq UNION {d.bits : d \in Drivers(document, net)}
  <2>1. ~HasErrors(Report(document)) /\ OneOfEachId
    BY DEF Compiled
  <2>2. net \in UniqueNets(document)
    BY <1>1, <2>1, NetsAreUnique DEF ToSet
  <2>3. QED
    BY <2>1, <2>2, NoConnectivityErrors
\* Two lines that assign the bit would be two drivers that share it.
<1>3. ASSUME NEW m \in AssignmentsTo(name, bit), NEW n \in AssignmentsTo(name, bit)
      PROVE  m = n
  <2>1. /\ m \in Assignments /\ lines[m].left.name = name /\ bit \in BitsRead(lines[m].left)
        /\ n \in Assignments /\ lines[n].left.name = name /\ bit \in BitsRead(lines[n].left)
    BY DEF AssignmentsTo
  <2>2. PICK kind, i : /\ kind \in Assigned /\ i \in DOMAIN ItemsOf(kind)
                       /\ WrittenAt(kind, i, m) /\ lines[m] = LineOf(kind, i)
    BY <2>1, AssignmentOf
  <2>3. PICK other, k : /\ other \in Assigned /\ k \in DOMAIN ItemsOf(other)
                        /\ WrittenAt(other, k, n) /\ lines[n] = LineOf(other, k)
    BY <2>1, AssignmentOf
  <2>4. PICK d \in Drivers(document, net) :
          /\ d.at = <<IF kind = "boundary" THEN "port" ELSE "Y", i>>
          /\ d.bits = BitsRead(lines[m].left)
    BY <1>1, <2>1, <2>2, AssigningIsDriving
  <2>5. PICK e \in Drivers(document, net) :
          /\ e.at = <<IF other = "boundary" THEN "port" ELSE "Y", k>>
          /\ e.bits = BitsRead(lines[n].left)
    BY <1>1, <2>1, <2>3, AssigningIsDriving
  <2>6. d = e
    BY <1>2, <2>1, <2>4, <2>5 DEF Contested
  <2>7. kind = other /\ i = k
    BY <2>2, <2>3, <2>4, <2>5, <2>6 DEF Assigned
  <2>8. QED
    BY <2>2, <2>3, <2>7, OneLineEach
\* What is read from the bit is driven.
<1>4. ASSUME IsRead(name, bit)
      PROVE  AssignmentsTo(name, bit) # {}
  <2>1. PICK n, operand :
          /\ n \in Assignments /\ operand \in lines[n].right /\ operand.name = name
          /\ bit \in BitsRead(operand)
    BY <1>4 DEF IsRead
  <2>2. PICK kind, i :
          kind \in Assigned /\ i \in DOMAIN ItemsOf(kind) /\ lines[n] = LineOf(kind, i)
    BY <2>1, AssignmentOf
  <2>3. PICK e \in Consumers(document, net) : e.bits = BitsRead(operand)
    BY <1>1, <2>1, <2>2, ReadingIsConsuming
  <2>4. PICK d \in Drivers(document, net) : bit \in d.bits
    BY <1>2, <2>1, <2>3
  <2>5. PICK m \in Assignments : lines[m].left.name = name /\ BitsRead(lines[m].left) = d.bits
    BY <1>1, <2>4, DrivingIsAssigning
  <2>6. m \in AssignmentsTo(name, bit)
    BY <2>4, <2>5 DEF AssignmentsTo
  <2>7. QED
    BY <2>6
<1>5. Cardinality(AssignmentsTo(name, bit)) <= 1
  BY <1>3, AtMostOne
<1>6. QED
  BY <1>4, <1>5

LEMMA PortDrivenByBoundary ==
  ASSUME Compiled, NEW i \in DOMAIN document.ports,
         NEW bit \in 0..document.ports[i].width - 1,
         NEW name, name = names[<<"port", document.ports[i].id>>]
  PROVE  /\ document.ports[i].dir = "input" => AssignmentsTo(name, bit) = {}
         /\ document.ports[i].dir = "output" =>
              /\ Cardinality(AssignmentsTo(name, bit)) <= 1
              /\ AssignmentsTo(name, bit) # {}
<1>1. ASSUME NEW n \in AssignmentsTo(name, bit)
      PROVE  WrittenAt("boundary", i, n) /\ document.ports[i].dir = "output"
  <2>1. n \in Assignments /\ lines[n].left.name = name
    BY DEF AssignmentsTo
  <2>2. PICK kind, k : /\ kind \in Assigned /\ k \in DOMAIN ItemsOf(kind)
                       /\ WrittenAt(kind, k, n) /\ lines[n] = LineOf(kind, k)
    BY <2>1, AssignmentOf
  <2>3. kind = "boundary" /\ k = i /\ document.ports[i].dir = "output"
    BY <2>1, <2>2, AssignsPort
  <2>4. QED
    BY <2>2, <2>3
<1>2. "boundary" \in Assigned /\ "boundary" \in EntryKinds /\ i \in DOMAIN ItemsOf("boundary")
  BY DEF Assigned, EntryKinds, ItemsOf
<1>3. Cardinality(AssignmentsTo(name, bit)) <= 1
  BY <1>1, <1>2, OneLineEach, AtMostOne
<1>4. ASSUME document.ports[i].dir = "output"
      PROVE  AssignmentsTo(name, bit) # {}
  <2>1. PICK n : WrittenAt("boundary", i, n)
    BY <1>2 DEF Compiled, Transcript
  <2>2. n \in Assignments /\ lines[n] = Boundary(document.ports[i])
    BY <1>2, <2>1, KindsOfLines, AssigningLine DEF WrittenAt
  <2>3. PICK p : p = document.ports[i]
    OBVIOUS
  <2>4. PICK port : port = Whole(names[<<"port", p.id>>])
    OBVIOUS
  <2>5. Boundary(p).left = port /\ BitsRead(port) = 0..p.width - 1
    BY <1>4, <2>3, <2>4, BoundaryOperands
  <2>6. port.name = name
    BY <2>3, <2>4 DEF Whole
  <2>7. n \in AssignmentsTo(name, bit)
    BY <2>2, <2>3, <2>5, <2>6 DEF AssignmentsTo
  <2>8. QED
    BY <2>7
<1>5. QED
  BY <1>1, <1>3, <1>4

LEMMA OutputDrivenOnce ==
  ASSUME Compiled, NEW m \in Declarations, NEW bit \in 0..lines[m].width - 1
  PROVE  LET drivers == AssignmentsTo(lines[m].name, bit)
         IN  IF lines[m].form = "input" THEN drivers = {}
             ELSE /\ Cardinality(drivers) <= 1
                  /\ lines[m].form = "output" \/ IsRead(lines[m].name, bit)
                       => drivers # {}
<1>1. PICK kind, i :
        kind \in Declared /\ i \in DOMAIN ItemsOf(kind) /\ WrittenAt(kind, i, m)
  BY KindsOfLines
<1>2. /\ lines[m].form = IF kind = "port" THEN document.ports[i].dir ELSE "net"
      /\ lines[m].form \in {"input", "output", "net"}
      /\ lines[m].name = names[<<kind, ItemsOf(kind)[i].id>>]
      /\ lines[m].width = ItemsOf(kind)[i].width
  BY <1>1, DeclaringLine DEF WrittenAt, Compiled
<1>3. PICK name : name = lines[m].name
  OBVIOUS
<1>4. CASE kind = "port"
  <2>1. /\ i \in DOMAIN document.ports /\ name = names[<<"port", document.ports[i].id>>]
        /\ bit \in 0..document.ports[i].width - 1 /\ lines[m].form = document.ports[i].dir
    BY <1>1, <1>2, <1>3, <1>4 DEF ItemsOf
  <2>2. document.ports[i].dir \in {"input", "output"}
    BY <2>1, DocumentsAssumption DEF Compiled, ToSet
  <2>3. /\ document.ports[i].dir = "input" => AssignmentsTo(name, bit) = {}
        /\ document.ports[i].dir = "output" =>
             /\ Cardinality(AssignmentsTo(name, bit)) <= 1
             /\ AssignmentsTo(name, bit) # {}
    BY <2>1, PortDrivenByBoundary
  <2>4. QED
    BY <1>3, <2>1, <2>2, <2>3
<1>5. CASE kind = "net"
  <2>1. /\ i \in DOMAIN document.nets /\ name = names[<<"net", document.nets[i].id>>]
        /\ lines[m].form = "net"
    BY <1>1, <1>2, <1>3, <1>5 DEF ItemsOf
  <2>2. /\ Cardinality(AssignmentsTo(name, bit)) <= 1
        /\ IsRead(name, bit) => AssignmentsTo(name, bit) # {}
    BY <2>1, NetDrivenOnce
  <2>3. QED
    BY <1>3, <2>1, <2>2
<1>6. QED
  BY <1>1, <1>4, <1>5 DEF Declared

\* In the text of every compilation no bit is assigned twice, no input is assigned, and
\* every bit of an output and every bit that is read is assigned (compiler.rs:
\* emit_verilog, after validation.rs: validate_electrical_roles).
THEOREM DrivenOnce == AnswersSpec => []ReadBitsDrivenOnce
<1>1. IInv /\ WriterInv /\ NamesSafeAndDistinct => ReadBitsDrivenOnce
  BY CompiledIsWhole, OutputDrivenOnce DEF ReadBitsDrivenOnce
<1>2. QED
  BY <1>1, WriterInvariant, SafeAndDistinct, PTL
=============================================================================
