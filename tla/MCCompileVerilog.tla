-------------------------- MODULE MCCompileVerilog --------------------------
(***************************************************************************)
(* Two ports, two nets and one component that differ in their names, and   *)
(* documents that differ in what their components are and how these are    *)
(* connected, most of them with errors.                                    *)
(***************************************************************************)
EXTENDS Answers

MCLetters  == {"a", "d", "e", "f", "i", "m", "n", "u"}
MCOthers   == {" ", "-", "tab"}
MCControls == {"tab"}
MCSpaces   == {" ", "tab"}
MCKeywords == {<<"i", "f">>}

MCLimits ==
  [ports |-> 2, components |-> 2, nets |-> 2, string |-> 5, parameters |-> 1,
   width |-> 2]

MCSchemaLimits ==
  [ports |-> 2, components |-> 2, nets |-> 3, string |-> 6, parameters |-> 2,
   width |-> 3]

A1 == <<"a">>                  \* and what collides with it:
A2 == <<"a", "_", "_", "2">>   \* taken by the first suffix of "a"
If == <<"i", "f">>             \* a keyword
Id == <<"i", "f", "_", "i", "d">>   \* what replaces the keyword
Minus  == <<"a", "-">>
Spaced == <<"a", " ">>         \* the two have one candidate
One    == <<"2">>              \* begins with a digit
Bad    == {<<>>, <<" ">>, <<"a", "tab">>, <<"a", "a", "a", "a", "a", "a">>}

Net(i, name, width) == [id |-> i, name |-> name, width |-> width]
Port(i, name, dir, width, net) ==
  [id |-> i, name |-> name, dir |-> dir, width |-> width, net |-> net]
Gates(i, name, type, width, connections, parameters) ==
  [id |-> i, name |-> name, type |-> type, width |-> width,
   connections |-> connections, parameters |-> parameters]

To(net) == [net |-> net, sliced |-> FALSE, msb |-> 0, lsb |-> 0]
Slice(net, msb, lsb) == [net |-> net, sliced |-> TRUE, msb |-> msb, lsb |-> lsb]

-----------------------------------------------------------------------------
\* One buffer from an input to an output; the ports in either order.
Buffered(name, p1, p2, n1, n2, c) ==
  [schema |-> "1.0", name |-> name,
   ports |-> <<Port(2, p2, "output", 1, 2), Port(1, p1, "input", 1, 1)>>,
   nets |-> <<Net(2, n2, 1), Net(1, n1, 1)>>,
   components |-> <<Gates(1, c, "BUFFER", 1, [A |-> To(1), Y |-> To(2)], <<>>)>>]

NameChoices == {A1, A2, If, Id, Minus, Spaced, One}

NamedDocuments ==
  {Buffered(m, p1, p2, n1, n2, c) :
     m \in {A1, If}, p1 \in NameChoices, p2 \in NameChoices,
     n1 \in {A1, A2, If, Minus}, n2 \in {A1, Id, Spaced}, c \in {A1, One}}
  \cup {Buffered(A1, p1, If, A1, n2, A1) : p1 \in Bad, n2 \in Bad \cup {A1}}

-----------------------------------------------------------------------------
\* An input and an output on nets of one or two bits, and one component of
\* any make.
Selections(net) ==
  {To(net), Slice(net, 0, 0), Slice(net, 1, 1), Slice(net, 1, 0), Slice(net, 0, 1)}

Structured(schema, w1, w2, c, ports, nets) ==
  [schema |-> schema, name |-> A1, components |-> c,
   ports |-> ports, nets |-> nets]

TwoPorts(w1, w2) ==
  <<Port(1, <<"a", "i">>, "input", w1, 1), Port(2, <<"a", "u">>, "output", w2, 2)>>
TwoNets(w1, w2) == <<Net(1, <<"n">>, w1), Net(2, <<"m">>, w2)>>

Connections ==
  [{"A", "Y"} -> Selections(1) \cup Selections(2) \cup {To(3)}]
    \cup [{"A"} -> {To(1)}] \cup [{"Y"} -> {To(2)}]
    \cup {[A |-> To(1), B |-> To(1), Y |-> To(2)]}

Values ==
  {[string |-> s, binary |-> b, length |-> n] :
     s \in BOOLEAN, b \in BOOLEAN, n \in 0..2}

Literals == {[string |-> TRUE, binary |-> TRUE, length |-> n] : n \in 1..2}

SingleDocuments ==
  {Structured(schema, w1, w2, <<Gates(1, <<"e">>, type, w, con, <<>>)>>,
              TwoPorts(w1, w2), TwoNets(w1, w2)) :
     schema \in {"1.0", "1.1"}, w1 \in 1..2, w2 \in 1..2, w \in 1..2,
     type \in {"AND", "NOT"}, con \in Connections}

\* Constants with every kind of value, and types outside the catalog.
ConstDocuments ==
  {Structured("1.1", 1, w, <<Gates(1, <<"e">>, type, w, con, par)>>,
              TwoPorts(1, w), TwoNets(1, w)) :
     w \in 0..3, type \in {"CONST", "unknown"},
     con \in {[Y |-> To(2)], [Y |-> Slice(2, 1, 0)], <<>>},
     par \in {<<>>} \cup [{"value"} -> Values]
                     \cup [{"v"} -> Values] \cup [{"v", "value"} -> Literals]}

\* Two components that may feed each other, or drive halves of one net.
PairDocuments ==
  {Structured("1.1", w1, w2,
              <<Gates(2, <<"e">>, "BUFFER", w, [A |-> a, Y |-> x], <<>>),
                Gates(id, <<"f">>, "NOT", 1, [A |-> b, Y |-> y], <<>>)>>,
              TwoPorts(w1, w2), TwoNets(w1, w2)) :
     id \in 1..2, w \in 1..2, w1 \in 1..2, w2 \in 1..2,
     a \in Selections(1) \cup {Slice(2, 0, 0)}, x \in {Slice(2, 0, 0), To(2)},
     b \in {Slice(1, 1, 1), To(1), Slice(2, 0, 0), Slice(2, 1, 1)},
     y \in {Slice(2, 0, 0), Slice(2, 1, 1)}}

\* The halves of a net driven by two components, the second of which may read
\* what the first drives.
MergedDocuments ==
  {Structured("1.1", w1, 2,
              <<first, Gates(1, <<"f">>, type, 1,
                             [A |-> a, B |-> b, Y |-> Slice(2, 1, 1)], <<>>)>>,
              TwoPorts(w1, 2), TwoNets(w1, 2)) :
     w1 \in 1..2, type \in {"XOR", "NOR"},
     first \in
       {Gates(2, A1, "NOT", 1, [A |-> c, Y |-> Slice(2, 0, 0)], <<>>) :
          c \in Selections(1)}
       \cup {Gates(2, If, "CONST", 1, [Y |-> Slice(2, 0, 0)],
                   [value |-> [string |-> TRUE, binary |-> TRUE, length |-> 1]])},
     a \in Selections(1) \cup {Slice(2, 0, 0)},
     b \in Selections(1) \cup {Slice(2, 0, 0)}}

\* Ports and nets that repeat ids or names, are too many, or do not match.
OuterDocuments ==
  {Structured(schema, 1, 1, <<>>, ports, nets) :
     schema \in {"1.0", "2.0"},
     ports \in {<<>>} \cup
       {<<Port(1, <<"a", "i">>, d, w, n), Port(i, name, "output", 1, m)>> :
          d \in {"input", "output"}, w \in 0..1, n \in 1..3, m \in 1..2, i \in 1..2,
          name \in {<<"a", "i">>, If}}
       \cup {TwoPorts(1, 1) \o <<Port(3, If, "output", 1, 1)>>},
     nets \in {<<>>, <<Net(1, A1, 1)>>, <<Net(1, A1, 1), Net(1, If, 1)>>,
               <<Net(1, A1, 1), Net(2, If, 3)>>,
               <<Net(1, A1, 1), Net(2, If, 1), Net(3, Id, 1)>>}}

MCDocuments ==
  NamedDocuments \cup SingleDocuments \cup ConstDocuments \cup PairDocuments
    \cup MergedDocuments \cup OuterDocuments

\* Among them are good ones, bad ones, and ones that cannot be read.
MCTried(doc) == doc.components = <<>>
=============================================================================
