------------------------------ MODULE MCImport -------------------------------
(***************************************************************************)
(* Projects and sheets, each converted for a caller of the profile crate;  *)
(* and some of either kind imported with every combination of arguments    *)
(* that clap accepts.                                                      *)
(***************************************************************************)
EXTENDS DlsSignals, LogisimDrawing, ImportCommand

-----------------------------------------------------------------------------
(***************************************************************************)
(* Projects of up to four chips: some that differ in how chips refer to    *)
(* one another and in what their files are like, and some that differ in   *)
(* the pins, gates, buses and wires of a chip and the chips within it.     *)
(***************************************************************************)
A == <<"a">>
B == <<"b">>
D == <<"d">>
E == <<"e">>
ChipNames == {A, B, D, E}

Nand            == [form |-> "nand"]
Converter(n, m) == [form |-> "converter", from |-> n, to |-> m, text |-> <<"-">>]
Bus(n)          == [form |-> "bus", width |-> n]
Terminus(n)     == [form |-> "terminus", width |-> n]
ChipOf(name)    == [form |-> "chip", text |-> name]

Pin(name, id, width) == [name |-> name, id |-> id, width |-> width]
Sub(name, id)        == [name |-> name, id |-> id]
Wire(o, p, q, r) ==
  [from |-> [owner |-> o, pin |-> p], to |-> [owner |-> q, pin |-> r]]

ChipWith(ins, outs, subs, wires) ==
  [inputs |-> ins, outputs |-> outs, subs |-> subs, wires |-> wires]
File(state, size, chip) == [state |-> state, size |-> size, chip |-> chip]

Project(description, listing, units, whole, file) ==
  [description |-> description, listing |-> listing, units |-> units,
   whole |-> whole, file |-> file]

-----------------------------------------------------------------------------
(***************************************************************************)
(* Chips without pins that refer to one another.                           *)
(***************************************************************************)
Referring(names) ==
  ChipWith(<<>>, <<>>, [i \in DOMAIN names |-> Sub(ChipOf(names[i]), i)], <<>>)

Batch == <<A, B, D, E>>
Few   == {<<>>} \cup {<<n>> : n \in ChipNames}
Some  == Few \cup {<<m, n>> : m \in {A, D}, n \in {B, D, E}}

GraphProjects ==
  {Project("ok", Batch, units, FALSE,
           (A :> File("good", 1, Referring(a))) @@ (B :> File("good", 1, Referring(b)))
             @@ (D :> File("good", 1, Referring(d)))
             @@ (E :> File("good", 1, Referring(e)))) :
     units \in {Batch, <<D, A, B>>}, a \in Some, b \in Some, d \in Few, e \in {<<>>, <<B>>}}

\* One graph with shared chips, and every outcome of reading the four files.
FileProjects ==
  {Project("ok", Batch, <<D, B, A, D, E, B>>, whole,
           (A :> File("good", 1, Referring(<<B, D>>)))
             @@ (B :> File(b, n, Referring(<<E, D>>)))
             @@ (D :> File(d, m, Referring(<<E>>))) @@ (E :> File(e, m, Referring(<<>>)))) :
     whole \in BOOLEAN, n \in 1..3, m \in 1..3,
     b \in {"good", "malformed"}, d \in {"good", "missing", "malformed"},
     e \in {"good", "binary", "malformed"}}

\* Listings that load_metadata refuses, units that are not listed, and a name
\* outside the project.
ListingProjects ==
  {Project(description, listing, <<A, D, B>>, whole,
           [n \in ChipNames \cup ToSet(listing) |->
              File("good", 1, Referring(IF n = A THEN <<B>> ELSE <<>>))]) :
     description \in {"ok", "io", "limit", "parse"}, whole \in BOOLEAN,
     listing \in {<<>>, <<A>>, <<A, B>>, <<A, B, A>>, <<A, <<".", ".">>>>,
                  <<A, <<"b", "/", "a">>>>, <<A, B, D, E, <<"m">>>>}}

-----------------------------------------------------------------------------
(***************************************************************************)
(* One unit, with the chip B inside it.                                    *)
(***************************************************************************)
Built(unit, inner) ==
  Project("ok", <<A, B>>, <<A>>, FALSE,
          (A :> File("good", 1, unit)) @@ (B :> File("good", 1, inner)))

Empty == ChipWith(<<>>, <<>>, <<>>, <<>>)

\* The wires of a set, in some order.
Wires(set) == FoldSet(LAMBDA w, s : Append(s, w), <<>>, set)

In(i)  == Pin(<<"i", "n">>, i, 1)
Out(i) == Pin(<<"o", "u", "t">>, i, 1)

\* A gate, an input and two outputs.
GateProjects ==
  {Built(ChipWith(<<In(1)>>, <<Out(2), Out(3)>>, <<Sub(Nand, 10)>>, Wires(w)), Empty) :
     w \in {s \in SUBSET {Wire(1, 0, 10, 0), Wire(1, 0, 10, 1), Wire(10, 2, 10, 1),
                          Wire(10, 2, 2, 0), Wire(3, 0, 2, 0), Wire(1, 0, 2, 0),
                          Wire(3, 0, 10, 2), Wire(10, 0, 3, 0)} :
              Cardinality(s) <= 5}}

\* A wide input cut, put together again and bent, with a bus.
BusProjects ==
  {Built(ChipWith(<<Pin(A, 1, 2)>>, <<Pin(A, 2, 2), Pin(A, 3, 1)>>,
                  <<Sub(Converter(2, 1), 10), Sub(Converter(1, 2), 11), Sub(link, 12)>>,
                  Wires(w \cup {Wire(1, 0, 10, 0)})), Empty) :
     link \in {Bus(1), Nand},
     w \in {s \in SUBSET {Wire(10, 1, 11, 0), Wire(10, 2, 11, 1), Wire(10, 1, 11, 1),
                          Wire(11, 2, 2, 0), Wire(10, 2, 12, 0), Wire(12, 1, 3, 0),
                          Wire(12, 1, 11, 0), Wire(2, 0, 11, 2)} :
              Cardinality(s) <= 4}}
  \cup
  {Built(ChipWith(<<Pin(A, 1, 4), Pin(<<>>, 4, 2)>>, <<Pin(A, 2, 4), Pin(<<>>, 3, 2)>>,
                  <<Sub(Converter(4, 2), 10), Sub(Converter(2, 4), 11),
                    Sub(Terminus(2), 12)>>,
                  Wires(w \cup {Wire(1, 0, 10, 0), Wire(11, 2, 2, 0), Wire(12, 0, 4, 0)})),
         Empty) :
     w \in SUBSET {Wire(10, 1, 11, 0), Wire(10, 2, 11, 1), Wire(10, 1, 3, 0),
                   Wire(10, 2, 11, 0), Wire(4, 0, 3, 0)}}

\* What B may be: a gate, a wire, or both of its pins joined.
Inners ==
  {ChipWith(<<In(1), In(2)>>, <<Out(3)>>, <<Sub(Nand, 10)>>,
            Wires({Wire(1, 0, 10, 0), Wire(10, 2, 3, 0)} \cup w)) :
     w \in SUBSET {Wire(2, 0, 10, 1), Wire(2, 0, 1, 0)}}
  \cup {ChipWith(<<In(1), In(2)>>, <<Out(3)>>, <<>>, Wires(w)) :
          w \in SUBSET {Wire(1, 0, 3, 0), Wire(2, 0, 3, 0)}}

\* B once or twice in A.
NestedProjects ==
  {Built(ChipWith(<<In(1), In(2)>>, <<Out(3)>>, <<Sub(ChipOf(B), 10), Sub(ChipOf(B), 11)>>,
                  Wires(w \cup {Wire(1, 0, 10, 1)})), inner) :
     inner \in Inners,
     w \in {s \in SUBSET {Wire(2, 0, 10, 2), Wire(10, 3, 3, 0), Wire(10, 3, 11, 1),
                          Wire(2, 0, 11, 2), Wire(11, 3, 3, 0), Wire(11, 3, 10, 2)} :
              Cardinality(s) \in 2..5}}

\* Chips that are refused, for each reason there is.
FaultyProjects ==
  {Built(ChipWith(<<Pin(A, 1, n)>>, <<Pin(A, i, 1)>>, <<Sub(sub, j), Sub(Nand, 12)>>,
                  <<Wire(1, 0, k, 0), Wire(k, 1, i, 0)>>), inner) :
     n \in {0, 1, 3}, i \in 1..2, j \in {2, 12, 13}, k \in {3, 12, 13},
     sub \in {ChipOf(D), ChipOf(B), Converter(3, 2), Bus(0), Bus(5), Terminus(1)},
     inner \in {ChipWith(<<>>, <<Pin(A, 1, n), Pin(A, i, 1)>>, <<>>, <<>>) :
                  n \in 0..1, i \in 1..2}}

\* Four gates are one too many.
LargeProjects ==
  {Built(ChipWith(<<>>, <<>>, [i \in 1..n |-> Sub(ChipOf(B), i)] \o <<Sub(Bus(2), 10)>>, <<>>),
         ChipWith(<<>>, <<>>, [i \in 1..m |-> Sub(Nand, i)], <<>>)) :
     n \in 1..4, m \in 0..4}

-----------------------------------------------------------------------------
MCProjects ==
  <<GraphProjects, FileProjects, ListingProjects, GateProjects, BusProjects,
    NestedProjects, FaultyProjects, LargeProjects>>

\* The loader is given projects as it may expect them.
ASSUME ProjectsAssumption ==
  \A i \in DOMAIN MCProjects : \A p \in MCProjects[i] : p.description = "ok" => IsProject(p)

-----------------------------------------------------------------------------
(***************************************************************************)
(* Sheets: every gate with its pins at its ports, one gate with wires      *)
(* drawn in many ways, every reason for which a sheet is refused, and      *)
(* files of several circuits.                                              *)
(***************************************************************************)
LMLetters  == {"a", "b", "d", "e", "f", "g", "i", "m", "n", "o", "p", "r", "t", "u", "v"}
LMOthers   == {" ", "-", "tab", ".", "/"}
LMSpaces   == {" ", "tab"}
LMControls == {"tab"}
LMKeywords == {<<"i", "f">>}
LMLimits ==
  [ports |-> 6, components |-> 6, nets |-> 10, string |-> 9, parameters |-> 1,
   width |-> 4]

LMSheetLimits ==
  [bytes |-> 3, circuits |-> 3, components |-> 6, wires |-> 5, coordinate |-> 1000,
   inputs |-> 5, size |-> 70, ports |-> 9, checks |-> 60]

Comp(name, x, y, attrs) == [lib |-> TRUE, name |-> name, loc |-> <<x, y>>, attrs |-> attrs]
Pinned(x, y)    == Comp("Pin", x, y, <<>>)
PinnedOut(x, y) == Comp("Pin", x, y, [output |-> "true"])
Line(x, y, v, w) == [from |-> <<x, y>>, to |-> <<v, w>>]

Sheet(name, comps, wires) ==
  [name |-> name, state |-> "good", comps |-> comps, wires |-> wires]
Circ(circuits) ==
  [opened |-> "ok", size |-> 1, text |-> "good", root |-> "project", circuits |-> circuits]
OneSheet(comps, wires) ==
  [file |-> Circ(<<Sheet(<<"m">>, comps, wires)>>), units |-> <<>>, whole |-> TRUE]

-----------------------------------------------------------------------------
(***************************************************************************)
(* Every gate: its output at (200, 100), and a pin at each of its ports,   *)
(* where Logisim draws them.                                               *)
(***************************************************************************)
InputsDrawn ==
  <<<<0>>, <<-10, 10>>, <<-10, 0, 10>>, <<-20, -10, 10, 20>>>>

\* Along and across the gate, as it faces.
DrawnAt(facing, along, across) ==
  CASE facing = "east"  -> <<200 - along, 100 + across>>
    [] facing = "west"  -> <<200 + along, 100 + across>>
    [] facing = "south" -> <<200 + across, 100 - along>>
    [] facing = "north" -> <<200 + across, 100 + along>>

GateAttrs(facing, size, inputs) ==
  (IF facing = "east" THEN <<>> ELSE [facing |-> facing])
    @@ (IF size = 30 THEN <<>> ELSE [size |-> size])
    @@ (IF inputs = 2 THEN <<>> ELSE [inputs |-> inputs])

GateSheets ==
  {LET count == IF kind \in UnaryGates THEN 1 ELSE inputs
   IN  OneSheet([i \in 1..count |->
                   LET p == DrawnAt(facing, size, InputsDrawn[count][i])
                   IN  Pinned(p[1], p[2])]
                  \o <<Comp(kind, 200, 100, GateAttrs(facing, size, inputs)),
                       PinnedOut(200, 100)>>,
                <<>>) :
     kind \in WideGates \cup UnaryGates, facing \in Facings, size \in {30, 50},
     inputs \in 1..4}

-----------------------------------------------------------------------------
(***************************************************************************)
(* One gate, whose inputs are at (170, 90) and (170, 110), with two input  *)
(* pins and an output pin apart from it.                                   *)
(***************************************************************************)
Lines(set) == FoldSet(LAMBDA w, s : Append(s, w), <<>>, set)

WiredSheets ==
  {OneSheet(<<Pinned(100, 90), Pinned(100, 110), Comp(kind, 200, 100, <<>>),
              PinnedOut(240, 100)>>, Lines(w)) :
     kind \in {"NAND Gate", "XOR Gate"},
     w \in {s \in SUBSET {Line(100, 90, 170, 90), Line(170, 110, 100, 110),
                          Line(200, 100, 240, 100), Line(130, 90, 130, 110),
                          Line(140, 60, 140, 130), Line(140, 130, 240, 130),
                          Line(240, 130, 240, 100), Line(170, 90, 170, 130),
                          Line(100, 110, 170, 90), Line(150, 100, 150, 70)} :
              Cardinality(s) <= 5}}

\* Pins wired to pins, a gate that feeds itself, and labels.
PlainSheets ==
  {OneSheet(<<Comp("Pin", 10, 10, [label |-> a]), Comp("Pin", 10, 30, [label |-> b]),
              Comp("Pin", 50, 10, [label |-> c, output |-> "true"]),
              Comp("Pin", 50, 30, [output |-> "true"]),
              Comp("NOT Gate", 50, y, <<>>)>>, Lines(w)) :
     a \in {<<"a">>, <<"o", "u", "t">>, <<" ">>}, b \in {<<"a">>, <<"a", "_", "2">>},
     c \in {<<"a">>, <<>>, <<"tab", "a">>}, y \in {10, 30, 60},
     w \in SUBSET {Line(10, 10, 50, 10), Line(10, 30, 50, 30), Line(20, 60, 50, 60),
                   Line(30, 10, 30, 60)}}

-----------------------------------------------------------------------------
\* Components that are refused, alone and after one another.
Odd == {Comp("AND Gate", 1010, 0, <<>>), Comp("AND Gate", 0, -1010, <<>>),
        Comp("OR Gate", 0, 0, [inputs |-> 0]), Comp("OR Gate", 0, 0, [inputs |-> 7]),
        Comp("OR Gate", 0, 0, [size |-> 0]), Comp("OR Gate", 0, 0, [size |-> 71]),
        Comp("Pin", 0, 0, [width |-> 0]), Comp("Pin", 0, 0, [width |-> 4]),
        Comp("Pin", 0, 0, [facing |-> "up"]), Comp("Multiplexer", 0, 0, <<>>),
        [Comp("m", 0, 0, <<>>) EXCEPT !.lib = FALSE], Pinned(0, 0)}

OddSheets == {OneSheet(<<PinnedOut(0, 0), a, b>>, <<>>) : a \in Odd, b \in Odd}

LargeSheets ==
  {OneSheet([i \in 1..n |-> Comp("AND Gate", 40 * i, 0, [inputs |-> m])],
            [i \in 1..k |-> Line(0, far * i, 40, far * i)]) :
     n \in {1, 2, 7}, m \in {1, 4, 5}, k \in {0, 4, 5, 6}, far \in {10, 240}}

-----------------------------------------------------------------------------
\* Files of three circuits, and what is asked of them.
Good == <<Pinned(0, 0), PinnedOut(0, 0)>>

FileSheets ==
  {[file  |-> [opened |-> opened, size |-> size, text |-> text, root |-> tag,
               circuits |-> <<Sheet(<<"a">>, Good, <<>>),
                              [Sheet(name, <<Pinned(0, 0), odd>>, <<>>)
                                 EXCEPT !.state = state],
                              Sheet(<<"d">>, Good, <<Line(0, 0, 10, 0)>>)>>],
    units |-> <<>>, whole |-> TRUE] :
     opened \in {"ok", "missing"}, size \in {1, 4},
     text \in {"good", "binary", "nodes", "malformed"}, tag \in {"project", "svg"},
     name \in {<<"a">>, <<"b">>}, state \in {"good", "broken", "nameless"},
     odd \in {PinnedOut(0, 0)}}
  \cup
  {[file  |-> Circ(<<Sheet(<<"a">>, Good, <<>>), Sheet(<<"b">>, <<Pinned(0, 0), odd>>, <<>>),
                     Sheet(<<"d">>, Good, <<Line(0, 0, 10, 0)>>)>>
                     \o [i \in 1..more |-> Sheet(<<"e">>, Good, <<>>)]),
    units |-> units, whole |-> whole] :
     odd \in Odd, more \in 0..1, whole \in BOOLEAN,
     units \in {<<<<"b">>, <<"a">>, <<"d">>>>, <<<<"e">>, <<"d">>>>}}

-----------------------------------------------------------------------------
LMSheets ==
  <<GateSheets, WiredSheets, PlainSheets, OddSheets, LargeSheets, FileSheets>>

-----------------------------------------------------------------------------
(***************************************************************************)
(* What is called.                                                         *)
(***************************************************************************)
\* A directory without a description, and a file that is not there.
NoProject == Project("io", <<>>, <<>>, TRUE, <<>>)
NoSheet   == [file |-> [opened |-> "missing", size |-> 0, text |-> "good",
                        root |-> "project", circuits |-> <<>>],
              units |-> <<>>, whole |-> TRUE]

Library(profile) ==
  [use |-> "library", profile |-> profile, path |-> "other", printed |-> FALSE,
   canonical |-> FALSE, force |-> FALSE, existing |-> {}]

Calls ==
  [i \in DOMAIN MCProjects |-> [commands |-> {Library("dls")},
                                projects |-> MCProjects[i], sheets |-> {NoSheet}]]
    \o [i \in DOMAIN LMSheets |-> [commands |-> {Library("logisim")},
                                   projects |-> {NoProject}, sheets |-> LMSheets[i]]]

-----------------------------------------------------------------------------
\* How units may be asked for: all of them, one, or those listed a moment ago.
Requests ==
  <<[use |-> "all", units |-> <<>>], [use |-> "chip", units |-> <<B>>],
    [use |-> "skip", units |-> <<A, B, D>>], [use |-> "skip", units |-> <<A, E>>]>>

Command(use, profile, path, printed, canonical, force, existing) ==
  [use |-> use, profile |-> profile, path |-> path, printed |-> printed,
   canonical |-> canonical, force |-> force, existing |-> existing]

\* With the profile detected, and every way to write; and with a profile given.
Commands(request, path) ==
  {Command(request.use, "", path, printed, canonical, force, existing) :
     printed \in {p \in BOOLEAN : p => request.use = "chip"}, canonical \in BOOLEAN,
     force \in BOOLEAN, existing \in {{}, {<<"v", B>>}, {<<"json", A>>}}}
  \cup {Command(request.use, profile, at, FALSE, FALSE, FALSE, {}) :
          profile \in {"", "dls", "logisim", "svg"}, at \in {path, "other"}}

Through == ChipWith(<<In(1)>>, <<Out(2)>>, <<>>, <<Wire(1, 0, 2, 0)>>)
Undone  == ChipWith(<<In(1)>>, <<Out(2)>>, <<>>, <<>>)
Barred  == ChipWith(<<In(1)>>, <<Out(2)>>, <<Sub(ChipOf(E), 3)>>, <<>>)

\* Three chips, the second of which may be anything.
ChipProjects(request) ==
  {Project(description, listing, request.units, request.use = "all",
           (A :> File("good", 1, a)) @@ (B :> File(state, 1, b))
             @@ (D :> File("good", 1, Through)) @@ (E :> File("missing", 1, Undone))) :
     description \in {"ok", "io"}, listing \in {<<A, B, D>>, <<B, A>>}, a \in {Through, Undone},
     state \in {"good", "missing", "malformed"}, b \in {Through, Undone, Barred}}

\* Three circuits, one of which has a name that is no file name.
CircuitSheets(request) ==
  {[file  |-> Circ(<<Sheet(A, first, <<>>), Sheet(name, second, <<>>),
                     Sheet(D, Good, <<Line(0, 0, 10, 0)>>)>>),
    units |-> IF request.use = "skip" /\ request.units # <<A, E>>
              THEN <<A, name, D>> ELSE request.units,
    whole |-> request.use = "all"] :
     name \in {B, <<"b", "/", "a">>},
     first \in {Good, <<PinnedOut(0, 0)>>},
     second \in {Good, <<PinnedOut(0, 0)>>, <<Comp("Multiplexer", 0, 0, <<>>)>>}}

Runs ==
  [i \in DOMAIN Requests |-> [commands |-> Commands(Requests[i], "project"),
                              projects |-> ChipProjects(Requests[i]), sheets |-> {NoSheet}]]
    \o [i \in DOMAIN Requests |-> [commands |-> Commands(Requests[i], "circ"),
                                   projects |-> {NoProject},
                                   sheets |-> CircuitSheets(Requests[i])]]

MIInvocations == Calls \o Runs
=============================================================================
