---------------------------- MODULE DlsHierarchy -----------------------------
(***************************************************************************)
(* What a hierarchy of chips means, without flattening it: the instances   *)
(* that a unit unfolds into, and what drives each bit of each pin of them. *)
(*                                                                         *)
(* A book is a function from the names of chips to chips.  An instance is  *)
(* <<path, name>>; the path is the sequence of sub-chip ids that leads to  *)
(* it.  A bit of a pin is <<path of the instance, pin, bit>>.              *)
(***************************************************************************)
EXTENDS DlsProject

IsChipOf(book, name) == name.form = "chip" /\ name.text \in DOMAIN book

RECURSIVE InstancesFrom(_, _, _)
InstancesFrom(book, path, name) ==
  {<<path, name>>} \cup
    IF IsChipOf(book, name)
    THEN UNION {InstancesFrom(book, Append(path, sub.id), sub.name) :
                  sub \in ToSet(book[name.text].subs)}
    ELSE {}

Instances(book, unit) == InstancesFrom(book, <<>>, [form |-> "chip", text |-> unit])

ChipsIn(book, unit)  == {i \in Instances(book, unit) : IsChipOf(book, i[2])}
Leaves(book, unit, form) ==
  {i[1] : i \in {j \in Instances(book, unit) : j[2].form = form}}

\* The pin that an address names, seen from a chip.
PinAt(book, instance, address) ==
  IF \E pin \in ToSet(PinsOf(book[instance[2].text])) : pin.id = address.owner
  THEN <<instance[1], address.owner>>
  ELSE <<Append(instance[1], address.owner), address.pin>>

\* The width of a pin that an address names.
WidthAt(book, chip, address) ==
  IF \E pin \in ToSet(PinsOf(chip)) : pin.id = address.owner
  THEN (CHOOSE pin \in ToSet(PinsOf(chip)) : pin.id = address.owner).width
  ELSE LET name == (CHOOSE sub \in ToSet(chip.subs) : sub.id = address.owner).name
       IN  IF IsChipOf(book, name)
           THEN (CHOOSE pin \in ToSet(PinsOf(book[name.text])) : pin.id = address.pin).width
           ELSE IF name.form = "clock" THEN 1
           ELSE Len(BuiltinPins(name)[address.pin])

\* A wire joins two pins bit by bit, and so does a bus.
WireJoins(book, unit) ==
  UNION {LET chip == book[i[2].text] IN
         UNION {{<<Append(PinAt(book, i, w.from), b), Append(PinAt(book, i, w.to), b)>> :
                   b \in 0..WidthAt(book, chip, w.from) - 1} : w \in ToSet(chip.wires)} :
         i \in ChipsIn(book, unit)}

BusJoins(book, unit) ==
  UNION {{<<<<i[1], 0, b>>, <<i[1], 1, b>>>> : b \in 0..i[2].width - 1} :
         i \in {j \in Instances(book, unit) : j[2].form = "bus"}}

\* A converter cuts the wide pin into as many pieces as there are narrow pins,
\* the last of which has the lowest bits.
ConverterJoins(book, unit) ==
  UNION {LET wide  == Larger(i[2].from, i[2].to)
             piece == Lesser(i[2].from, i[2].to)
             last  == IF i[2].from > i[2].to THEN wide \div piece
                      ELSE wide \div piece - 1
             whole == IF i[2].from > i[2].to THEN 0 ELSE wide \div piece
         IN  {<<<<i[1], whole, b>>, <<i[1], last - b \div piece, b % piece>>>> :
                b \in 0..wide - 1} :
         i \in {j \in Instances(book, unit) :
                  j[2].form = "converter" /\ IsBuiltin(j[2])}}

Joins(book, unit) ==
  WireJoins(book, unit) \cup BusJoins(book, unit) \cup ConverterJoins(book, unit)

\* The bits of the signal that some bits belong to.
RECURSIVE Spread(_, _)
Spread(joins, bits) ==
  LET more == bits \cup {j[2] : j \in {k \in joins : k[1] \in bits}}
                   \cup {j[1] : j \in {k \in joins : k[2] \in bits}}
  IN  IF more = bits THEN bits ELSE Spread(joins, more)

\* What may drive a bit: bits of the inputs of the unit, gates, and clocks.
InputBits(book, unit) ==
  UNION {{<<<<>>, pin.id, b>> : b \in 0..pin.width - 1} :
         pin \in ToSet(book[unit].inputs)}
DriverBits(book, unit) ==
  InputBits(book, unit)
    \cup {<<at, 2, 0>> : at \in Leaves(book, unit, "nand")}
    \cup {<<at, 0, 0>> : at \in Leaves(book, unit, "clock")}
=============================================================================
