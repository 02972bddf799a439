----------------------------- MODULE DlsProject ------------------------------
(***************************************************************************)
(* A Digital-Logic-Sim project as the profile reads it                     *)
(* (crates/jsonrtl-profiles/src/dls/model.rs, dls/builtin.rs): chips made  *)
(* of NAND gates, bus converters and other chips.                          *)
(*                                                                         *)
(* The name of a sub-chip is told by its form: "nand", "converter" for     *)
(* X-YBIT, "bus" for BUS-N, "terminus" for BUS-TERMINUS-N, and "chip" for  *)
(* any other, with the text of the name.                                   *)
(***************************************************************************)
EXTENDS Profiles

(***************************************************************************)
(* A chip is a record of its inputs and outputs, which are sequences of    *)
(* pins [name, id, width], of its sub-chips [name, id], and of its wires   *)
(* [from, to] between addresses [owner, pin].                              *)
(***************************************************************************)
PinsOf(chip) == chip.inputs \o chip.outputs

Larger(a, b)  == IF a >= b THEN a ELSE b
Lesser(a, b)  == IF a <= b THEN a ELSE b

\* Builtin::parse_converter: the wide side must divide evenly.
IsConverter(name) ==
  /\ name.from > 0 /\ name.to > 0 /\ name.from # name.to
  /\ Larger(name.from, name.to) % Lesser(name.from, name.to) = 0

IsBuiltin(name) ==
  \/ name.form \in {"nand", "bus", "terminus"}
  \/ name.form = "converter" /\ IsConverter(name)

\* Fault: the least significant piece comes first.
PieceFromBelow(wide, piece, index) ==
  [k \in 1..piece |-> index * piece + k]

\* piece_bits: the bits of narrow pin `index` of a converter, least
\* significant first; pin 0 has the most significant ones.
Piece(wide, piece, index) ==
  [k \in 1..piece |-> wide - (index + 1) * piece + k]

\* The signal bits that a built-in chip adds.
BuiltinSize(name) ==
  CASE name.form = "nand"      -> 3
    [] name.form = "converter" -> Larger(name.from, name.to)
    [] OTHER                   -> name.width

\* The bits that each of its pins names, counting from one.
BuiltinPins(name) ==
  LET all(n) == [k \in 1..n |-> k]
      wide   == Larger(name.from, name.to)
      piece  == Lesser(name.from, name.to)
      count  == wide \div piece
  IN
  CASE name.form = "nand"     -> [pin \in 0..2 |-> <<pin + 1>>]
    [] name.form = "bus"      -> [pin \in 0..1 |-> all(name.width)]
    [] name.form = "terminus" -> [pin \in {0} |-> all(name.width)]
    [] name.form = "converter" /\ name.from > name.to ->
         [pin \in 0..count |-> IF pin = 0 THEN all(wide)
                               ELSE Piece(wide, piece, pin - 1)]
    [] OTHER ->
         [pin \in 0..count |-> IF pin = count THEN all(wide)
                               ELSE Piece(wide, piece, pin)]
=============================================================================
