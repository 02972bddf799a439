---------------------------- MODULE Identifiers -----------------------------
(***************************************************************************)
(* The identifier policy of the compiler (crates/jsonrtl/src/identifier.rs *)
(* and IdentifierAllocator in ir.rs): how a display name becomes a Verilog *)
(* identifier, and which text the allocator gives when that one is taken.  *)
(*                                                                         *)
(* A text is a sequence of characters.                                     *)
(***************************************************************************)
EXTENDS Integers, Sequences

CONSTANTS
  Letters,   \* the ASCII letters that names use
  Others,    \* characters that are no letter, digit or underscore
  Spaces,    \* those of them that are white space
  Controls,  \* and those that are control characters
  Keywords   \* the Verilog-2001 keywords

DigitChars == <<"0", "1", "2", "3", "4", "5", "6", "7", "8", "9">>
Digits     == {DigitChars[i] : i \in DOMAIN DigitChars}
Starters   == Letters \cup {"_"}
Plain      == Starters \cup Digits

MaxSuffix == 9   \* bound: suffixes of one digit

(***************************************************************************)
(* A keyword begins with a letter, holds no two underscores in a row, and  *)
(* is not another keyword with "_id" behind it: so it is with the list in  *)
(* is_verilog_keyword.                                                     *)
(***************************************************************************)
ASSUME IdentifiersAssumption ==
  /\ {"n", "u", "a", "m", "e", "d", "i"} \subseteq Letters
  /\ Others \cap Plain = {} /\ Digits \cap Starters = {}
  /\ Spaces \subseteq Others /\ Controls \subseteq Others
  /\ Keywords \subseteq Seq(Plain) \ {<<>>}
  /\ \A k \in Keywords :
       /\ k \o <<"_", "i", "d">> \notin Keywords
       /\ \A i \in 1..Len(k) - 1 : k[i] # "_" \/ k[i + 1] # "_"

Unnamed == <<"u", "n", "n", "a", "m", "e", "d">>

-----------------------------------------------------------------------------
\* Every character that is not allowed becomes an underscore.
Cleaned(name) ==
  [i \in DOMAIN name |-> IF name[i] \in Plain THEN name[i] ELSE "_"]

Stem(name) ==
  LET text == IF name = <<>> THEN Unnamed ELSE Cleaned(name)
  IN  IF text[1] \in Digits THEN <<"n", "_">> \o text ELSE text

Candidate(name) ==
  IF Stem(name) \in Keywords THEN Stem(name) \o <<"_", "i", "d">>
  ELSE Stem(name)

IsSafe(text) ==
  /\ text # <<>>
  /\ text[1] \in Starters
  /\ \A i \in DOMAIN text : text[i] \in Plain
  /\ text \notin Keywords

Suffixed(base, n) == base \o <<"_", "_", DigitChars[n + 1]>>

\* Fault: a suffix is tried although it is taken.
AllocatesTaken(used, name, text) ==
  LET base == Candidate(name)
  IN  text = IF base \notin used THEN base ELSE Suffixed(base, 2)

\* The allocator gives `text` for `name`: the candidate itself, or the first
\* of its suffixed forms that is not taken.
Allocates(used, name, text) ==
  LET base == Candidate(name)
  IN  \/ base \notin used /\ text = base
      \/ /\ base \in used
         /\ \E n \in 2..MaxSuffix :
              /\ text = Suffixed(base, n) /\ text \notin used
              /\ \A m \in 2..n - 1 : Suffixed(base, m) \in used

\* The texts that the allocator may give.
Offers(name) ==
  {Candidate(name)} \cup {Suffixed(Candidate(name), n) : n \in 2..MaxSuffix}

-----------------------------------------------------------------------------
(***************************************************************************)
(* The checks that validate_one_name makes of a display name.              *)
(***************************************************************************)
IsBlank(name)    == \A i \in DOMAIN name : name[i] \in Spaces
HasControl(name) == \E i \in DOMAIN name : name[i] \in Controls
=============================================================================
