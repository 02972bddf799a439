------------------------------ MODULE Profiles -------------------------------
(***************************************************************************)
(* What the profiles share (crates/jsonrtl-profiles/src/lib.rs).           *)
(***************************************************************************)
EXTENDS Integers, Sequences, FiniteSets, SequencesExt

\* is_safe_unit_name: one ordinary component of a path.  A name is a sequence of
\* its characters, or of longer pieces without any that matters here.
IsSafeUnitName(name) ==
  /\ name # <<>> /\ name # <<".">> /\ name # <<".", ".">>
  /\ \A i \in DOMAIN name : name[i] \notin {"\\", ":", "NUL", "/"}

\* What of a sequence stands at these places, in its order.
Sifted(sequence, places) ==
  [k \in 1..Cardinality(places) |->
     sequence[CHOOSE i \in places : Cardinality({j \in places : j <= i}) = k]]

(***************************************************************************)
(* Functions that return at the first error: an outcome is "ok" or the     *)
(* kind of the ProfileError.  A check is <<whether it fails, that kind>>.  *)
(***************************************************************************)
FirstFailure(checks) ==
  LET failed == {i \in DOMAIN checks : checks[i][1]}
      first  == CHOOSE i \in failed : \A j \in failed : i <= j
  IN  IF failed = {} THEN "ok" ELSE checks[first][2]

FirstError(outcomes) ==
  FirstFailure([i \in DOMAIN outcomes |-> <<outcomes[i] # "ok", outcomes[i]>>])

Then(outcome, rest) == IF outcome = "ok" THEN rest ELSE outcome
=============================================================================
