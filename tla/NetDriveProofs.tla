--------------------------- MODULE NetDriveProofs ---------------------------
(***************************************************************************)
(* Proofs about NetDrive, for nets of any width with any number of         *)
(* attachments.                                                            *)
(***************************************************************************)
EXTENDS NetDrive, WellFoundedInduction, TLAPS

-----------------------------------------------------------------------------
(* Types.                                                                  *)

LEMMA ConnectionBitsType ==
  ASSUME NEW c \in Connection, NEW w \in Nat
  PROVE  /\ ConnectionBits(c, w) \in BitRange
         /\ ConnectionBits(c, w).hi <= w
BY DEF Connection, ConnectionBits, BitRange

LEMMA AttachmentType ==
  ASSUME TypeOK, NEW i \in DOMAIN attached
  PROVE  attached[i].to \in Connection
<1>1. attached[i] \in Attachment
  BY DEF TypeOK
<1>2. WholeNet \in Connection
  BY DEF WholeNet, Connection
<1>3. QED
  BY <1>1, <1>2, NetDriveAssumption DEF Attachment

LEMMA EndpointsType ==
  ASSUME TypeOK, NEW d \in BOOLEAN
  PROVE  EndpointsOf(d) \subseteq Endpoint
<1>1. width \in Nat
  BY NetDriveAssumption DEF TypeOK
<1>2. ASSUME NEW i \in DOMAIN attached
      PROVE  EndpointOf(i) \in Endpoint
  <2>1. ConnectionBits(attached[i].to, width) \in BitRange
    BY <1>1, ConnectionBitsType, AttachmentType
  <2>2. i \in Nat
    BY DEF TypeOK
  <2>3. QED
    BY <2>1, <2>2 DEF EndpointOf, Endpoint, BitRange
<1>3. QED
  BY <1>2 DEF EndpointsOf

LEMMA ListingType ==
  ASSUME NEW S, NEW T, S \subseteq T, NEW s \in SortedListings(S)
  PROVE  s \in Seq(T)
<1>1. PICK n \in 0..MaxAttachments : s \in [1..n -> S]
  BY DEF SortedListings
<1>2. s \in [1..n -> T] /\ n \in Nat
  BY <1>1, NetDriveAssumption
<1>3. QED
  BY <1>2

LEMMA HullType ==
  ASSUME NEW r \in BitRange, NEW s \in BitRange
  PROVE  Hull(r, s) \in BitRange
BY DEF Hull, BitRange, LowerOf, HigherOf, None

\* A nonempty set of naturals has a smallest element.
LEMMA SmallestStop ==
  ASSUME NEW S, S \subseteq Nat, S # {}
  PROVE  \E k \in S : \A j \in S : k <= j
<1> DEFINE Less == OpToRel(<, Nat)
<1>1. PICK k \in S : \A j \in S : ~ (<<j, k>> \in Less)
  <2>1. IsWellFoundedOn(Less, Nat)
    BY NatLessThanWellFounded
  <2>2. QED
    BY <2>1, WFMin
<1>2. \A j \in S : j < k => <<j, k>> \in Less
  BY DEF OpToRel
<1>3. \A j \in S : ~ (j < k)
  BY <1>1, <1>2
<1>4. QED
  BY <1>3

LEMMA FirstGapType ==
  ASSUME NEW r, r.lo \in Nat, r.hi \in Nat, NEW c \in Seq(BitRange)
  PROVE  FirstGap(r, c) \in BitRange
<1> DEFINE stops == GapStops(r, c)
<1>1. None \in BitRange
  BY DEF None, BitRange
<1>2. ASSUME NEW k \in stops
      PROVE  GapAt(r, c, k) \in BitRange
  <2>1. k \in 1..Len(c) + 1 /\ Len(c) \in Nat
    BY DEF GapStops
  <2>2. k # 1 => c[k - 1] \in BitRange
    BY <2>1
  <2>3. Cursor(r, c, k) \in Nat
    BY <2>2 DEF Cursor, BitRange
  <2>4. k <= Len(c) => c[k] \in BitRange
    BY <2>1
  <2>5. QED
    BY <2>1, <2>3, <2>4 DEF GapAt, BitRange, LowerOf
<1>3. CASE stops = {}
  BY <1>1, <1>3 DEF FirstGap
<1>4. CASE stops # {}
  <2> DEFINE first == CHOOSE k \in stops : \A j \in stops : k <= j
  <2>1. \E k \in stops : \A j \in stops : k <= j
    <3>1. stops \subseteq Nat
      BY DEF GapStops
    <3>2. QED
      BY <1>4, <3>1, SmallestStop
  <2>2. first \in stops
    BY <2>1
  <2>3. QED
    BY <1>2, <1>4, <2>2 DEF FirstGap
<1>5. QED
  BY <1>3, <1>4

\* The variables keep their types in every behaviour.
THEOREM TypeCorrect == Spec => []TypeOK
<1>1. Init => TypeOK
  BY DEF Init, TypeOK, Phases, Endpoint, BitRange, None, HigherOf
<1>2. TypeOK /\ [Next]_vars => TypeOK'
  <2> SUFFICES ASSUME TypeOK, [Next]_vars
               PROVE  TypeOK'
    OBVIOUS
  <2> USE DEF TypeOK
  <2>1. CASE BuildRoles
    <3>1. drivers' \in Seq(Endpoint) /\ consumers' \in Seq(Endpoint)
      BY <2>1, EndpointsType, ListingType DEF BuildRoles
    <3>2. QED
      BY <2>1, <3>1 DEF BuildRoles, Phases, HigherOf, BitRange, None
  <2>2. CASE SkipEmptyDriver
    BY <2>2 DEF SkipEmptyDriver, Sweeping, HigherOf
  <2>3. CASE FirstDriver
    BY <2>3 DEF FirstDriver, Sweeping, HigherOf
  <2>4. CASE NextDriver
    <3>1. /\ pos \in 1..Len(drivers) /\ furthest \in 1..Len(drivers)
          /\ drivers[pos] \in Endpoint /\ drivers[furthest] \in Endpoint
      BY <2>4 DEF NextDriver, Sweeping
    <3>2. [lo |-> drivers[pos].lo,
           hi |-> LowerOf(drivers[pos].hi, drivers[furthest].hi)] \in BitRange
      BY <3>1 DEF Endpoint, BitRange, LowerOf
    <3>3. overlap' \in BitRange
      BY <2>4, <3>2, HullType DEF NextDriver
    <3>4. /\ furthest' \in 0..Len(drivers)
          /\ conflicting' \subseteq 1..Len(drivers)
      <4>1. /\ furthest' \in {pos, furthest}
            /\ \/ conflicting' = conflicting \cup {pos, furthest}
               \/ conflicting' = conflicting
        BY <2>4, Zenon DEF NextDriver
      <4>2. furthest' \in 1..Len(drivers)
        BY <3>1, <4>1, Zenon
      <4>3. 1..Len(drivers) \subseteq 0..Len(drivers)
        OBVIOUS
      <4>4. conflicting \subseteq 1..Len(drivers)
        OBVIOUS
      <4>5. conflicting' \subseteq 1..Len(drivers)
        BY <3>1, <4>1, <4>4, Zenon
      <4>6. QED
        BY <4>2, <4>3, <4>5, Zenon
    <3>5. pos' \in 1 .. HigherOf(Len(drivers), Len(consumers)) + 1
      BY <2>4, <3>1 DEF NextDriver, Sweeping, HigherOf
    <3>6. QED
      BY <2>4, <3>3, <3>4, <3>5 DEF NextDriver, Sweeping
  <2>5. CASE EndSweep
    BY <2>5 DEF EndSweep, Phases, Codes, HigherOf
  <2>6. CASE MergeDriver
    <3> DEFINE last == merged[Len(merged)]
    <3>1. drivers[pos] \in Endpoint
      BY <2>6 DEF MergeDriver
    <3>2. [lo |-> drivers[pos].lo, hi |-> drivers[pos].hi] \in BitRange
      BY <3>1 DEF Endpoint, BitRange
    <3>3. ASSUME merged # <<>>
          PROVE  [merged EXCEPT ![Len(merged)].hi = HigherOf(@, drivers[pos].hi)]
                   \in Seq(BitRange)
      <4>1. Len(merged) \in 1..Len(merged) /\ last \in BitRange
        BY <3>3
      <4>2. [last EXCEPT !.hi = HigherOf(@, drivers[pos].hi)] \in BitRange
        BY <3>1, <4>1 DEF Endpoint, BitRange, HigherOf
      <4>3. QED
        BY <4>1, <4>2
    <3>4. merged' \in Seq(BitRange)
      <4>1. Append(merged, [lo |-> drivers[pos].lo, hi |-> drivers[pos].hi])
              \in Seq(BitRange)
        BY <3>2
      <4>2. QED
        BY <2>6, <3>3, <4>1 DEF MergeDriver
    <3>5. QED
      BY <2>6, <3>4 DEF MergeDriver, HigherOf
  <2>7. CASE EndMerge
    BY <2>7 DEF EndMerge, Phases, HigherOf
  <2>8. CASE CheckConsumer
    <3>1. consumers[pos] \in Endpoint
      BY <2>8 DEF CheckConsumer
    <3>2. FirstGap(consumers[pos], merged) \in BitRange
      BY <3>1, FirstGapType DEF Endpoint
    <3>3. undriven' \in BitRange
      BY <2>8, <3>2, HullType DEF CheckConsumer
    <3>4. QED
      BY <2>8, <3>3 DEF CheckConsumer, HigherOf
  <2>9. CASE FinishNet
    BY <2>9 DEF FinishNet, Phases, Codes
  <2>10. CASE UNCHANGED vars
    BY <2>10 DEF vars
  <2>11. QED
    BY <2>1, <2>2, <2>3, <2>4, <2>5, <2>6, <2>7, <2>8, <2>9, <2>10 DEF Next
<1>3. QED
  BY <1>1, <1>2, PTL DEF Spec

-----------------------------------------------------------------------------
(* The sweep.  The walk compares a driver with one earlier driver only, so *)
(* "no conflict found" says nothing about the other pairs by itself.  The  *)
(* strengthening says what the one remembered position stands for: no      *)
(* driver walked so far ends beyond it.                                    *)

\* Position i holds a driver the walk has taken into account.
Swept(i) ==
  /\ i \in 1..Len(drivers)
  /\ pc = "sweep" => i < pos
  /\ ~IsEmpty(drivers[i])

Conflict(i, j) == i # j /\ Overlaps(drivers[i], drivers[j])

\* `drivers` lists the driving endpoints of the document, in range order,
\* each source once.
DriversListed ==
  pc # "build" =>
    /\ \A i \in 1..Len(drivers) : drivers[i] \in EndpointsOf(TRUE)
    /\ \A e \in EndpointsOf(TRUE) : \E i \in 1..Len(drivers) : drivers[i] = e
    /\ \A i, j \in 1..Len(drivers) :
         i < j => drivers[i].lo <= drivers[j].lo /\ drivers[i] # drivers[j]

FurthestReaches ==
  pc # "build" =>
    /\ furthest = 0 => \A i \in 1..Len(drivers) : ~Swept(i)
    /\ furthest # 0 =>
         /\ Swept(furthest)
         /\ \A i \in 1..Len(drivers) :
              Swept(i) => drivers[i].hi <= drivers[furthest].hi

MarksComplete ==
  pc # "build" =>
    \A i \in 1..Len(drivers) :
      i \in conflicting <=>
        Swept(i) /\ \E j \in 1..Len(drivers) : Swept(j) /\ Conflict(i, j)

OverlapKnown ==
  pc # "build" =>
    /\ overlap # None => overlap.lo < overlap.hi
    /\ overlap = None <=> conflicting = {}

Reported ==
  /\ pc \in {"build", "sweep"} => report = {}
  /\ pc \in {"merge", "gaps", "done"} =>
       ("NET_MULTIPLE_DRIVERS" \in report <=> overlap # None)

SweepInv ==
  /\ TypeOK
  /\ DriversListed
  /\ FurthestReaches
  /\ MarksComplete
  /\ OverlapKnown
  /\ Reported

\* A listing is an increasing enumeration: lower bounds never decrease and no
\* endpoint occurs twice.
LEMMA ListingFacts ==
  ASSUME NEW S, S \subseteq Endpoint, NEW s \in SortedListings(S)
  PROVE  /\ \A i \in 1..Len(s) : s[i] \in S
         /\ \A e \in S : \E i \in 1..Len(s) : s[i] = e
         /\ \A i, j \in 1..Len(s) :
              i < j => s[i].lo <= s[j].lo /\ s[i] # s[j]
<1>1. PICK n \in 0..MaxAttachments : s \in [1..n -> S]
  BY DEF SortedListings
<1>2. n \in Nat /\ Len(s) = n /\ DOMAIN s = 1..n
  BY <1>1, NetDriveAssumption
<1>3. \A i, j \in 1..n : i < j => Before(s[i], s[j])
  BY <1>2 DEF SortedListings
<1>4. ASSUME NEW i \in 1..n, NEW j \in 1..n, i < j
      PROVE  s[i].lo <= s[j].lo /\ s[i] # s[j]
  <2>1. s[i] \in Endpoint /\ s[j] \in Endpoint
    BY <1>1
  <2>2. Before(s[i], s[j])
    BY <1>3, <1>4
  <2>3. QED
    BY <2>1, <2>2 DEF Before, Endpoint
<1>5. \A e \in S : \E i \in 1..n : s[i] = e
  BY <1>2 DEF SortedListings
<1>6. QED
  BY <1>1, <1>2, <1>4, <1>5

\* Whoever overlaps a later driver and reaches less far than another, that other one
\* overlaps both.
LEMMA FurtherOverlaps ==
  ASSUME NEW r \in Endpoint, NEW d \in Endpoint, NEW f \in Endpoint, Overlaps(r, d),
         r.lo <= d.lo, f.lo <= d.lo, r.hi <= f.hi, r.lo < r.hi, ~IsEmpty(d)
  PROVE  Overlaps(d, f) /\ Overlaps(r, f)
BY DEF Overlaps, Endpoint, IsEmpty

\* The step that does the comparison keeps the marks complete.
LEMMA NextDriverMarks ==
  ASSUME SweepInv, NextDriver
  PROVE  FurthestReaches' /\ MarksComplete'
<1> DEFINE n == Len(drivers)
           d == drivers[pos]
           f == drivers[furthest]
<1>1. /\ pc = "sweep" /\ pc' = "sweep" /\ drivers' = drivers /\ pos' = pos + 1
      /\ n \in Nat /\ pos \in 1..n /\ furthest \in 1..n /\ ~IsEmpty(d)
  BY DEF SweepInv, TypeOK, NextDriver, Sweeping
<1>2. \A i \in 1..n : drivers[i] \in Endpoint
  BY DEF SweepInv, TypeOK
<1>3. \A i \in 1..n : Swept(i)' <=> Swept(i) \/ i = pos
  BY <1>1 DEF Swept, IsEmpty
<1>4. Swept(furthest) /\ ~Swept(pos)
  BY <1>1 DEF SweepInv, FurthestReaches, Swept
<1>5. \A i \in 1..n : Swept(i) => drivers[i].hi <= f.hi
  BY <1>1 DEF SweepInv, FurthestReaches
<1>6. \A i \in 1..n : Swept(i) => drivers[i].lo <= d.lo /\ i < pos
  BY <1>1 DEF SweepInv, DriversListed, Swept
<1>7. furthest' = IF d.hi > f.hi THEN pos ELSE furthest
  BY DEF NextDriver
<1>8. FurthestReaches'
  <2>1. furthest' = IF d.hi > f.hi THEN pos ELSE furthest
    BY <1>7
  <2>2. d.hi \in Nat /\ f.hi \in Nat /\ \A i \in 1..n : drivers[i].hi \in Nat
    BY <1>1, <1>2 DEF Endpoint
  <2>3. Swept(furthest)'
    <3>1. furthest' \in 1..n
      BY <1>1, <2>1
    <3>2. ~IsEmpty(drivers[furthest']) /\ furthest' < pos + 1
      BY <1>1, <1>4, <2>1 DEF Swept
    <3>3. QED
      BY <1>1, <3>1, <3>2 DEF Swept, IsEmpty
  <2>4. \A i \in 1..n : Swept(i)' => drivers[i].hi <= drivers[furthest'].hi
    BY <1>1, <1>3, <1>5, <2>1, <2>2
  <2>5. furthest' # 0
    BY <1>1, <2>1
  <2>6. \A i \in 1..n : Swept(i)' => drivers'[i].hi <= drivers'[furthest'].hi
    BY <1>1, <2>4
  <2>7. QED
    BY <1>1, <2>3, <2>5, <2>6 DEF FurthestReaches
\* Of the drivers walked before, those that overlap this one exist only if the
\* furthest one overlaps it, and are marked already or are the furthest one.
<1>9. ASSUME NEW i \in 1..n, Swept(i), Overlaps(drivers[i], d)
      PROVE  /\ Overlaps(d, f)
             /\ i \in conflicting \/ i = furthest
  <2>1. /\ drivers[i] \in Endpoint /\ d \in Endpoint /\ f \in Endpoint
        /\ drivers[i].lo <= d.lo /\ f.lo <= d.lo
        /\ drivers[i].hi <= f.hi
        /\ drivers[i].lo < drivers[i].hi
    <3>1. drivers[i] \in Endpoint /\ d \in Endpoint /\ f \in Endpoint
      BY <1>1, <1>2
    <3>2. ~IsEmpty(drivers[i])
      BY <1>9 DEF Swept
    <3>3. drivers[i].lo < drivers[i].hi
      BY <3>1, <3>2 DEF IsEmpty, Endpoint
    <3>4. QED
      BY <1>1, <1>4, <1>5, <1>6, <1>9, <3>1, <3>3
  <2>2. Overlaps(d, f)
    BY <1>1, <1>9, <2>1, FurtherOverlaps
  <2>3. Overlaps(drivers[i], f)
    BY <1>1, <1>9, <2>1, FurtherOverlaps
  <2>4. i # furthest => i \in conflicting
    BY <1>1, <1>4, <1>9, <2>3 DEF SweepInv, MarksComplete, Conflict
  <2>5. QED
    BY <2>2, <2>4
<1>10. MarksComplete'
  <2>1. \A i \in 1..n : i \in conflicting <=>
          Swept(i) /\ \E j \in 1..n : Swept(j) /\ Conflict(i, j)
    BY <1>1 DEF SweepInv, MarksComplete
  <2>2. \A i, j \in 1..n : Conflict(i, j)' <=> Conflict(i, j)
    BY <1>1 DEF Conflict, Overlaps
  <2>3. \A i, j \in 1..n : Conflict(i, j) <=> Conflict(j, i)
    BY DEF Conflict, Overlaps
  <2>4. \A i \in 1..n : Swept(i) => (Conflict(i, pos) <=> Overlaps(drivers[i], d))
    BY <1>6, <1>1 DEF Conflict
  <2>5. Conflict(furthest, pos) <=> Overlaps(d, f)
    BY <1>4 DEF Conflict, Overlaps
  <2>6. SUFFICES ASSUME NEW i \in 1..n
                 PROVE  i \in conflicting' <=>
                          Swept(i)' /\ \E j \in 1..n : Swept(j)' /\ Conflict(i, j)
    BY <1>1, <2>2 DEF MarksComplete
  <2>7. CASE Overlaps(d, f)
    <3>1. conflicting' = conflicting \cup {pos, furthest}
      BY <2>7 DEF NextDriver
    <3>2. CASE i = pos
      BY <1>1, <1>3, <1>4, <2>3, <2>5, <2>7, <3>1, <3>2
    <3>3. CASE i = furthest
      BY <1>1, <1>3, <1>4, <2>5, <2>7, <3>1, <3>3
    <3>4. CASE i # pos /\ i # furthest
      BY <1>1, <1>3, <1>9, <2>1, <2>4, <3>1, <3>4
    <3>5. QED
      BY <3>2, <3>3, <3>4
  <2>8. CASE ~Overlaps(d, f)
    <3>1. conflicting' = conflicting
      BY <2>8 DEF NextDriver
    <3>2. \A j \in 1..n : Swept(j) => ~Conflict(j, pos)
      BY <1>9, <2>4, <2>8
    <3>3. pos \notin conflicting
      BY <1>1, <1>4, <2>1
    <3>4. ~Conflict(pos, pos)
      BY DEF Conflict
    <3>5. QED
      BY <1>1, <1>3, <2>1, <2>3, <3>1, <3>2, <3>3, <3>4
  <2>9. QED
    BY <2>7, <2>8
<1>11. QED
  BY <1>8, <1>10

\* Marking and growing the reported range happen together.
LEMMA NextDriverOverlap ==
  ASSUME SweepInv, NextDriver
  PROVE  OverlapKnown'
<1> DEFINE d == drivers[pos]
           f == drivers[furthest]
           shared == [lo |-> d.lo, hi |-> LowerOf(d.hi, f.hi)]
<1>1. /\ pc = "sweep" /\ pos \in 1..Len(drivers) /\ furthest \in 1..Len(drivers)
      /\ d \in Endpoint /\ f \in Endpoint /\ ~IsEmpty(d) /\ overlap \in BitRange
  BY DEF SweepInv, TypeOK, NextDriver, Sweeping
<1>2. /\ overlap # None => overlap.lo < overlap.hi
      /\ overlap = None <=> conflicting = {}
  BY <1>1 DEF SweepInv, OverlapKnown
<1>3. CASE Overlaps(d, f)
  <2>1. shared \in BitRange /\ shared.lo < shared.hi
    BY <1>1, <1>3 DEF Overlaps, IsEmpty, Endpoint, BitRange, LowerOf
  <2>2. overlap' = Hull(overlap, shared) /\ conflicting' # {}
    BY <1>3 DEF NextDriver
  <2>3. Hull(overlap, shared).lo < Hull(overlap, shared).hi
    BY <1>1, <1>2, <2>1 DEF Hull, LowerOf, HigherOf, BitRange
  <2>4. None.lo = 1 /\ None.hi = 0
    BY DEF None
  <2>5. overlap' # None
    BY <2>2, <2>3, <2>4
  <2>6. QED
    BY <2>2, <2>3, <2>5 DEF OverlapKnown
<1>4. CASE ~Overlaps(d, f)
  BY <1>1, <1>2, <1>4 DEF NextDriver, OverlapKnown
<1>5. QED
  BY <1>3, <1>4

\* The furthest driver stands for all earlier ones at every step of the sweep.
THEOREM SweepInvariant == Spec => []SweepInv
<1>1. Init => SweepInv
  <2> SUFFICES ASSUME Init
               PROVE  DriversListed /\ FurthestReaches /\ MarksComplete
                        /\ OverlapKnown /\ Reported /\ TypeOK
    BY DEF SweepInv
  <2>1. TypeOK
    BY DEF Init, TypeOK, Phases, Endpoint, BitRange, None, HigherOf
  <2>2. QED
    BY <2>1 DEF Init, DriversListed, FurthestReaches, MarksComplete,
                OverlapKnown, Reported
<1>2. TypeOK' /\ SweepInv /\ [Next]_vars => SweepInv'
  <2> SUFFICES ASSUME TypeOK', SweepInv, [Next]_vars
               PROVE  /\ DriversListed' /\ FurthestReaches' /\ MarksComplete'
                      /\ OverlapKnown' /\ Reported'
    BY DEF SweepInv
  <2> USE DEF SweepInv
  <2>1. CASE BuildRoles
    <3>1. /\ attached' = attached /\ width' = width /\ pc = "build"
          /\ drivers' \in SortedListings(EndpointsOf(TRUE))
          /\ pc' = "sweep" /\ pos' = 1 /\ furthest' = 0
          /\ conflicting' = {} /\ overlap' = None /\ report' = report
      BY <2>1 DEF BuildRoles
    <3>2. EndpointsOf(TRUE)' = EndpointsOf(TRUE)
      BY <3>1 DEF EndpointsOf, EndpointOf, Listed
    <3>3. DriversListed'
      <4>1. EndpointsOf(TRUE) \subseteq Endpoint
        BY EndpointsType
      <4>2. /\ \A i \in 1..Len(drivers') : drivers'[i] \in EndpointsOf(TRUE)
            /\ \A e \in EndpointsOf(TRUE) : \E i \in 1..Len(drivers') : drivers'[i] = e
            /\ \A i, j \in 1..Len(drivers') :
                 i < j => drivers'[i].lo <= drivers'[j].lo /\ drivers'[i] # drivers'[j]
        BY <3>1, <4>1, ListingFacts
      <4>3. QED
        BY <3>2, <4>2 DEF DriversListed
    <3>4. \A i : ~Swept(i)'
      BY <3>1 DEF Swept
    <3>5. QED
      BY <3>1, <3>3, <3>4 DEF FurthestReaches, MarksComplete, OverlapKnown,
                             Reported
  <2> DEFINE Kept == /\ attached' = attached /\ width' = width
                     /\ drivers' = drivers /\ pc # "build" /\ pc' # "build"
  <2>2. Kept => DriversListed'
    <3>1. Kept => EndpointsOf(TRUE)' = EndpointsOf(TRUE)
      BY DEF EndpointsOf, EndpointOf, Listed
    <3>2. QED
      BY <3>1 DEF DriversListed
  <2>3. ASSUME Kept, furthest' = furthest, conflicting' = conflicting,
               \A i \in 1..Len(drivers) : Swept(i)' <=> Swept(i)
        PROVE  FurthestReaches' /\ MarksComplete'
    <3>1. \A i, j \in 1..Len(drivers) : Conflict(i, j)' <=> Conflict(i, j)
      BY <2>3 DEF Conflict, Overlaps
    <3>2. MarksComplete'
      BY <2>3, <3>1 DEF MarksComplete
    <3>3. Swept(furthest)' <=> Swept(furthest)
      BY <2>3 DEF Swept
    <3>4. FurthestReaches'
      BY <2>3, <3>3 DEF FurthestReaches
    <3>5. QED
      BY <3>2, <3>4
  <2>4. CASE SkipEmptyDriver
    <3>1. Kept /\ pos \in Nat
      BY <2>4 DEF SkipEmptyDriver, Sweeping, TypeOK
    <3>2. /\ pc = "sweep" /\ pc' = "sweep" /\ pos' = pos + 1 /\ drivers' = drivers
          /\ IsEmpty(drivers[pos]) /\ furthest' = furthest
          /\ conflicting' = conflicting /\ overlap' = overlap /\ report' = report
      BY <2>4 DEF SkipEmptyDriver, Sweeping
    <3>3. \A i \in 1..Len(drivers) : Swept(i)' <=> Swept(i)
      BY <3>1, <3>2 DEF Swept, IsEmpty
    <3>4. QED
      BY <2>2, <2>3, <3>1, <3>2, <3>3 DEF OverlapKnown, Reported
  <2>5. CASE FirstDriver
    <3>1. Kept /\ pos \in 1..Len(drivers)
      BY <2>5 DEF FirstDriver, Sweeping, TypeOK
    <3>2. /\ pc = "sweep" /\ pc' = "sweep" /\ pos' = pos + 1 /\ drivers' = drivers
          /\ ~IsEmpty(drivers[pos]) /\ furthest = 0 /\ furthest' = pos
          /\ conflicting' = conflicting /\ overlap' = overlap /\ report' = report
      BY <2>5 DEF FirstDriver, Sweeping
    <3>3. \A i \in 1..Len(drivers) : ~Swept(i)
      BY <3>2 DEF FurthestReaches
    <3>4. \A i \in 1..Len(drivers) : Swept(i)' <=> i = pos
      BY <3>1, <3>2, <3>3 DEF Swept, IsEmpty
    <3>5. Swept(furthest)' /\ drivers[pos].hi \in Nat
      <4>1. drivers[pos] \in Endpoint /\ pos < pos + 1
        BY <3>1 DEF TypeOK
      <4>2. Swept(furthest)'
        BY <3>1, <3>2, <4>1 DEF Swept, IsEmpty
      <4>3. QED
        BY <4>1, <4>2 DEF Endpoint
    <3>6. FurthestReaches'
      BY <3>1, <3>2, <3>4, <3>5 DEF FurthestReaches
    <3>7. MarksComplete'
      <4>1. conflicting = {}
        BY <3>1, <3>3 DEF MarksComplete, TypeOK
      <4>2. \A i \in 1..Len(drivers) : ~Conflict(i, i)'
        BY DEF Conflict
      <4>3. QED
        BY <3>1, <3>2, <3>4, <4>1, <4>2 DEF MarksComplete, Conflict
    <3>8. QED
      BY <2>2, <3>1, <3>2, <3>6, <3>7 DEF OverlapKnown, Reported
  <2>6. CASE NextDriver
    <3>1. Kept /\ pc' = pc /\ report' = report /\ pc = "sweep"
      BY <2>6 DEF NextDriver, Sweeping
    <3>2. QED
      BY <2>2, <2>6, <3>1, NextDriverMarks, NextDriverOverlap DEF Reported
  <2>7. CASE EndSweep
    <3>1. /\ Kept /\ furthest' = furthest /\ conflicting' = conflicting
          /\ overlap' = overlap /\ pc = "sweep" /\ pc' = "merge"
          /\ pos > Len(drivers)
      BY <2>7 DEF EndSweep
    <3>2. \A i \in 1..Len(drivers) : Swept(i)' <=> Swept(i)
      BY <3>1 DEF Swept, TypeOK, IsEmpty
    <3>3. Reported'
      BY <2>7, <3>1 DEF EndSweep, Reported
    <3>4. QED
      BY <2>2, <2>3, <3>1, <3>2, <3>3 DEF OverlapKnown
  <2> DEFINE Later == /\ Kept /\ furthest' = furthest
                      /\ conflicting' = conflicting /\ overlap' = overlap
                      /\ pc \in {"merge", "gaps", "done"}
                      /\ pc' \in {"merge", "gaps", "done"}
                      /\ "NET_MULTIPLE_DRIVERS" \in report'
                           <=> "NET_MULTIPLE_DRIVERS" \in report
  <2>8. ASSUME Later
        PROVE  /\ DriversListed' /\ FurthestReaches' /\ MarksComplete'
               /\ OverlapKnown' /\ Reported'
    <3>1. \A i \in 1..Len(drivers) : Swept(i)' <=> Swept(i)
      BY <2>8 DEF Swept, IsEmpty
    <3>2. OverlapKnown' /\ Reported'
      BY <2>8 DEF OverlapKnown, Reported
    <3>3. QED
      BY <2>2, <2>3, <2>8, <3>1, <3>2
  <2>9. CASE MergeDriver
    BY <2>8, <2>9 DEF MergeDriver
  <2>10. CASE EndMerge
    BY <2>8, <2>10 DEF EndMerge
  <2>11. CASE CheckConsumer
    BY <2>8, <2>11 DEF CheckConsumer
  <2>12. CASE FinishNet
    BY <2>8, <2>12 DEF FinishNet
  <2>13. CASE UNCHANGED vars
    <3>1. \A i \in 1..Len(drivers) : Swept(i)' <=> Swept(i)
      BY <2>13 DEF vars, Swept, IsEmpty
    <3>2. OverlapKnown' /\ Reported'
      BY <2>13 DEF vars, OverlapKnown, Reported
    <3>3. CASE pc = "build"
      BY <2>13, <3>2, <3>3 DEF vars, DriversListed, FurthestReaches, MarksComplete
    <3>4. CASE pc # "build"
      BY <2>2, <2>3, <2>13, <3>1, <3>2, <3>4 DEF vars
    <3>5. QED
      BY <3>3, <3>4
  <2>14. QED
    BY <2>1, <2>4, <2>5, <2>6, <2>7, <2>9, <2>10, <2>11, <2>12, <2>13 DEF Next
<1>3. QED
  BY <1>1, <1>2, TypeCorrect, PTL DEF Spec

-----------------------------------------------------------------------------
(* From positions in the sorted list to bits of the document.              *)

\* What an attachment covers is the range of the endpoint built from it, and
\* it lies inside the net.
LEMMA CoversEndpoint ==
  ASSUME TypeOK, NEW i \in DOMAIN attached, NEW b
  PROVE  /\ Covers(i, b) <=> b \in BitsIn(EndpointOf(i))
         /\ Covers(i, b) => b \in NetBits
<1>1. width \in Nat
  BY NetDriveAssumption DEF TypeOK
<1>2. /\ ConnectionBits(attached[i].to, width) \in BitRange
      /\ ConnectionBits(attached[i].to, width).hi <= width
  BY <1>1, ConnectionBitsType, AttachmentType
<1>3. QED
  BY <1>1, <1>2 DEF Covers, EndpointOf, BitsIn, NetBits, BitRange

\* An attachment that covers a bit has a range that is not empty.
LEMMA CoveredNotEmpty ==
  ASSUME TypeOK, NEW i \in DOMAIN attached, NEW b \in BitsIn(EndpointOf(i))
  PROVE  ~IsEmpty(EndpointOf(i))
<1>1. width \in Nat
  BY NetDriveAssumption DEF TypeOK
<1>2. EndpointOf(i).lo \in Nat /\ EndpointOf(i).hi \in Nat
  BY <1>1, ConnectionBitsType, AttachmentType DEF EndpointOf, BitRange
<1>3. QED
  BY <1>2 DEF IsEmpty, BitsIn

\* Two nonempty ranges overlap exactly when some bit is in both.
LEMMA OverlapIsSharedBit ==
  ASSUME NEW d \in Endpoint, NEW e \in Endpoint, ~IsEmpty(d), ~IsEmpty(e)
  PROVE  Overlaps(d, e) <=> \E b \in BitsIn(d) : b \in BitsIn(e)
<1>1. ASSUME Overlaps(d, e)
      PROVE  HigherOf(d.lo, e.lo) \in BitsIn(d) \cap BitsIn(e)
  BY <1>1 DEF Overlaps, IsEmpty, BitsIn, HigherOf, Endpoint
<1>2. ASSUME NEW b \in BitsIn(d), b \in BitsIn(e)
      PROVE  Overlaps(d, e)
  BY <1>2 DEF Overlaps, BitsIn, Endpoint
<1>3. QED
  BY <1>1, <1>2

\* Once the walk is over, the marked positions are the contested attachments.
LEMMA MarkedIffContested ==
  ASSUME SweepInv, pc \in {"merge", "gaps", "done"}
  PROVE  {drivers[i].src : i \in conflicting} = UNION {DrivenBy(b) : b \in Contested}
<1> USE DEF SweepInv
<1>1. /\ \A i \in 1..Len(drivers) : drivers[i] \in EndpointsOf(TRUE)
      /\ \A e \in EndpointsOf(TRUE) : \E i \in 1..Len(drivers) : drivers[i] = e
      /\ \A i, j \in 1..Len(drivers) : i < j => drivers[i] # drivers[j]
  BY DEF DriversListed
<1>2. \A i \in 1..Len(drivers) :
        i \in conflicting <=>
          Swept(i) /\ \E j \in 1..Len(drivers) : Swept(j) /\ Conflict(i, j)
  BY DEF MarksComplete
<1>3. \A i \in 1..Len(drivers) : Swept(i) <=> ~IsEmpty(drivers[i])
  BY DEF Swept
<1>4. conflicting \subseteq 1..Len(drivers)
  BY DEF TypeOK
<1>5. ASSUME NEW i \in 1..Len(drivers)
      PROVE  /\ drivers[i] \in Endpoint
             /\ drivers[i].src \in DOMAIN attached
             /\ drivers[i] = EndpointOf(drivers[i].src)
             /\ Drives(attached[drivers[i].src])
  <2>1. drivers[i] \in Endpoint
    BY DEF TypeOK
  <2>2. PICK a \in DOMAIN attached : drivers[i] = EndpointOf(a) /\ Drives(attached[a])
    BY <1>1 DEF EndpointsOf, Drives
  <2>3. drivers[i].src = a
    BY <2>2 DEF EndpointOf
  <2>4. QED
    BY <2>1, <2>2, <2>3
<1>6. ASSUME NEW a \in DOMAIN attached, NEW b, a \in DrivenBy(b)
      PROVE  \E i \in 1..Len(drivers) :
               drivers[i] = EndpointOf(a) /\ drivers[i].src = a /\ Swept(i)
  <2>1. Drives(attached[a]) /\ b \in BitsIn(EndpointOf(a))
    BY <1>6, CoversEndpoint DEF DrivenBy
  <2>2. EndpointOf(a).src = a
    BY DEF EndpointOf
  <2>3. ~IsEmpty(EndpointOf(a))
    BY <2>1, CoveredNotEmpty
  <2>4. EndpointOf(a) \in EndpointsOf(TRUE)
    BY <2>1, <2>3 DEF EndpointsOf, Listed
  <2>5. QED
    BY <1>1, <1>3, <2>2, <2>3, <2>4
<1>7. ASSUME NEW i \in conflicting
      PROVE  \E b \in Contested : drivers[i].src \in DrivenBy(b)
  <2>1. i \in 1..Len(drivers) /\ Swept(i)
    BY <1>2, <1>4
  <2>2. PICK j \in 1..Len(drivers) : Swept(j) /\ Conflict(i, j)
    BY <1>2, <2>1
  <2>3. PICK b \in BitsIn(drivers[i]) : b \in BitsIn(drivers[j])
    BY <1>3, <1>5, <2>1, <2>2, OverlapIsSharedBit DEF Conflict
  <2>4. /\ drivers[i].src \in DrivenBy(b) /\ drivers[j].src \in DrivenBy(b)
        /\ b \in NetBits
    BY <1>5, <2>1, <2>3, CoversEndpoint DEF DrivenBy
  <2>5. drivers[i].src # drivers[j].src
    <3>1. drivers[i] # drivers[j]
      <4>1. i < j \/ j < i
        BY <2>1, <2>2 DEF Conflict
      <4>2. QED
        BY <1>1, <2>1, <4>1
    <3>2. QED
      BY <1>5, <2>1, <3>1
  <2>6. b \in Contested
    BY <2>4, <2>5 DEF Contested
  <2>7. QED
    BY <2>4, <2>6
<1>8. ASSUME NEW b \in Contested, NEW a \in DrivenBy(b)
      PROVE  \E i \in conflicting : drivers[i].src = a
  <2>1. PICK c \in DrivenBy(b) : c # a
    BY <1>8 DEF Contested
  <2>2. a \in DOMAIN attached /\ c \in DOMAIN attached
    BY <1>8, <2>1 DEF DrivenBy
  <2>3. PICK i \in 1..Len(drivers) :
          drivers[i] = EndpointOf(a) /\ drivers[i].src = a /\ Swept(i)
    BY <1>6, <1>8, <2>2
  <2>4. PICK j \in 1..Len(drivers) :
          drivers[j] = EndpointOf(c) /\ drivers[j].src = c /\ Swept(j)
    BY <1>6, <2>1, <2>2
  <2>5. b \in BitsIn(drivers[i]) /\ b \in BitsIn(drivers[j])
    BY <1>8, <2>1, <2>2, <2>3, <2>4, CoversEndpoint DEF DrivenBy
  <2>6. Overlaps(drivers[i], drivers[j])
    BY <1>3, <1>5, <2>3, <2>4, <2>5, OverlapIsSharedBit
  <2>7. i # j
    BY <2>1, <2>3, <2>4
  <2>8. i \in conflicting
    BY <1>2, <2>3, <2>4, <2>6, <2>7 DEF Conflict
  <2>9. QED
    BY <2>3, <2>8
<1>9. QED
  BY <1>7, <1>8

\* The diagnostic lists exactly the drivers that share a bit with another one,
\* on every net: the walk of validate_electrical_roles misses no pair.
THEOREM ConflictList == Spec => []ConflictListExact
<1>1. SweepInv => ConflictListExact
  BY MarkedIffContested DEF ConflictListExact
<1>2. QED
  BY <1>1, SweepInvariant, PTL

\* NET_MULTIPLE_DRIVERS is reported exactly when two attachments drive a bit.
THEOREM MultipleDrivers == Spec => []MultipleDriversExact
<1>1. SweepInv => MultipleDriversExact
  <2> SUFFICES ASSUME SweepInv, pc \in {"merge", "gaps", "done"}
               PROVE  ("NET_MULTIPLE_DRIVERS" \in report) <=> (Contested # {})
    BY DEF MultipleDriversExact
  <2>1. "NET_MULTIPLE_DRIVERS" \in report <=> conflicting # {}
    BY DEF SweepInv, Reported, OverlapKnown
  <2>2. {drivers[i].src : i \in conflicting} = UNION {DrivenBy(b) : b \in Contested}
    BY MarkedIffContested
  <2>3. \A b \in Contested : DrivenBy(b) # {}
    BY DEF Contested
  <2>4. QED
    BY <2>1, <2>2, <2>3
<1>2. QED
  BY <1>1, SweepInvariant, PTL


-----------------------------------------------------------------------------
(* The range that NET_MULTIPLE_DRIVERS names.  It is grown from one        *)
(* comparison to the next; the invariant says that after each it reaches   *)
(* from the lowest to the highest bit that two walked drivers share.       *)

\* The bits that two of the drivers walked so far share.
SharedBits ==
  {b \in Nat : \E i, j \in 1..Len(drivers) :
     /\ i # j /\ Swept(i) /\ Swept(j)
     /\ b \in BitsIn(drivers[i]) /\ b \in BitsIn(drivers[j])}

OverlapSpans ==
  pc # "build" =>
    /\ overlap # None => /\ overlap.lo < overlap.hi
                         /\ {overlap.lo, overlap.hi - 1} \subseteq SharedBits
    /\ SharedBits # {} => overlap # None
    /\ SharedBits \subseteq BitsIn(overlap)

\* What a hull consists of: its ends are ends of its parts, and it holds both.
LEMMA HullSpans ==
  ASSUME NEW r \in BitRange, NEW s \in BitRange, s.lo < s.hi,
         r # None => r.lo < r.hi
  PROVE  /\ Hull(r, s) \in BitRange /\ Hull(r, s) # None
         /\ Hull(r, s).lo < Hull(r, s).hi
         /\ Hull(r, s).lo = s.lo \/ (r # None /\ Hull(r, s).lo = r.lo)
         /\ Hull(r, s).hi = s.hi \/ (r # None /\ Hull(r, s).hi = r.hi)
         /\ Hull(r, s).lo <= s.lo /\ s.hi <= Hull(r, s).hi
         /\ r # None => Hull(r, s).lo <= r.lo /\ r.hi <= Hull(r, s).hi
<1> DEFINE h == Hull(r, s)
<1>1. None.lo = 1 /\ None.hi = 0
  BY DEF None
<1>2. CASE r = None
  <2>1. h = s
    BY <1>2 DEF Hull
  <2>2. s # None
    BY <1>1
  <2>3. s.lo \in Nat /\ s.hi \in Nat
    BY DEF BitRange
  <2>4. QED
    BY <1>2, <2>1, <2>2, <2>3
<1>3. CASE r # None
  <2>1. h = [lo |-> LowerOf(r.lo, s.lo), hi |-> HigherOf(r.hi, s.hi)]
    BY <1>3 DEF Hull
  <2>2. h.lo = LowerOf(r.lo, s.lo) /\ h.hi = HigherOf(r.hi, s.hi)
    BY <2>1
  <2>3. r.lo \in Nat /\ r.hi \in Nat /\ s.lo \in Nat /\ s.hi \in Nat
    BY DEF BitRange
  <2>4. /\ h.lo \in {r.lo, s.lo} /\ h.lo <= r.lo /\ h.lo <= s.lo
        /\ h.hi \in {r.hi, s.hi} /\ r.hi <= h.hi /\ s.hi <= h.hi
    BY <2>2, <2>3 DEF LowerOf, HigherOf
  <2>5. h \in BitRange
    BY <2>1, <2>2, <2>3, <2>4 DEF BitRange
  <2>6. h.lo < h.hi
    BY <2>3, <2>4
  <2>7. h # None
    BY <1>1, <2>3, <2>4, <2>6
  <2>8. QED
    BY <1>3, <2>4, <2>5, <2>6, <2>7
<1>4. QED
  BY <1>2, <1>3

\* The comparison with the furthest reaching driver finds every bit that the
\* next driver shares with any driver before it, and only shared bits.
LEMMA NextDriverSpans ==
  ASSUME SweepInv, OverlapSpans, NextDriver
  PROVE  OverlapSpans'
<1> DEFINE n == Len(drivers)
           d == drivers[pos]
           f == drivers[furthest]
           shared == [lo |-> d.lo, hi |-> LowerOf(d.hi, f.hi)]
<1>1. /\ pc = "sweep" /\ pc' = "sweep" /\ drivers' = drivers /\ pos' = pos + 1
      /\ n \in Nat /\ pos \in 1..n /\ furthest \in 1..n /\ ~IsEmpty(d)
  BY DEF SweepInv, TypeOK, NextDriver, Sweeping
<1>2. \A i \in 1..n : /\ drivers[i].lo \in Nat /\ drivers[i].hi \in Nat
  <2>1. \A i \in 1..n : drivers[i] \in Endpoint
    BY DEF SweepInv, TypeOK
  <2>2. QED
    BY <2>1 DEF Endpoint
<1>3. \A i \in 1..n : Swept(i)' <=> Swept(i) \/ i = pos
  BY <1>1 DEF Swept, IsEmpty
<1>4. Swept(furthest) /\ ~Swept(pos)
  BY <1>1 DEF SweepInv, FurthestReaches, Swept
<1>5. \A i \in 1..n : Swept(i) => drivers[i].hi <= f.hi
  BY <1>1 DEF SweepInv, FurthestReaches
<1>6. \A i \in 1..n : Swept(i) => drivers[i].lo <= d.lo /\ i < pos
  BY <1>1 DEF SweepInv, DriversListed, Swept
<1>7. d.lo < d.hi /\ f.lo <= d.lo /\ furthest # pos
  BY <1>1, <1>2, <1>4, <1>6 DEF IsEmpty
<1>8. overlap \in BitRange
  BY DEF SweepInv, TypeOK
<1>9. /\ SharedBits \subseteq SharedBits'
      /\ \A b \in Nat : d.lo <= b /\ b < d.hi /\ b < f.hi => b \in SharedBits'
      /\ \A b \in SharedBits' :
           b \notin SharedBits => d.lo <= b /\ b < d.hi /\ b < f.hi
  <2>1. SharedBits' = {b \in Nat : \E i, j \in 1..n :
          /\ i # j /\ Swept(i)' /\ Swept(j)'
          /\ b \in BitsIn(drivers[i]) /\ b \in BitsIn(drivers[j])}
    BY <1>1 DEF SharedBits
  <2>2. SharedBits \subseteq SharedBits'
    BY <1>3, <2>1 DEF SharedBits
  <2>3. ASSUME NEW b \in Nat, d.lo <= b, b < d.hi, b < f.hi
        PROVE  b \in SharedBits'
    <3>1. b \in BitsIn(d) /\ b \in BitsIn(f)
      BY <1>1, <1>2, <1>7, <2>3 DEF BitsIn
    <3>2. \E i, j \in 1..n :
            /\ i # j /\ Swept(i)' /\ Swept(j)'
            /\ b \in BitsIn(drivers[i]) /\ b \in BitsIn(drivers[j])
      BY <1>1, <1>3, <1>4, <1>7, <3>1
    <3>3. QED
      BY <2>1, <3>2
  <2>4. ASSUME NEW b \in SharedBits', b \notin SharedBits
        PROVE  d.lo <= b /\ b < d.hi /\ b < f.hi
    <3>1. b \in Nat
      BY <2>1
    <3>2. PICK i \in 1..n, j \in 1..n :
            /\ i # j /\ Swept(i)' /\ Swept(j)'
            /\ b \in BitsIn(drivers[i]) /\ b \in BitsIn(drivers[j])
      BY <2>1
    <3>3. ~(Swept(i) /\ Swept(j))
      BY <2>4, <3>1, <3>2 DEF SharedBits
    <3>4. PICK k \in 1..n : Swept(k) /\ b \in BitsIn(drivers[k]) /\ b \in BitsIn(d)
      BY <1>3, <3>2, <3>3
    <3>5. drivers[k].hi <= f.hi
      BY <1>5, <3>4
    <3>6. d.lo <= b /\ b < d.hi
      BY <1>1, <1>2, <3>1, <3>4 DEF BitsIn
    <3>7. b < drivers[k].hi
      BY <1>2, <3>1, <3>4 DEF BitsIn
    <3>8. b < f.hi
      <4>1. f.hi \in Nat /\ drivers[k].hi \in Nat
        BY <1>1, <1>2
      <4>2. QED
        BY <3>1, <3>5, <3>7, <4>1
    <3>9. QED
      BY <3>6, <3>8
  <2>5. QED
    BY <2>2, <2>3, <2>4
<1>10. /\ overlap # None => /\ overlap.lo < overlap.hi
                            /\ overlap.lo \in SharedBits
                            /\ overlap.hi - 1 \in SharedBits
       /\ SharedBits # {} => overlap # None
       /\ SharedBits \subseteq BitsIn(overlap)
  BY <1>1 DEF OverlapSpans
<1>11. SharedBits' \subseteq Nat
  BY DEF SharedBits
<1>12. CASE Overlaps(d, f)
  <2>1. overlap' = Hull(overlap, shared)
    BY <1>12 DEF NextDriver
  <2>2. d.lo < f.hi
    BY <1>12 DEF Overlaps
  <2>3. /\ shared \in BitRange /\ shared.lo = d.lo /\ shared.lo < shared.hi
        /\ shared.hi \in {d.hi, f.hi} /\ shared.hi <= d.hi /\ shared.hi <= f.hi
    BY <1>1, <1>2, <1>7, <2>2 DEF BitRange, LowerOf
  <2>4. shared.lo \in Nat /\ shared.hi \in Nat /\ shared.hi - 1 \in Nat
    BY <2>3 DEF BitRange
  <2>5. shared.lo \in SharedBits' /\ shared.hi - 1 \in SharedBits'
    <3>1. d.lo \in Nat /\ d.hi \in Nat /\ f.hi \in Nat
      BY <1>1, <1>2
    <3> HIDE DEF shared
    <3>2. /\ d.lo <= shared.lo /\ shared.lo < d.hi /\ shared.lo < f.hi
          /\ d.lo <= shared.hi - 1 /\ shared.hi - 1 < d.hi /\ shared.hi - 1 < f.hi
      BY <1>7, <2>2, <2>3, <2>4, <3>1
    <3>3. QED
      BY <1>9, <2>4, <3>2
  <2>6. \A b \in SharedBits' : b \notin SharedBits => shared.lo <= b /\ b < shared.hi
    <3>1. \A b \in SharedBits' : b \notin SharedBits => d.lo <= b /\ b < d.hi /\ b < f.hi
      BY <1>9
    <3>2. QED
      BY <2>3, <3>1
  <2> HIDE DEF shared
  <2>7. /\ overlap' # None /\ overlap'.lo < overlap'.hi /\ overlap' \in BitRange
        /\ overlap'.lo = shared.lo \/ (overlap # None /\ overlap'.lo = overlap.lo)
        /\ overlap'.hi = shared.hi \/ (overlap # None /\ overlap'.hi = overlap.hi)
        /\ overlap'.lo <= shared.lo /\ shared.hi <= overlap'.hi
        /\ overlap # None => overlap'.lo <= overlap.lo /\ overlap.hi <= overlap'.hi
    BY <1>8, <1>10, <2>1, <2>3, HullSpans
  <2>8. {overlap'.lo, overlap'.hi - 1} \subseteq SharedBits'
    BY <1>9, <1>10, <2>5, <2>7
  <2>9. ASSUME NEW b \in SharedBits'
        PROVE  b \in BitsIn(overlap')
    <3>1. /\ b \in Nat /\ overlap'.lo \in Nat /\ overlap'.hi \in Nat
          /\ overlap.lo \in Nat /\ overlap.hi \in Nat
      BY <1>8, <1>11, <2>7 DEF BitRange
    <3>2. CASE b \in SharedBits
      BY <1>10, <2>7, <3>1, <3>2 DEF BitsIn
    <3>3. CASE b \notin SharedBits
      BY <2>4, <2>6, <2>7, <3>1, <3>3 DEF BitsIn
    <3>4. QED
      BY <3>2, <3>3
  <2>10. QED
    BY <2>7, <2>8, <2>9 DEF OverlapSpans
<1>13. CASE ~Overlaps(d, f)
  <2>1. overlap' = overlap
    BY <1>13 DEF NextDriver
  <2>2. f.hi <= d.lo
    BY <1>1, <1>2, <1>7, <1>13 DEF Overlaps
  <2>3. SharedBits' = SharedBits
    <3>1. ASSUME NEW b \in SharedBits', b \notin SharedBits
          PROVE  FALSE
      <4>1. b \in Nat /\ d.lo <= b /\ b < f.hi
        BY <1>9, <1>11, <3>1
      <4>2. QED
        BY <1>1, <1>2, <2>2, <4>1
    <3>2. QED
      BY <1>9, <3>1
  <2>4. QED
    BY <1>10, <2>1, <2>3 DEF OverlapSpans
<1>14. QED
  BY <1>12, <1>13


-----------------------------------------------------------------------------
(* merge_ranges and first_gap: what they do to lists of ranges that ascend *)
(* and neither overlap nor touch.                                          *)

Apart(c) ==
  /\ \A k \in 1..Len(c) : c[k].lo < c[k].hi
  /\ \A k, l \in 1..Len(c) : k < l => c[k].hi < c[l].lo

BitsOf(c) == {b \in Nat : \E k \in 1..Len(c) : b \in BitsIn(c[k])}

\* The list with its last range extended to the end of another one.
Extended(c, e) == [c EXCEPT ![Len(c)].hi = HigherOf(@, e.hi)]

\* A range that starts in the last range of the list, or just at its end, is
\* merged into it: no bit is lost, none is invented.
LEMMA ExtendedBits ==
  ASSUME NEW c \in Seq(BitRange), Apart(c), c # <<>>, NEW e \in Endpoint,
         c[Len(c)].lo <= e.lo, e.lo <= c[Len(c)].hi
  PROVE  /\ Apart(Extended(c, e))
         /\ BitsOf(Extended(c, e)) = BitsOf(c) \cup BitsIn(e)
         /\ Len(Extended(c, e)) = Len(c)
         /\ \A k \in 1..Len(c) : Extended(c, e)[k].lo = c[k].lo
<1> DEFINE m == Len(c)
           x == Extended(c, e)
<1>1. m \in Nat /\ m \in 1..m /\ c = [i \in 1..m |-> c[i]]
  OBVIOUS
<1>2. \A k \in 1..m : c[k].lo \in Nat /\ c[k].hi \in Nat
  <2>1. \A k \in 1..m : c[k] \in BitRange
    OBVIOUS
  <2>2. QED
    BY <2>1 DEF BitRange
<1>3. e.lo \in Nat /\ e.hi \in Nat
  BY DEF Endpoint
<1>4. x \in Seq(BitRange) /\ Len(x) = m /\ DOMAIN x = 1..m
  <2>1. c[m] \in BitRange
    BY <1>1
  <2>2. [c[m] EXCEPT !.hi = HigherOf(@, e.hi)] \in BitRange
    BY <1>3, <2>1 DEF BitRange, HigherOf
  <2>3. QED
    BY <1>1, <2>2 DEF Extended
<1>5. \A k \in 1..m : k # m => x[k] = c[k]
  BY <1>1 DEF Extended
<1>6. x[m].lo = c[m].lo /\ x[m].hi = HigherOf(c[m].hi, e.hi)
  <2>1. x[m] = [c[m] EXCEPT !.hi = HigherOf(@, e.hi)]
    BY <1>1 DEF Extended
  <2>2. c[m] \in BitRange
    BY <1>1
  <2>3. QED
    BY <2>1, <2>2 DEF BitRange
<1>7. /\ x[m].hi \in Nat /\ c[m].hi <= x[m].hi /\ e.hi <= x[m].hi
      /\ x[m].hi = c[m].hi \/ x[m].hi = e.hi
  BY <1>1, <1>2, <1>3, <1>6 DEF HigherOf
<1> HIDE DEF x
<1>8. Apart(x)
  <2>1. \A k \in 1..m : x[k].lo < x[k].hi
    BY <1>1, <1>2, <1>5, <1>6, <1>7 DEF Apart
  <2>2. ASSUME NEW k \in 1..m, NEW l \in 1..m, k < l
        PROVE  x[k].hi < x[l].lo
    <3>1. k # m /\ x[k] = c[k] /\ x[l].lo = c[l].lo
      BY <1>1, <1>5, <1>6, <2>2
    <3>2. QED
      BY <1>1, <2>2, <3>1 DEF Apart
  <2>3. QED
    BY <1>4, <2>1, <2>2 DEF Apart
<1>9. ASSUME NEW b \in Nat
      PROVE  b \in BitsOf(x) <=> b \in BitsOf(c) \cup BitsIn(e)
  <2>1. b \in BitsIn(x[m]) <=> b \in BitsIn(c[m]) \/ b \in BitsIn(e)
    BY <1>1, <1>2, <1>3, <1>6, <1>7 DEF BitsIn
  <2>2. \A k \in 1..m : k # m => (b \in BitsIn(x[k]) <=> b \in BitsIn(c[k]))
    BY <1>5
  <2>3. QED
    BY <1>1, <1>4, <2>1, <2>2 DEF BitsOf
<1>10. BitsIn(e) \subseteq Nat /\ BitsOf(x) \subseteq Nat /\ BitsOf(c) \subseteq Nat
  BY <1>3 DEF BitsIn, BitsOf
<1>11. \A k \in 1..m : x[k].lo = c[k].lo
  BY <1>5, <1>6
<1>12. QED
  BY <1>4, <1>8, <1>9, <1>10, <1>11 DEF x

\* A range that starts beyond the end of the last one opens a range of its own.
LEMMA AppendedBits ==
  ASSUME NEW c \in Seq(BitRange), Apart(c), NEW e \in BitRange, e.lo < e.hi,
         c # <<>> => c[Len(c)].hi < e.lo
  PROVE  /\ Apart(Append(c, e))
         /\ BitsOf(Append(c, e)) = BitsOf(c) \cup BitsIn(e)
<1> DEFINE m == Len(c)
           x == Append(c, e)
<1>1. /\ m \in Nat /\ Len(x) = m + 1 /\ x[m + 1] = e
      /\ \A k \in 1..m : x[k] = c[k]
  OBVIOUS
<1>2. \A k \in 1..m : c[k].lo \in Nat /\ c[k].hi \in Nat
  <2>1. \A k \in 1..m : c[k] \in BitRange
    OBVIOUS
  <2>2. QED
    BY <2>1 DEF BitRange
<1>3. e.lo \in Nat /\ e.hi \in Nat
  BY DEF BitRange
<1>4. \A k \in 1..m : c[k].hi < e.lo
  <2>1. SUFFICES ASSUME NEW k \in 1..m
                 PROVE  c[k].hi < e.lo
    OBVIOUS
  <2>2. c # <<>> /\ m \in 1..m /\ c[m].hi < e.lo /\ c[m].lo < c[m].hi
    BY <1>1 DEF Apart
  <2>3. k < m => c[k].hi < c[m].lo
    BY <2>2 DEF Apart
  <2>4. QED
    BY <1>1, <1>2, <1>3, <2>2, <2>3
<1> HIDE DEF x
<1>5. \A k \in 1..m + 1 : k = m + 1 \/ k \in 1..m
  BY <1>1
<1>6. Apart(x)
  <2>1. \A k \in 1..m + 1 : x[k].lo < x[k].hi
    BY <1>1, <1>5 DEF Apart
  <2>2. ASSUME NEW k \in 1..m + 1, NEW l \in 1..m + 1, k < l
        PROVE  x[k].hi < x[l].lo
    <3>1. k \in 1..m /\ x[k] = c[k]
      BY <1>1, <2>2
    <3>2. l = m + 1 => x[l] = e
      BY <1>1
    <3>3. l \in 1..m => x[l] = c[l] /\ c[k].hi < c[l].lo
      BY <1>1, <2>2, <3>1 DEF Apart
    <3>4. QED
      BY <1>4, <1>5, <3>1, <3>2, <3>3
  <2>3. QED
    BY <1>1, <2>1, <2>2 DEF Apart
<1>7. ASSUME NEW b \in Nat
      PROVE  b \in BitsOf(x) <=> b \in BitsOf(c) \cup BitsIn(e)
  <2>1. b \in BitsOf(x) <=> \E k \in 1..m + 1 : b \in BitsIn(x[k])
    BY <1>1 DEF BitsOf
  <2>2. 1..m \subseteq 1..m + 1 /\ m + 1 \in 1..m + 1
    BY <1>1
  <2>3. QED
    BY <1>1, <1>5, <2>1, <2>2 DEF BitsOf
<1>8. BitsIn(e) \subseteq Nat /\ BitsOf(x) \subseteq Nat /\ BitsOf(c) \subseteq Nat
  BY <1>3 DEF BitsIn, BitsOf
<1>9. QED
  BY <1>6, <1>7, <1>8 DEF x

\* The cursor of first_gap never stands in front of the range, nor behind the
\* bits that the passed ranges cover, and only moves forward.
LEMMA CursorFacts ==
  ASSUME NEW r, r.lo \in Nat, NEW c \in Seq(BitRange), Apart(c),
         NEW k \in 1..Len(c) + 1
  PROVE  /\ Cursor(r, c, k) \in Nat /\ r.lo <= Cursor(r, c, k)
         /\ \A j \in 1..Len(c) : j < k => c[j].hi <= Cursor(r, c, k)
         /\ \A j \in 1..k : Cursor(r, c, j) <= Cursor(r, c, k)
<1> DEFINE m == Len(c)
<1>1. m \in Nat /\ \A i \in 1..m : c[i].lo \in Nat /\ c[i].hi \in Nat
  <2>1. \A i \in 1..m : c[i] \in BitRange
    OBVIOUS
  <2>2. QED
    BY <2>1 DEF BitRange
<1>2. \A i, j \in 1..m : i < j => c[i].hi < c[j].hi
  BY <1>1 DEF Apart
<1>3. Cursor(r, c, k) = IF k = 1 \/ c[k - 1].hi <= r.lo THEN r.lo ELSE c[k - 1].hi
  BY DEF Cursor
<1>4. k # 1 => k - 1 \in 1..m
  BY <1>1
<1>5. /\ Cursor(r, c, k) \in Nat /\ r.lo <= Cursor(r, c, k)
      /\ k # 1 => c[k - 1].hi <= Cursor(r, c, k)
  BY <1>1, <1>3, <1>4
<1>6. ASSUME NEW j \in 1..m, j < k
      PROVE  c[j].hi <= Cursor(r, c, k)
  <2>1. k # 1 /\ (j = k - 1 \/ j < k - 1)
    BY <1>1, <1>6
  <2>2. k - 1 \in 1..m /\ (j < k - 1 => c[j].hi < c[k - 1].hi)
    BY <1>2, <1>4, <2>1
  <2>3. c[j].hi <= c[k - 1].hi
    BY <1>1, <2>1, <2>2
  <2>4. QED
    BY <1>1, <1>5, <2>1, <2>2, <2>3
<1>7. ASSUME NEW j \in 1..k
      PROVE  Cursor(r, c, j) <= Cursor(r, c, k)
  <2>1. Cursor(r, c, j) = IF j = 1 \/ c[j - 1].hi <= r.lo THEN r.lo ELSE c[j - 1].hi
    BY DEF Cursor
  <2>2. j # 1 => j - 1 \in 1..m /\ j - 1 < k
    BY <1>1
  <2>3. QED
    BY <1>5, <1>6, <2>1, <2>2
<1>8. QED
  BY <1>5, <1>6, <1>7

\* A bit of the range that the list leaves out lies at or after a stop.
LEMMA GapHasStop ==
  ASSUME NEW r, r.lo \in Nat, r.hi \in Nat, NEW c \in Seq(BitRange), Apart(c),
         NEW b \in BitsIn(r), b \notin BitsOf(c)
  PROVE  \E k \in GapStops(r, c) : Cursor(r, c, k) <= b
<1> DEFINE m == Len(c)
           beyond == {k \in 1..m + 1 : k > m \/ c[k].lo > b}
<1>1. m \in Nat /\ \A i \in 1..m : c[i].lo \in Nat /\ c[i].hi \in Nat
  <2>1. \A i \in 1..m : c[i] \in BitRange
    OBVIOUS
  <2>2. QED
    BY <2>1 DEF BitRange
<1>2. b \in Nat /\ r.lo <= b /\ b < r.hi
  BY DEF BitsIn
<1>3. PICK k \in beyond : \A j \in beyond : k <= j
  <2>1. beyond # {} /\ beyond \subseteq Nat
    <3>1. m + 1 \in beyond
      BY <1>1
    <3>2. QED
      BY <3>1
  <2> HIDE DEF beyond
  <2>2. QED
    BY <2>1, SmallestStop
<1>4. k \in 1..m + 1 /\ (k > m \/ c[k].lo > b)
  BY <1>3
<1>5. k # 1 => k - 1 \in 1..m /\ c[k - 1].lo <= b
  <2>1. SUFFICES ASSUME k # 1
                 PROVE  k - 1 \in 1..m /\ c[k - 1].lo <= b
    OBVIOUS
  <2>2. k - 1 \in 1..m /\ k - 1 \in 1..m + 1 /\ ~(k <= k - 1)
    BY <1>1, <1>4, <2>1
  <2>3. k - 1 \notin beyond
    BY <1>3, <2>2
  <2>4. QED
    BY <1>1, <1>2, <2>2, <2>3
<1>6. Cursor(r, c, k) <= b
  <2>1. k # 1 => c[k - 1].hi <= b
    BY <1>1, <1>2, <1>5 DEF BitsOf, BitsIn
  <2>2. QED
    BY <1>2, <2>1 DEF Cursor
<1>7. Cursor(r, c, k) \in Nat /\ r.lo <= Cursor(r, c, k)
  BY <1>4, CursorFacts
<1>8. k \in GapStops(r, c)
  <2>1. Cursor(r, c, k) < r.hi
    BY <1>2, <1>6, <1>7
  <2>2. k <= m => /\ c[k].hi > r.lo
                  /\ c[k].lo > Cursor(r, c, k)
    <3>1. SUFFICES ASSUME k <= m
                   PROVE  c[k].hi > r.lo /\ c[k].lo > Cursor(r, c, k)
      OBVIOUS
    <3>2. k \in 1..m /\ c[k].lo > b /\ c[k].lo < c[k].hi
      BY <1>1, <1>4, <3>1 DEF Apart
    <3>3. QED
      BY <1>1, <1>2, <1>6, <1>7, <3>2
  <2>3. QED
    BY <1>1, <1>4, <2>1, <2>2 DEF GapStops
<1>9. QED
  BY <1>6, <1>8

\* first_gap answers None exactly when the list covers the range; otherwise its
\* gap starts at the first bit of the range left out and ends with one.
LEMMA FirstGapExact ==
  ASSUME NEW r, r.lo \in Nat, r.hi \in Nat, NEW c \in Seq(BitRange), Apart(c)
  PROVE  LET gap == FirstGap(r, c) IN
         /\ gap = None <=> BitsIn(r) \subseteq BitsOf(c)
         /\ gap # None => /\ gap.lo < gap.hi
                          /\ {gap.lo, gap.hi - 1} \subseteq BitsIn(r) \ BitsOf(c)
                          /\ \A b \in BitsIn(r) \ BitsOf(c) : gap.lo <= b
<1> DEFINE m == Len(c)
           stops == GapStops(r, c)
           gap == FirstGap(r, c)
           open == BitsIn(r) \ BitsOf(c)
<1>1. m \in Nat /\ \A i \in 1..m : c[i].lo \in Nat /\ c[i].hi \in Nat
  <2>1. \A i \in 1..m : c[i] \in BitRange
    OBVIOUS
  <2>2. QED
    BY <2>1 DEF BitRange
<1>2. \A b \in open : \E k \in stops : Cursor(r, c, k) <= b
  BY GapHasStop
<1>3. CASE stops = {}
  <2>1. gap = None
    BY <1>3 DEF FirstGap
  <2>2. open = {}
    BY <1>2, <1>3
  <2>3. QED
    BY <2>1, <2>2
<1>4. CASE stops # {}
  <2>1. stops \subseteq 1..m + 1
    BY DEF GapStops
  <2>2. PICK k \in stops : gap = GapAt(r, c, k) /\ \A j \in stops : k <= j
    <3> DEFINE first == CHOOSE j \in stops : \A i \in stops : j <= i
    <3>1. stops \subseteq Nat
      BY <1>1, <2>1
    <3>2. \E j \in stops : \A i \in stops : j <= i
      BY <1>4, <3>1, SmallestStop
    <3>3. first \in stops /\ \A i \in stops : first <= i
      BY <3>2
    <3>4. gap = GapAt(r, c, first)
      BY <1>4 DEF FirstGap
    <3>5. QED
      BY <3>3, <3>4
  <2>3. k \in 1..m + 1
    BY <2>1
  <2> DEFINE cur == Cursor(r, c, k)
  <2>4. /\ cur \in Nat /\ r.lo <= cur
        /\ \A j \in 1..m : j < k => c[j].hi <= cur
    BY <2>3, CursorFacts
  <2>5. /\ cur < r.hi
        /\ k <= m => c[k].lo > cur
    BY <1>1, <2>2, <2>3 DEF GapStops
  <2>6. /\ gap.lo = cur
        /\ gap.hi = IF k > m THEN r.hi ELSE LowerOf(c[k].lo, r.hi)
    BY <2>2 DEF GapAt
  <2>7. /\ gap.hi \in Nat /\ cur < gap.hi /\ gap.hi <= r.hi
        /\ k <= m => gap.hi <= c[k].lo
    BY <1>1, <2>3, <2>4, <2>5, <2>6 DEF LowerOf
  <2> HIDE DEF cur, gap
  <2>8. ASSUME NEW b \in Nat, cur <= b, b < gap.hi
        PROVE  b \in open
    <3>1. b \in BitsIn(r)
      BY <2>4, <2>7, <2>8 DEF BitsIn
    <3>2. ASSUME NEW j \in 1..m, b \in BitsIn(c[j])
          PROVE  FALSE
      <4>1. c[j].lo <= b /\ b < c[j].hi
        BY <1>1, <3>2 DEF BitsIn
      <4>2. CASE j < k
        BY <1>1, <2>4, <2>8, <4>1, <4>2
      <4>3. CASE ~(j < k)
        <5>1. k \in 1..m /\ gap.hi <= c[k].lo
          BY <1>1, <2>3, <2>7, <4>3
        <5>2. c[k].lo <= c[j].lo
          <6>1. k = j \/ k < j
            BY <1>1, <4>3, <5>1
          <6>2. k < j => c[k].hi < c[j].lo /\ c[k].lo < c[k].hi
            BY <5>1 DEF Apart
          <6>3. QED
            BY <1>1, <5>1, <6>1, <6>2
        <5>3. QED
          BY <1>1, <2>7, <2>8, <4>1, <5>1, <5>2
      <4>4. QED
        BY <4>2, <4>3
    <3>3. QED
      BY <3>1, <3>2 DEF BitsOf
  <2>9. gap.lo \in open /\ gap.hi - 1 \in open
    BY <2>4, <2>6, <2>7, <2>8
  <2>10. gap # None
    BY <2>4, <2>6, <2>7 DEF None
  <2>11. ASSUME NEW b \in open
         PROVE  gap.lo <= b
    <3>1. PICK j \in stops : Cursor(r, c, j) <= b
      BY <1>2
    <3>2. k <= j /\ j \in 1..m + 1
      BY <2>1, <2>2
    <3>3. k \in 1..j
      BY <1>1, <2>3, <3>2
    <3>4. cur <= Cursor(r, c, j) /\ Cursor(r, c, j) \in Nat
      BY <3>2, <3>3, CursorFacts DEF cur
    <3>5. b \in Int
      BY DEF BitsIn
    <3>6. QED
      BY <2>4, <2>6, <3>1, <3>4, <3>5
  <2>12. gap.lo < gap.hi
    BY <2>4, <2>6, <2>7
  <2>13. QED
    BY <2>9, <2>10, <2>11, <2>12 DEF gap
<1>5. QED
  BY <1>3, <1>4


-----------------------------------------------------------------------------
(* The merged ranges and the range of NET_NO_DRIVER, from loop to loop.    *)

\* `consumers` lists the reading endpoints of the document.
ConsumersListed ==
  pc # "build" =>
    /\ \A i \in 1..Len(consumers) : consumers[i] \in EndpointsOf(FALSE)
    /\ \A e \in EndpointsOf(FALSE) : \E i \in 1..Len(consumers) : consumers[i] = e

\* The bits of the drivers that the merge has taken up.
DrivenBits ==
  {b \in Nat : \E i \in 1..Len(drivers) :
     (pc = "merge" => i < pos) /\ b \in BitsIn(drivers[i])}

MergedExact ==
  /\ pc \in {"build", "sweep"} => merged = <<>>
  /\ Apart(merged)
  /\ pc = "merge" =>
       \A k \in 1..Len(merged), i \in 1..Len(drivers) :
         pos <= i => merged[k].lo <= drivers[i].lo
  /\ pc \in {"merge", "gaps", "done"} => BitsOf(merged) = DrivenBits

\* The bits that the consumers checked so far read and no driver drives.
MissedBits ==
  {b \in Nat : \E i \in 1..Len(consumers) :
     i < pos /\ b \in BitsIn(consumers[i]) /\ b \notin BitsOf(merged)}

UndrivenSpans ==
  /\ pc \in {"build", "sweep", "merge"} => undriven = None
  /\ pc \in {"gaps", "done"} =>
       /\ undriven # None => /\ undriven.lo < undriven.hi
                             /\ {undriven.lo, undriven.hi - 1} \subseteq MissedBits
       /\ MissedBits # {} => undriven # None
       /\ \A b \in MissedBits : undriven.lo <= b

NoDriverReported ==
  /\ pc # "done" => "NET_NO_DRIVER" \notin report
  /\ pc = "done" => /\ pos > Len(consumers)
                    /\ "NET_NO_DRIVER" \in report <=> undriven # None

RangesInv ==
  /\ OverlapSpans
  /\ ConsumersListed
  /\ MergedExact
  /\ UndrivenSpans
  /\ NoDriverReported

LEMMA MergeDriverExact ==
  ASSUME TypeOK, DriversListed, MergedExact, MergeDriver
  PROVE  MergedExact'
<1> DEFINE n == Len(drivers)
           m == Len(merged)
           d == drivers[pos]
           bits == [lo |-> d.lo, hi |-> d.hi]
<1>1. /\ pc = "merge" /\ pc' = "merge" /\ drivers' = drivers /\ pos' = pos + 1
      /\ n \in Nat /\ pos \in 1..n /\ merged \in Seq(BitRange) /\ m \in Nat
  BY DEF TypeOK, MergeDriver
<1>2. /\ d \in Endpoint
      /\ \A i \in 1..n : drivers[i].lo \in Nat /\ drivers[i].hi \in Nat
  <2>1. \A i \in 1..n : drivers[i] \in Endpoint
    BY DEF TypeOK
  <2>2. QED
    BY <1>1, <2>1 DEF Endpoint
<1>3. \A i \in 1..n : pos <= i => d.lo <= drivers[i].lo
  BY <1>1, <1>2 DEF DriversListed
<1>4. /\ Apart(merged)
      /\ \A k \in 1..m, i \in 1..n : pos <= i => merged[k].lo <= drivers[i].lo
      /\ BitsOf(merged) = DrivenBits
  BY <1>1 DEF MergedExact
<1>5. DrivenBits' = DrivenBits \cup BitsIn(d)
  <2>1. BitsIn(d) \subseteq Nat
    BY <1>1, <1>2 DEF BitsIn
  <2>2. DrivenBits' =
          {b \in Nat : \E i \in 1..n : i < pos + 1 /\ b \in BitsIn(drivers[i])}
    BY <1>1 DEF DrivenBits
  <2>3. DrivenBits = {b \in Nat : \E i \in 1..n : i < pos /\ b \in BitsIn(drivers[i])}
    BY <1>1 DEF DrivenBits
  <2>4. \A i \in 1..n : i < pos + 1 <=> i < pos \/ i = pos
    BY <1>1
  <2>5. QED
    BY <1>1, <2>1, <2>2, <2>3, <2>4
<1>6. SUFFICES /\ Apart(merged')
               /\ \A k \in 1..Len(merged'), i \in 1..n :
                    pos < i => merged'[k].lo <= drivers[i].lo
               /\ BitsOf(merged') = DrivenBits \cup BitsIn(d)
  <2>1. BitsOf(merged)' = BitsOf(merged') /\ Apart(merged)' = Apart(merged')
    BY DEF BitsOf, Apart
  <2>2. \A i \in 1..n : pos + 1 <= i <=> pos < i
    BY <1>1
  <2>3. QED
    BY <1>1, <1>5, <2>1, <2>2 DEF MergedExact
<1>7. CASE IsEmpty(d)
  <2>1. BitsIn(d) = {}
    BY <1>1, <1>2, <1>7 DEF IsEmpty, BitsIn
  <2>2. merged' = merged
    BY <1>7 DEF MergeDriver
  <2>3. QED
    BY <1>1, <1>4, <2>1, <2>2
<1>8. CASE ~IsEmpty(d) /\ merged # <<>> /\ d.lo <= merged[m].hi
  <2>1. merged' = Extended(merged, d)
    BY <1>8 DEF MergeDriver, Extended
  <2>2. merged[m].lo <= d.lo
    BY <1>1, <1>4, <1>8
  <2>3. /\ Apart(merged') /\ BitsOf(merged') = BitsOf(merged) \cup BitsIn(d)
        /\ Len(merged') = m /\ \A k \in 1..m : merged'[k].lo = merged[k].lo
    BY <1>1, <1>2, <1>4, <1>8, <2>1, <2>2, ExtendedBits
  <2>4. QED
    BY <1>1, <1>4, <2>3
<1>9. CASE ~IsEmpty(d) /\ ~(merged # <<>> /\ d.lo <= merged[m].hi)
  <2>1. merged' = Append(merged, bits)
    BY <1>9 DEF MergeDriver
  <2>2. /\ bits \in BitRange /\ bits.lo < bits.hi /\ BitsIn(bits) = BitsIn(d)
        /\ bits.lo = d.lo
    BY <1>1, <1>2, <1>9 DEF BitRange, IsEmpty, BitsIn
  <2> HIDE DEF bits
  <2>3. merged # <<>> => merged[m].hi < bits.lo
    <3>1. merged # <<>> => merged[m] \in BitRange
      BY <1>1
    <3>2. QED
      BY <1>1, <1>2, <1>9, <2>2, <3>1 DEF BitRange
  <2>4. Apart(merged') /\ BitsOf(merged') = BitsOf(merged) \cup BitsIn(d)
    BY <1>1, <1>4, <2>1, <2>2, <2>3, AppendedBits
  <2>5. ASSUME NEW k \in 1..Len(merged'), NEW i \in 1..n, pos < i
        PROVE  merged'[k].lo <= drivers[i].lo
    <3>1. Len(merged') = m + 1 /\ merged'[m + 1] = bits
      BY <1>1, <2>1, <2>2
    <3>2. k \in 1..m => merged'[k] = merged[k]
      BY <1>1, <2>1, <2>2
    <3>3. k = m + 1 \/ k \in 1..m
      BY <1>1, <3>1
    <3>4. pos <= i
      BY <1>1, <2>5
    <3>5. QED
      BY <1>3, <1>4, <2>2, <3>1, <3>2, <3>3, <3>4
  <2>6. QED
    BY <1>4, <2>4, <2>5
<1>10. QED
  BY <1>7, <1>8, <1>9

LEMMA CheckConsumerSpans ==
  ASSUME TypeOK, MergedExact, UndrivenSpans, CheckConsumer
  PROVE  UndrivenSpans'
<1> DEFINE n == Len(consumers)
           e == consumers[pos]
           gap == FirstGap(e, merged)
           open == BitsIn(e) \ BitsOf(merged)
<1>1. /\ pc = "gaps" /\ pc' = "gaps" /\ consumers' = consumers /\ merged' = merged
      /\ pos' = pos + 1 /\ n \in Nat /\ pos \in 1..n
      /\ merged \in Seq(BitRange) /\ undriven \in BitRange
  BY DEF TypeOK, CheckConsumer
<1>2. undriven' = IF gap = None THEN undriven ELSE Hull(undriven, gap)
  BY DEF CheckConsumer
<1>3. e.lo \in Nat /\ e.hi \in Nat
  <2>1. e \in Endpoint
    BY <1>1 DEF TypeOK
  <2>2. QED
    BY <2>1 DEF Endpoint
<1>4. /\ gap \in BitRange
      /\ gap = None <=> open = {}
      /\ gap # None => /\ gap.lo < gap.hi /\ {gap.lo, gap.hi - 1} \subseteq open
                       /\ \A b \in open : gap.lo <= b
  <2>1. Apart(merged)
    BY DEF MergedExact
  <2>2. LET g == FirstGap(e, merged) IN
        /\ g = None <=> BitsIn(e) \subseteq BitsOf(merged)
        /\ g # None => /\ g.lo < g.hi
                       /\ {g.lo, g.hi - 1} \subseteq BitsIn(e) \ BitsOf(merged)
                       /\ \A b \in BitsIn(e) \ BitsOf(merged) : g.lo <= b
    BY <1>1, <1>3, <2>1, FirstGapExact
  <2>3. gap \in BitRange
    BY <1>1, <1>3, FirstGapType
  <2>4. open = {} <=> BitsIn(e) \subseteq BitsOf(merged)
    OBVIOUS
  <2>5. QED
    BY <2>2, <2>3, <2>4
<1>5. /\ undriven # None => /\ undriven.lo < undriven.hi
                            /\ {undriven.lo, undriven.hi - 1} \subseteq MissedBits
      /\ MissedBits # {} => undriven # None
      /\ \A b \in MissedBits : undriven.lo <= b
  BY <1>1 DEF UndrivenSpans
<1>6. MissedBits' = MissedBits \cup open /\ MissedBits \subseteq Nat
  <2>1. BitsIn(e) \subseteq Nat
    BY <1>3 DEF BitsIn
  <2>2. BitsOf(merged)' = BitsOf(merged)
    BY <1>1 DEF BitsOf
  <2>3. MissedBits' =
          {b \in Nat : \E i \in 1..n :
             i < pos + 1 /\ b \in BitsIn(consumers[i]) /\ b \notin BitsOf(merged)}
    BY <1>1, <2>2 DEF MissedBits
  <2>4. \A i \in 1..n : i < pos + 1 <=> i < pos \/ i = pos
    BY <1>1
  <2>5. QED
    BY <1>1, <2>1, <2>3, <2>4 DEF MissedBits
<1>7. open \subseteq Nat
  BY <1>3 DEF BitsIn
<1> HIDE DEF gap, open
<1>8. SUFFICES /\ undriven' # None =>
                    /\ undriven'.lo < undriven'.hi
                    /\ {undriven'.lo, undriven'.hi - 1} \subseteq MissedBits'
               /\ MissedBits' # {} => undriven' # None
               /\ \A b \in MissedBits' : undriven'.lo <= b
  BY <1>1 DEF UndrivenSpans
<1>9. CASE gap = None
  BY <1>2, <1>4, <1>5, <1>6, <1>9
<1>10. CASE gap # None
  <2>1. undriven' = Hull(undriven, gap)
    BY <1>2, <1>10
  <2>2. /\ undriven' # None /\ undriven'.lo < undriven'.hi /\ undriven' \in BitRange
        /\ undriven'.lo = gap.lo \/ (undriven # None /\ undriven'.lo = undriven.lo)
        /\ undriven'.hi = gap.hi \/ (undriven # None /\ undriven'.hi = undriven.hi)
        /\ undriven'.lo <= gap.lo
        /\ undriven # None => undriven'.lo <= undriven.lo
    BY <1>1, <1>4, <1>5, <1>10, <2>1, HullSpans
  <2>3. {undriven'.lo, undriven'.hi - 1} \subseteq MissedBits'
    BY <1>4, <1>5, <1>6, <1>10, <2>2
  <2>4. ASSUME NEW b \in MissedBits'
        PROVE  undriven'.lo <= b
    <3>1. /\ b \in Nat /\ undriven'.lo \in Nat /\ undriven.lo \in Nat /\ gap.lo \in Nat
      BY <1>1, <1>4, <1>6, <1>7, <2>2 DEF BitRange
    <3>2. CASE b \in MissedBits
      BY <1>5, <2>2, <3>1, <3>2
    <3>3. CASE b \in open
      BY <1>4, <1>10, <2>2, <3>1, <3>3
    <3>4. QED
      BY <1>6, <3>2, <3>3
  <2>5. QED
    BY <2>2, <2>3, <2>4
<1>11. QED
  BY <1>9, <1>10


\* What each loop leaves behind is what the next one starts from.
LEMMA RangesStep ==
  ASSUME TypeOK, SweepInv, RangesInv, [Next]_vars
  PROVE  RangesInv'
<1> DEFINE n == Len(drivers)
<1>1. n \in Nat /\ pos \in Nat /\ Len(consumers) \in Nat
  BY DEF TypeOK
<1> DEFINE Kept == /\ attached' = attached /\ width' = width
                   /\ drivers' = drivers /\ consumers' = consumers
                   /\ pc # "build" /\ pc' # "build"
           Unmerged == /\ merged' = merged /\ undriven' = undriven
                       /\ pc \in {"build", "sweep"} /\ pc' \in {"build", "sweep"}
                       /\ "NET_NO_DRIVER" \in report' <=> "NET_NO_DRIVER" \in report
<1>2. Kept => ConsumersListed'
  <2>1. Kept => EndpointsOf(FALSE)' = EndpointsOf(FALSE)
    BY DEF EndpointsOf, EndpointOf, Listed
  <2>2. QED
    BY <2>1 DEF RangesInv, ConsumersListed
<1>3. ASSUME Kept, overlap' = overlap, \A i \in 1..n : Swept(i)' <=> Swept(i)
      PROVE  OverlapSpans'
  <2>1. SharedBits' = SharedBits
    BY <1>3 DEF SharedBits
  <2>2. QED
    BY <1>3, <2>1 DEF RangesInv, OverlapSpans
<1>4. Unmerged => MergedExact' /\ UndrivenSpans' /\ NoDriverReported'
  <2>1. Unmerged => Apart(merged)' = Apart(merged)
    BY DEF Apart
  <2>2. QED
    BY <2>1 DEF RangesInv, MergedExact, UndrivenSpans, NoDriverReported
<1>5. CASE BuildRoles
  <2>1. /\ attached' = attached /\ width' = width /\ pc = "build" /\ pc' = "sweep"
        /\ consumers' \in SortedListings(EndpointsOf(FALSE)) /\ pos' = 1
        /\ overlap' = None /\ merged' = merged /\ undriven' = undriven
        /\ report' = report
    BY <1>5 DEF BuildRoles
  <2>2. EndpointsOf(FALSE)' = EndpointsOf(FALSE)
    BY <2>1 DEF EndpointsOf, EndpointOf, Listed
  <2>3. EndpointsOf(FALSE) \subseteq Endpoint
    BY EndpointsType
  <2>4. ConsumersListed'
    <3>1. /\ \A i \in 1..Len(consumers') : consumers'[i] \in EndpointsOf(FALSE)
          /\ \A e \in EndpointsOf(FALSE) : \E i \in 1..Len(consumers') : consumers'[i] = e
      BY <2>1, <2>3, ListingFacts
    <3>2. QED
      BY <2>2, <3>1 DEF ConsumersListed
  <2>5. SharedBits' = {}
    <3>1. \A i : ~Swept(i)'
      BY <2>1 DEF Swept
    <3>2. QED
      BY <3>1 DEF SharedBits
  <2>6. OverlapSpans'
    BY <2>1, <2>5 DEF OverlapSpans
  <2>7. QED
    BY <1>4, <2>1, <2>4, <2>6 DEF RangesInv
<1>6. CASE SkipEmptyDriver
  <2>1. /\ Kept /\ Unmerged /\ pc = "sweep" /\ pc' = "sweep" /\ pos' = pos + 1
        /\ IsEmpty(drivers[pos]) /\ overlap' = overlap
    BY <1>6 DEF SkipEmptyDriver, Sweeping
  <2>2. \A i \in 1..n : Swept(i)' <=> Swept(i)
    BY <1>1, <2>1 DEF Swept, IsEmpty
  <2>3. QED
    BY <1>2, <1>3, <1>4, <2>1, <2>2 DEF RangesInv
<1>7. CASE FirstDriver
  <2>1. /\ Kept /\ Unmerged /\ pc = "sweep" /\ pc' = "sweep" /\ pos' = pos + 1
        /\ furthest = 0 /\ overlap' = overlap
    BY <1>7 DEF FirstDriver, Sweeping
  <2>2. \A i \in 1..n : ~Swept(i)
    BY <2>1 DEF SweepInv, FurthestReaches
  <2>3. \A i \in 1..n : Swept(i)' => i = pos
    BY <1>1, <2>1, <2>2 DEF Swept, IsEmpty
  <2>4. SharedBits' = {} /\ SharedBits = {}
    BY <2>1, <2>2, <2>3 DEF SharedBits
  <2>5. OverlapSpans'
    BY <2>1, <2>4 DEF RangesInv, OverlapSpans
  <2>6. QED
    BY <1>2, <1>4, <2>1, <2>5 DEF RangesInv
<1>8. CASE NextDriver
  <2>1. Kept /\ Unmerged
    BY <1>8 DEF NextDriver, Sweeping
  <2>2. OverlapSpans'
    BY <1>8, NextDriverSpans DEF RangesInv
  <2>3. QED
    BY <1>2, <1>4, <2>1, <2>2 DEF RangesInv
<1>9. CASE EndSweep
  <2>1. /\ Kept /\ pc = "sweep" /\ pc' = "merge" /\ pos' = 1 /\ pos > n
        /\ overlap' = overlap /\ merged' = merged /\ undriven' = undriven
        /\ "NET_NO_DRIVER" \in report' <=> "NET_NO_DRIVER" \in report
    BY <1>9 DEF EndSweep
  <2>2. \A i \in 1..n : Swept(i)' <=> Swept(i)
    BY <1>1, <2>1 DEF Swept, IsEmpty
  <2>3. DrivenBits' = {}
    BY <2>1 DEF DrivenBits
  <2>4. merged' = <<>>
    BY <2>1 DEF RangesInv, MergedExact
  <2>5. MergedExact'
    <3>1. Len(merged') = 0
      BY <2>4
    <3>2. BitsOf(merged)' = {} /\ Apart(merged)'
      BY <3>1 DEF BitsOf, Apart
    <3>3. QED
      BY <2>1, <2>3, <3>1, <3>2 DEF MergedExact
  <2>6. UndrivenSpans' /\ NoDriverReported'
    BY <2>1 DEF RangesInv, UndrivenSpans, NoDriverReported
  <2>7. QED
    BY <1>2, <1>3, <2>1, <2>2, <2>5, <2>6 DEF RangesInv
<1>10. ASSUME Kept, overlap' = overlap, pc \in {"merge", "gaps", "done"},
              pc' \in {"merge", "gaps", "done"}
       PROVE  OverlapSpans' /\ ConsumersListed'
  <2>1. \A i \in 1..n : Swept(i)' <=> Swept(i)
    BY <1>10 DEF Swept, IsEmpty
  <2>2. QED
    BY <1>2, <1>3, <1>10, <2>1
<1>11. CASE MergeDriver
  <2>1. /\ Kept /\ pc = "merge" /\ pc' = "merge" /\ overlap' = overlap
        /\ undriven' = undriven /\ report' = report
    BY <1>11 DEF MergeDriver
  <2>2. MergedExact'
    BY <1>11, MergeDriverExact DEF RangesInv, SweepInv
  <2>3. UndrivenSpans' /\ NoDriverReported'
    BY <2>1 DEF RangesInv, UndrivenSpans, NoDriverReported
  <2>4. QED
    BY <1>10, <2>1, <2>2, <2>3 DEF RangesInv
<1>12. CASE EndMerge
  <2>1. /\ Kept /\ pc = "merge" /\ pc' = "gaps" /\ pos > n /\ pos' = 1
        /\ overlap' = overlap /\ merged' = merged /\ undriven' = undriven
        /\ report' = report
    BY <1>12 DEF EndMerge
  <2>2. DrivenBits' = DrivenBits
    BY <1>1, <2>1 DEF DrivenBits
  <2>3. BitsOf(merged)' = BitsOf(merged) /\ Apart(merged)' = Apart(merged)
    BY <2>1 DEF BitsOf, Apart
  <2>4. MergedExact'
    BY <2>1, <2>2, <2>3 DEF RangesInv, MergedExact
  <2>5. MissedBits' = {}
    BY <2>1 DEF MissedBits
  <2>6. UndrivenSpans' /\ NoDriverReported'
    BY <2>1, <2>5 DEF RangesInv, UndrivenSpans, NoDriverReported
  <2>7. QED
    BY <1>10, <2>1, <2>4, <2>6 DEF RangesInv
<1>13. CASE CheckConsumer
  <2>1. /\ Kept /\ pc = "gaps" /\ pc' = "gaps" /\ overlap' = overlap
        /\ merged' = merged /\ report' = report
    BY <1>13 DEF CheckConsumer
  <2>2. UndrivenSpans'
    BY <1>13, CheckConsumerSpans DEF RangesInv
  <2>3. /\ BitsOf(merged)' = BitsOf(merged) /\ Apart(merged)' = Apart(merged)
        /\ DrivenBits' = DrivenBits
    BY <2>1 DEF BitsOf, Apart, DrivenBits
  <2>4. MergedExact' /\ NoDriverReported'
    BY <2>1, <2>3 DEF RangesInv, MergedExact, NoDriverReported
  <2>5. QED
    BY <1>10, <2>1, <2>2, <2>4 DEF RangesInv
<1>14. CASE FinishNet
  <2>1. /\ Kept /\ pc = "gaps" /\ pc' = "done" /\ overlap' = overlap
        /\ merged' = merged /\ pos' = pos /\ pos > Len(consumers)
        /\ undriven' = undriven
        /\ report' = report
             \cup (IF undriven # None THEN {"NET_NO_DRIVER"} ELSE {})
             \cup (IF consumers # <<>> THEN {}
                   ELSE IF drivers = <<>> THEN {"NET_UNUSED"} ELSE {"NET_NO_CONSUMERS"})
    BY <1>14 DEF FinishNet
  <2>2. /\ BitsOf(merged)' = BitsOf(merged) /\ Apart(merged)' = Apart(merged)
        /\ DrivenBits' = DrivenBits /\ MissedBits' = MissedBits
    BY <2>1 DEF BitsOf, Apart, DrivenBits, MissedBits
  <2>3. MergedExact' /\ UndrivenSpans'
    BY <2>1, <2>2 DEF RangesInv, MergedExact, UndrivenSpans
  <2>4. NoDriverReported'
    BY <2>1 DEF RangesInv, NoDriverReported
  <2>5. QED
    BY <1>10, <2>1, <2>3, <2>4 DEF RangesInv
<1>15. CASE UNCHANGED vars
  <2>1. /\ EndpointsOf(FALSE)' = EndpointsOf(FALSE) /\ SharedBits' = SharedBits
        /\ BitsOf(merged)' = BitsOf(merged) /\ Apart(merged)' = Apart(merged)
        /\ DrivenBits' = DrivenBits /\ MissedBits' = MissedBits
    BY <1>15 DEF vars, EndpointsOf, EndpointOf, Listed, SharedBits, Swept, IsEmpty,
                 BitsOf, Apart, DrivenBits, MissedBits
  <2>2. QED
    BY <1>15, <2>1 DEF vars, RangesInv, OverlapSpans, ConsumersListed, MergedExact,
                       UndrivenSpans, NoDriverReported
<1>16. QED
  BY <1>5, <1>6, <1>7, <1>8, <1>9, <1>11, <1>12, <1>13, <1>14, <1>15 DEF Next

\* The reported overlap, the merged ranges and the undriven range tell the bits they
\* stand for at every step of the three loops.
THEOREM RangesInvariant == Spec => []RangesInv
<1>1. Init => RangesInv
  <2> SUFFICES ASSUME Init
               PROVE  RangesInv
    OBVIOUS
  <2>1. merged = <<>> /\ Len(merged) = 0
    BY DEF Init
  <2>2. Apart(merged)
    BY <2>1 DEF Apart
  <2>3. QED
    BY <2>1, <2>2 DEF Init, RangesInv, OverlapSpans, ConsumersListed, MergedExact,
                      UndrivenSpans, NoDriverReported
<1>2. TypeOK /\ SweepInv /\ RangesInv /\ [Next]_vars => RangesInv'
  BY RangesStep
<1>3. QED
  BY <1>1, <1>2, TypeCorrect, SweepInvariant, PTL DEF Spec

\* The bits of the document's attachments are those of the lists.
LEMMA DrivenBitsOfDocument ==
  ASSUME TypeOK, DriversListed, pc # "build", NEW b
  PROVE  DrivenBy(b) # {} <=> \E i \in 1..Len(drivers) : b \in BitsIn(drivers[i])
<1>1. /\ \A i \in 1..Len(drivers) : drivers[i] \in EndpointsOf(TRUE)
      /\ \A e \in EndpointsOf(TRUE) : \E i \in 1..Len(drivers) : drivers[i] = e
  BY DEF DriversListed
<1>2. ASSUME NEW a \in DrivenBy(b)
      PROVE  \E i \in 1..Len(drivers) : b \in BitsIn(drivers[i])
  <2>1. a \in DOMAIN attached /\ Drives(attached[a]) /\ b \in BitsIn(EndpointOf(a))
    BY CoversEndpoint DEF DrivenBy
  <2>2. ~IsEmpty(EndpointOf(a))
    BY <2>1, CoveredNotEmpty
  <2>3. EndpointOf(a) \in EndpointsOf(TRUE)
    BY <2>1, <2>2 DEF EndpointsOf, Listed
  <2>4. QED
    BY <1>1, <2>1, <2>3
<1>3. ASSUME NEW i \in 1..Len(drivers), b \in BitsIn(drivers[i])
      PROVE  DrivenBy(b) # {}
  <2>1. PICK a \in DOMAIN attached : drivers[i] = EndpointOf(a) /\ Drives(attached[a])
    BY <1>1 DEF EndpointsOf, Drives
  <2>2. a \in DrivenBy(b)
    BY <1>3, <2>1, CoversEndpoint DEF DrivenBy
  <2>3. QED
    BY <2>2
<1>4. QED
  BY <1>2, <1>3

LEMMA ReadBitsOfDocument ==
  ASSUME TypeOK, ConsumersListed, pc # "build", NEW b
  PROVE  ReadBy(b) # {} <=> \E i \in 1..Len(consumers) : b \in BitsIn(consumers[i])
<1>1. /\ \A i \in 1..Len(consumers) : consumers[i] \in EndpointsOf(FALSE)
      /\ \A e \in EndpointsOf(FALSE) : \E i \in 1..Len(consumers) : consumers[i] = e
  BY DEF ConsumersListed
<1>2. ASSUME NEW a \in ReadBy(b)
      PROVE  \E i \in 1..Len(consumers) : b \in BitsIn(consumers[i])
  <2>1. a \in DOMAIN attached /\ ~Drives(attached[a]) /\ b \in BitsIn(EndpointOf(a))
    BY CoversEndpoint DEF ReadBy
  <2>2. ~IsEmpty(EndpointOf(a))
    BY <2>1, CoveredNotEmpty
  <2>3. EndpointOf(a) \in EndpointsOf(FALSE)
    BY <2>1, <2>2 DEF EndpointsOf, Listed, Drives
  <2>4. QED
    BY <1>1, <2>1, <2>3
<1>3. ASSUME NEW i \in 1..Len(consumers), b \in BitsIn(consumers[i])
      PROVE  ReadBy(b) # {}
  <2>1. PICK a \in DOMAIN attached : consumers[i] = EndpointOf(a) /\ ~Drives(attached[a])
    BY <1>1 DEF EndpointsOf, Drives
  <2>2. a \in ReadBy(b)
    BY <1>3, <2>1, CoversEndpoint DEF ReadBy
  <2>3. QED
    BY <2>2
<1>4. QED
  BY <1>2, <1>3

\* After the last loop the missed bits are the starved bits of the document.
LEMMA MissedIffStarved ==
  ASSUME TypeOK, DriversListed, RangesInv, pc = "done"
  PROVE  MissedBits = Starved
<1>1. \A b \in Nat : b \in BitsOf(merged) <=> DrivenBy(b) # {}
  <2>1. BitsOf(merged) = DrivenBits
    BY DEF RangesInv, MergedExact
  <2>2. \A b \in Nat :
          b \in DrivenBits <=> \E i \in 1..Len(drivers) : b \in BitsIn(drivers[i])
    BY DEF DrivenBits
  <2>3. QED
    BY <2>1, <2>2, DrivenBitsOfDocument
<1>2. \A b \in Nat :
        b \in MissedBits <=>
          /\ \E i \in 1..Len(consumers) : b \in BitsIn(consumers[i])
          /\ b \notin BitsOf(merged)
  <2>1. pos > Len(consumers) /\ Len(consumers) \in Nat /\ pos \in Nat
    BY DEF RangesInv, NoDriverReported, TypeOK
  <2>2. \A i \in 1..Len(consumers) : i < pos
    BY <2>1
  <2>3. QED
    BY <2>2 DEF MissedBits
<1>3. \A b \in Nat : b \in MissedBits <=> ReadBy(b) # {} /\ DrivenBy(b) = {}
  BY <1>1, <1>2, ReadBitsOfDocument DEF RangesInv
<1>4. \A b : ReadBy(b) # {} => b \in NetBits
  BY CoversEndpoint DEF ReadBy
<1>5. NetBits \subseteq Nat /\ MissedBits \subseteq Nat
  <2>1. width \in Nat
    BY NetDriveAssumption DEF TypeOK
  <2>2. QED
    BY <2>1 DEF NetBits, MissedBits
<1>6. QED
  BY <1>3, <1>4, <1>5 DEF Starved

\* After the sweep the bits that drivers share are the contested bits.
LEMMA SharedIffContested ==
  ASSUME SweepInv, pc \in {"merge", "gaps", "done"}
  PROVE  SharedBits = Contested
<1> USE DEF SweepInv
<1>1. /\ \A i \in 1..Len(drivers) : drivers[i] \in EndpointsOf(TRUE)
      /\ \A e \in EndpointsOf(TRUE) : \E i \in 1..Len(drivers) : drivers[i] = e
      /\ \A i, j \in 1..Len(drivers) : i < j => drivers[i] # drivers[j]
  BY DEF DriversListed
<1>2. \A i \in 1..Len(drivers) : Swept(i) <=> ~IsEmpty(drivers[i])
  BY DEF Swept
<1>3. NetBits \subseteq Nat
  <2>1. width \in Nat
    BY NetDriveAssumption DEF TypeOK
  <2>2. QED
    BY <2>1 DEF NetBits
<1>4. ASSUME NEW b \in SharedBits
      PROVE  b \in Contested
  <2>1. PICK i \in 1..Len(drivers), j \in 1..Len(drivers) :
          /\ i # j /\ b \in BitsIn(drivers[i]) /\ b \in BitsIn(drivers[j])
    BY DEF SharedBits
  <2>2. PICK p \in DOMAIN attached : drivers[i] = EndpointOf(p) /\ Drives(attached[p])
    BY <1>1 DEF EndpointsOf, Drives
  <2>3. PICK q \in DOMAIN attached : drivers[j] = EndpointOf(q) /\ Drives(attached[q])
    BY <1>1 DEF EndpointsOf, Drives
  <2>4. p \in DrivenBy(b) /\ q \in DrivenBy(b) /\ b \in NetBits
    BY <2>1, <2>2, <2>3, CoversEndpoint DEF DrivenBy
  <2>5. p # q
    <3>1. i < j \/ j < i
      BY <2>1
    <3>2. drivers[i] # drivers[j]
      BY <1>1, <2>1, <3>1
    <3>3. QED
      BY <2>2, <2>3, <3>2
  <2>6. QED
    BY <2>4, <2>5 DEF Contested
<1>5. ASSUME NEW b \in Contested
      PROVE  b \in SharedBits
  <2>1. PICK p \in DrivenBy(b), q \in DrivenBy(b) : p # q
    BY DEF Contested
  <2>2. /\ p \in DOMAIN attached /\ Drives(attached[p]) /\ b \in BitsIn(EndpointOf(p))
        /\ q \in DOMAIN attached /\ Drives(attached[q]) /\ b \in BitsIn(EndpointOf(q))
    BY CoversEndpoint DEF DrivenBy
  <2>3. ~IsEmpty(EndpointOf(p)) /\ ~IsEmpty(EndpointOf(q))
    BY <2>2, CoveredNotEmpty
  <2>4. EndpointOf(p) \in EndpointsOf(TRUE) /\ EndpointOf(q) \in EndpointsOf(TRUE)
    BY <2>2, <2>3 DEF EndpointsOf, Listed
  <2>5. PICK i \in 1..Len(drivers), j \in 1..Len(drivers) :
          drivers[i] = EndpointOf(p) /\ drivers[j] = EndpointOf(q)
    BY <1>1, <2>4
  <2>6. i # j
    <3>1. drivers[i].src = p /\ drivers[j].src = q
      BY <2>5 DEF EndpointOf
    <3>2. QED
      BY <2>1, <3>1
  <2>7. b \in Nat
    BY <1>3 DEF Contested
  <2>8. QED
    BY <1>2, <2>2, <2>3, <2>5, <2>6, <2>7 DEF SharedBits
<1>6. QED
  BY <1>4, <1>5

\* NET_NO_DRIVER is reported exactly when some bit that is read has no driver:
\* merging the drivers and looking for the first gap under each reader misses no
\* bit, on nets of any width.
THEOREM NoDriver == Spec => []NoDriverExact
<1>1. TypeOK /\ SweepInv /\ RangesInv => NoDriverExact
  <2> SUFFICES ASSUME TypeOK, SweepInv, RangesInv, pc = "done"
               PROVE  "NET_NO_DRIVER" \in report <=> Starved # {}
    BY DEF NoDriverExact
  <2>1. MissedBits = Starved
    BY MissedIffStarved DEF SweepInv
  <2>2. "NET_NO_DRIVER" \in report <=> undriven # None
    BY DEF RangesInv, NoDriverReported
  <2>3. undriven # None <=> MissedBits # {}
    BY DEF RangesInv, UndrivenSpans
  <2>4. QED
    BY <2>1, <2>2, <2>3
<1>2. QED
  BY <1>1, TypeCorrect, SweepInvariant, RangesInvariant, PTL

\* The ranges that the two errors name end on bits that are at fault, and no
\* bit at fault lies outside the one, or in front of the other.
THEOREM ReportedRanges == Spec => []ReportedRangesSound
<1>1. TypeOK /\ SweepInv /\ RangesInv => ReportedRangesSound
  <2> SUFFICES ASSUME TypeOK, SweepInv, RangesInv, pc = "done"
               PROVE  /\ overlap # None =>
                           /\ {overlap.lo, overlap.hi - 1} \subseteq Contested
                           /\ Contested \subseteq BitsIn(overlap)
                      /\ undriven # None =>
                           /\ {undriven.lo, undriven.hi - 1} \subseteq Starved
                           /\ \A b \in Starved : undriven.lo <= b
    BY DEF ReportedRangesSound
  <2>1. MissedBits = Starved
    BY MissedIffStarved DEF SweepInv
  <2>2. SharedBits = Contested
    BY SharedIffContested
  <2>3. QED
    BY <2>1, <2>2 DEF RangesInv, OverlapSpans, UndrivenSpans
<1>2. QED
  BY <1>1, TypeCorrect, SweepInvariant, RangesInvariant, PTL
=============================================================================
