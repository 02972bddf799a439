------------------------------ MODULE NetDrive ------------------------------
(***************************************************************************)
(* Electrical roles of one net in the kernel's validator                   *)
(* (crates/jsonrtl/src/validation.rs): which endpoints drive it, which     *)
(* consume it, whether two drivers share a bit, whether a consumed bit has *)
(* no driver.                                                              *)
(*                                                                         *)
(* A net may be thousands of bits wide, so the validator never expands a   *)
(* bit range.  It sorts the drivers by range and walks them once, keeping  *)
(* only the driver that reaches furthest; it merges the driven ranges and  *)
(* looks for the first gap under every consumer.  The properties say that  *)
(* those interval shortcuts give the bit-by-bit answer.                    *)
(*                                                                         *)
(* One loop iteration of the code is one step.                             *)
(***************************************************************************)
EXTENDS Integers, Sequences, FiniteSets

CONSTANTS
  Widths,          \* declared widths the net may have
  Connections,     \* how a component port may refer to the net
  MaxAttachments   \* bound: endpoints attached to the net

(***************************************************************************)
(* A connection names the whole net, or a slice [msb:lsb] of it.           *)
(***************************************************************************)
Connection == [sliced : BOOLEAN, msb : Nat, lsb : Nat]
WholeNet   == [sliced |-> FALSE, msb |-> 0, lsb |-> 0]

ASSUME NetDriveAssumption ==
  /\ Widths \subseteq Nat
  /\ Connections \subseteq Connection
  /\ MaxAttachments \in Nat

Attachment ==
  [owner : {"port"}, dir : {"input", "output"}, to : {WholeNet}]
    \cup [owner : {"component"}, dir : {"input", "output"}, to : Connections]

VARIABLES
  width,        \* declared width of the net
  attached,     \* the document's ports and connections that name the net
  pc,           \* the loop the validator is in
  drivers,      \* sorted endpoints that drive the net
  consumers,    \* sorted endpoints that read it
  pos,          \* loop position
  furthest,     \* position of the driver that reaches furthest, 0 = None
  conflicting,  \* positions marked as sharing a bit with another driver
  overlap,      \* range reported by NET_MULTIPLE_DRIVERS
  merged,       \* disjoint ascending driven ranges
  undriven,     \* range reported by NET_NO_DRIVER
  report        \* diagnostic codes pushed so far

vars == <<width, attached, pc, drivers, consumers, pos, furthest, conflicting,
          overlap, merged, undriven, report>>

-----------------------------------------------------------------------------
(***************************************************************************)
(* Ranges are half open: bits lo .. hi-1.                                  *)
(***************************************************************************)
BitRange    == [lo : Nat, hi : Nat]
None     == [lo |-> 1, hi |-> 0]     \* Option::None for a range
Endpoint == [lo : Nat, hi : Nat, src : Nat]

LowerOf(a, b)  == IF a <= b THEN a ELSE b
HigherOf(a, b) == IF a >= b THEN a ELSE b

BitsIn(r)      == r.lo .. r.hi - 1
IsEmpty(e)     == e.lo >= e.hi

Overlaps(d, e) == d.lo < e.hi /\ e.lo < d.hi

\* Fault: the range last found replaces the one found before.
LastRange(r, s) == s

\* Grows an optional range to include another one.
Hull(r, s) == IF r = None THEN s
              ELSE [lo |-> LowerOf(r.lo, s.lo), hi |-> HigherOf(r.hi, s.hi)]

\* Connection::bits: an out-of-range or reversed slice covers nothing.
ConnectionBits(c, w) ==
  IF ~c.sliced THEN [lo |-> 0, hi |-> w]
  ELSE IF c.lsb > c.msb \/ c.msb >= w THEN [lo |-> 0, hi |-> 0]
  ELSE [lo |-> c.lsb, hi |-> c.msb + 1]

-----------------------------------------------------------------------------
(***************************************************************************)
(* build_electrical_roles.  A module input drives its net from inside the  *)
(* module, a component input reads it.  An empty component range is left   *)
(* out; a module port always covers the whole net, even one of width 0.    *)
(***************************************************************************)
Drives(a) == (a.owner = "port") = (a.dir = "input")

EndpointOf(i) ==
  LET bits == ConnectionBits(attached[i].to, width)
  IN  [lo |-> bits.lo, hi |-> bits.hi, src |-> i]

Listed(i) == attached[i].owner = "port" \/ ~IsEmpty(EndpointOf(i))

EndpointsOf(driving) ==
  {EndpointOf(i) : i \in {j \in DOMAIN attached :
                            Listed(j) /\ Drives(attached[j]) = driving}}

\* The derived order of Endpoint: by range, then by source.
Before(d, e) ==
  \/ d.lo < e.lo
  \/ d.lo = e.lo /\ d.hi < e.hi
  \/ d.lo = e.lo /\ d.hi = e.hi /\ d.src < e.src

\* Vec::sort followed by dedup: the increasing enumeration of a set.
SortedListings(S) ==
  {s \in UNION {[1..n -> S] : n \in 0..MaxAttachments} :
     /\ \A e \in S : \E i \in DOMAIN s : s[i] = e
     /\ \A i, j \in DOMAIN s : i < j => Before(s[i], s[j])}

Init ==
  /\ width \in Widths
  /\ \E n \in 0..MaxAttachments : attached \in [1..n -> Attachment]
  /\ pc = "build"
  /\ drivers = <<>> /\ consumers = <<>>
  /\ pos = 1 /\ furthest = 0 /\ conflicting = {}
  /\ overlap = None /\ merged = <<>> /\ undriven = None
  /\ report = {}

BuildRoles ==
  /\ pc = "build"
  /\ drivers' \in SortedListings(EndpointsOf(TRUE))
  /\ consumers' \in SortedListings(EndpointsOf(FALSE))
  /\ pc' = "sweep" /\ pos' = 1
  /\ furthest' = 0 /\ conflicting' = {} /\ overlap' = None
  /\ UNCHANGED <<width, attached, merged, undriven, report>>

-----------------------------------------------------------------------------
(***************************************************************************)
(* The sweep for NET_MULTIPLE_DRIVERS: only the furthest reaching driver   *)
(* so far is compared with the next one.                                   *)
(***************************************************************************)
Sweeping ==
  /\ pc = "sweep"
  /\ pos <= Len(drivers)
  /\ pos' = pos + 1
  /\ UNCHANGED <<width, attached, pc, drivers, consumers, merged, undriven,
                 report>>

SkipEmptyDriver ==
  /\ Sweeping
  /\ IsEmpty(drivers[pos])
  /\ UNCHANGED <<furthest, conflicting, overlap>>

FirstDriver ==
  /\ Sweeping
  /\ ~IsEmpty(drivers[pos])
  /\ furthest = 0
  /\ furthest' = pos
  /\ UNCHANGED <<conflicting, overlap>>

\* Fault: only the later of two conflicting drivers is marked.
NextDriverMarksOne ==
  LET driver == drivers[pos]
      other  == drivers[furthest]
      shared == [lo |-> driver.lo, hi |-> LowerOf(driver.hi, other.hi)]
  IN  /\ Sweeping
      /\ ~IsEmpty(driver)
      /\ furthest # 0
      /\ IF Overlaps(driver, other)
         THEN /\ conflicting' = conflicting \cup {pos}
              /\ overlap' = Hull(overlap, shared)
         ELSE UNCHANGED <<conflicting, overlap>>
      /\ furthest' = IF driver.hi > other.hi THEN pos ELSE furthest

NextDriver ==
  LET driver == drivers[pos]
      other  == drivers[furthest]
      shared == [lo |-> driver.lo, hi |-> LowerOf(driver.hi, other.hi)]
  IN  /\ Sweeping
      /\ ~IsEmpty(driver)
      /\ furthest # 0
      /\ IF Overlaps(driver, other)
         THEN /\ conflicting' = conflicting \cup {pos, furthest}
              /\ overlap' = Hull(overlap, shared)
         ELSE UNCHANGED <<conflicting, overlap>>
      /\ furthest' = IF driver.hi > other.hi THEN pos ELSE furthest

EndSweep ==
  /\ pc = "sweep"
  /\ pos > Len(drivers)
  /\ report' = report \cup (IF overlap # None THEN {"NET_MULTIPLE_DRIVERS"} ELSE {})
  /\ pc' = "merge" /\ pos' = 1
  /\ UNCHANGED <<width, attached, drivers, consumers, furthest, conflicting,
                 overlap, merged, undriven>>

-----------------------------------------------------------------------------
(***************************************************************************)
(* merge_ranges: drops empty ranges, then extends the last merged range or *)
(* opens a new one.  The sorted drivers are already in range order.        *)
(***************************************************************************)
\* Fault: a nested range shortens the range it is merged into.
MergeDriverShortens ==
  LET driver == drivers[pos]
      last   == merged[Len(merged)]
      bits   == [lo |-> driver.lo, hi |-> driver.hi]
  IN  /\ pc = "merge"
      /\ pos <= Len(drivers)
      /\ merged' = IF IsEmpty(driver) THEN merged
                   ELSE IF merged # <<>> /\ driver.lo <= last.hi
                   THEN [merged EXCEPT ![Len(merged)].hi = driver.hi]
                   ELSE Append(merged, bits)
      /\ pos' = pos + 1
      /\ UNCHANGED <<width, attached, pc, drivers, consumers, furthest,
                     conflicting, overlap, undriven, report>>

MergeDriver ==
  LET driver == drivers[pos]
      last   == merged[Len(merged)]
      bits   == [lo |-> driver.lo, hi |-> driver.hi]
  IN  /\ pc = "merge"
      /\ pos <= Len(drivers)
      /\ merged' = IF IsEmpty(driver) THEN merged
                   ELSE IF merged # <<>> /\ driver.lo <= last.hi
                   THEN [merged EXCEPT ![Len(merged)].hi = HigherOf(@, driver.hi)]
                   ELSE Append(merged, bits)
      /\ pos' = pos + 1
      /\ UNCHANGED <<width, attached, pc, drivers, consumers, furthest,
                     conflicting, overlap, undriven, report>>

EndMerge ==
  /\ pc = "merge"
  /\ pos > Len(drivers)
  /\ pc' = "gaps" /\ pos' = 1
  /\ UNCHANGED <<width, attached, drivers, consumers, furthest, conflicting,
                 overlap, merged, undriven, report>>

-----------------------------------------------------------------------------
(***************************************************************************)
(* first_gap(range, covered): skip the ranges that end at or before the    *)
(* start of the range, then move a cursor from one end to the next until a *)
(* range starts beyond it.  Stop k is the position in front of covered[k], *)
(* or the end of the list.                                                 *)
(***************************************************************************)
Cursor(range, covered, k) ==
  IF k = 1 \/ covered[k - 1].hi <= range.lo THEN range.lo ELSE covered[k - 1].hi

GapAt(range, covered, k) ==
  [lo |-> Cursor(range, covered, k),
   hi |-> IF k > Len(covered) THEN range.hi ELSE LowerOf(covered[k].lo, range.hi)]

GapStops(range, covered) ==
  {k \in 1..Len(covered) + 1 :
     /\ Cursor(range, covered, k) < range.hi
     /\ \/ k > Len(covered)
        \/ /\ covered[k].hi > range.lo
           /\ covered[k].lo > Cursor(range, covered, k)}

FirstGap(range, covered) ==
  LET stops == GapStops(range, covered)
      first == CHOOSE k \in stops : \A j \in stops : k <= j
  IN  IF stops = {} THEN None ELSE GapAt(range, covered, first)

CheckConsumer ==
  LET gap == FirstGap(consumers[pos], merged)
  IN  /\ pc = "gaps"
      /\ pos <= Len(consumers)
      /\ undriven' = IF gap = None THEN undriven ELSE Hull(undriven, gap)
      /\ pos' = pos + 1
      /\ UNCHANGED <<width, attached, pc, drivers, consumers, furthest,
                     conflicting, overlap, merged, report>>

\* The error for undriven bits, then the two whole-net warnings.
FinishNet ==
  /\ pc = "gaps"
  /\ pos > Len(consumers)
  /\ report' = report
       \cup (IF undriven # None THEN {"NET_NO_DRIVER"} ELSE {})
       \cup (IF consumers # <<>> THEN {}
             ELSE IF drivers = <<>> THEN {"NET_UNUSED"} ELSE {"NET_NO_CONSUMERS"})
  /\ pc' = "done"
  /\ UNCHANGED <<width, attached, drivers, consumers, pos, furthest,
                 conflicting, overlap, merged, undriven>>

Next ==
  \/ BuildRoles
  \/ SkipEmptyDriver \/ FirstDriver \/ NextDriver \/ EndSweep
  \/ MergeDriver \/ EndMerge
  \/ CheckConsumer \/ FinishNet

Spec == Init /\ [][Next]_vars

-----------------------------------------------------------------------------
Phases == {"build", "sweep", "merge", "gaps", "done"}
Codes  == {"NET_MULTIPLE_DRIVERS", "NET_NO_DRIVER", "NET_UNUSED",
           "NET_NO_CONSUMERS"}

\* Every variable stays in the range the code's types give it; a loop
\* position is at most one past its list and `furthest` names a driver.
TypeOK ==
  /\ width \in Widths
  /\ \E n \in 0..MaxAttachments : attached \in [1..n -> Attachment]
  /\ pc \in Phases
  /\ drivers \in Seq(Endpoint)
  /\ consumers \in Seq(Endpoint)
  /\ pos \in 1 .. HigherOf(Len(drivers), Len(consumers)) + 1
  /\ furthest \in 0 .. Len(drivers)
  /\ conflicting \subseteq 1 .. Len(drivers)
  /\ overlap \in BitRange
  /\ merged \in Seq(BitRange)
  /\ undriven \in BitRange
  /\ report \subseteq Codes

-----------------------------------------------------------------------------
(***************************************************************************)
(* The bit-by-bit meaning, read from the document and not from the lists.  *)
(***************************************************************************)
\* Bits of the net that attachment i covers.
Covers(i, bit) == bit \in BitsIn(ConnectionBits(attached[i].to, width))
DrivenBy(bit) == {i \in DOMAIN attached : Drives(attached[i]) /\ Covers(i, bit)}
ReadBy(bit)   == {i \in DOMAIN attached : ~Drives(attached[i]) /\ Covers(i, bit)}
NetBits       == 0 .. width - 1

Contested == {b \in NetBits : \E i, j \in DrivenBy(b) : i # j}
Starved   == {b \in NetBits : ReadBy(b) # {} /\ DrivenBy(b) = {}}

\* NET_MULTIPLE_DRIVERS is reported exactly when two attachments drive one
\* bit: comparing with the furthest reaching driver alone misses no pair and
\* blames no legal bus merger (validation.rs, sweep in validate_electrical_roles).
MultipleDriversExact ==
  pc \in {"merge", "gaps", "done"} =>
    (("NET_MULTIPLE_DRIVERS" \in report) <=> (Contested # {}))

\* The drivers the diagnostic lists are exactly those that share a bit with
\* another driver, although most pairs are never compared.
ConflictListExact ==
  pc \in {"merge", "gaps", "done"} =>
    {drivers[i].src : i \in conflicting}
      = UNION {DrivenBy(b) : b \in Contested}

\* NET_NO_DRIVER is reported exactly when some consumed bit has no driver, even
\* when other bits of the net are driven (merge_ranges and first_gap).
NoDriverExact ==
  pc = "done" => (("NET_NO_DRIVER" \in report) <=> (Starved # {}))

\* The range a diagnostic names is right although it is a hull of the ranges
\* found one by one: NET_MULTIPLE_DRIVERS names from the lowest to the highest
\* contested bit, NET_NO_DRIVER from the lowest starved bit to a starved bit.
ReportedRangesSound ==
  pc = "done" =>
    /\ overlap # None =>
         /\ {overlap.lo, overlap.hi - 1} \subseteq Contested
         /\ Contested \subseteq BitsIn(overlap)
    /\ undriven # None =>
         /\ {undriven.lo, undriven.hi - 1} \subseteq Starved
         /\ \A b \in Starved : undriven.lo <= b
=============================================================================
