------------------------- MODULE ImportCommandProofs --------------------------
(***************************************************************************)
(* Proofs about `jsonrtl import`, for every command, project and sheet.    *)
(* The first part is about the loader of the DLS profile, for any number   *)
(* of units in any order and all limits; the second about the command; the *)
(* third about the documents that the profile gives to the kernel.         *)
(***************************************************************************)
EXTENDS ImportCommand, FiniteSetTheorems, SequenceTheorems, WellFoundedInduction, TLAPS

-----------------------------------------------------------------------------
(* Induction, by a smallest counterexample.                                *)

LEMMA Least ==
  ASSUME NEW T, T \subseteq Nat, T # {}
  PROVE  \E x \in T : \A y \in T : x <= y
<1> DEFINE R == {ss \in Nat \X Nat : ss[1] < ss[2]}
<1>1. IsWellFoundedOn(R, Nat)
  BY NatLessThanWellFounded DEF OpToRel
<1>2. PICK x \in T : \A y \in T : ~ (<<y, x>> \in R)
  <2> HIDE DEF R
  <2> QED
    BY <1>1, WFMin
<1>3. \A y \in T : x <= y
  <2> SUFFICES ASSUME NEW y \in T
               PROVE  x <= y
    OBVIOUS
  <2>1. <<y, x>> \in Nat \X Nat /\ <<y, x>>[1] = y /\ <<y, x>>[2] = x
    OBVIOUS
  <2>2. ~(y < x)
    BY <1>2, <2>1
  <2>3. QED
    BY <2>2
<1>4. QED
  BY <1>3

\* A set of numbers up to n that is closed under successors holds them all.
LEMMA Induction ==
  ASSUME NEW n \in Nat, NEW T, 0 \in T,
         \A i \in 1..n : i - 1 \in T => i \in T
  PROVE  \A i \in 0..n : i \in T
<1> DEFINE Bad == {i \in 0..n : i \notin T}
<1>1. SUFFICES ASSUME Bad # {}
               PROVE  FALSE
  OBVIOUS
<1>2. PICK x \in Bad : \A y \in Bad : x <= y
  <2>1. Bad \subseteq Nat
    OBVIOUS
  <2> HIDE DEF Bad
  <2>2. QED
    BY <1>1, <2>1, Least
<1>3. x \in 1..n /\ x - 1 \in 0..n
  BY <1>2
<1>4. x - 1 \in T
  BY <1>2, <1>3
<1>5. QED
  BY <1>2, <1>3, <1>4

\* A function that is defined by recursion exists: it begins with `base`, and
\* step[i] makes its value for i of the one before.
Recursive(n, S, base, step) == n \in Nat /\ base \in S /\ step \in [1..n -> [S -> S]]

Follows(f, n, base, step) == f[0] = base /\ \A i \in 1..n : f[i] = step[i][f[i - 1]]

HasSolution(n, S, base, step) == \E f \in [0..n -> S] : Follows(f, n, base, step)

LEMMA Recursion ==
  ASSUME NEW n, NEW S, NEW base, NEW step, Recursive(n, S, base, step)
  PROVE  HasSolution(n, S, base, step)
<1> DEFINE T == {m \in 0..n : HasSolution(m, S, base, step)}
<1>1. n \in Nat /\ base \in S /\ step \in [1..n -> [S -> S]]
  BY DEF Recursive
<1>2. 0 \in T
  <2>1. /\ [i \in 0..0 |-> base] \in [0..0 -> S]
        /\ Follows([i \in 0..0 |-> base], 0, base, step)
    BY <1>1 DEF Follows
  <2>2. HasSolution(0, S, base, step)
    BY <2>1 DEF HasSolution
  <2>3. QED
    BY <1>1, <2>2
<1>3. ASSUME NEW m \in 1..n, m - 1 \in T
      PROVE  m \in T
  <2>1. PICK f \in [0..m - 1 -> S] : Follows(f, m - 1, base, step)
    BY <1>3 DEF HasSolution
  <2>2. m \in Nat /\ m - 1 \in 0..m - 1 /\ f[m - 1] \in S
    BY <1>1
  <2> DEFINE last == step[m][f[m - 1]]
             g == [i \in 0..m |-> IF i = m THEN last ELSE f[i]]
  <2>3. last \in S
    BY <1>1, <2>2
  <2> HIDE DEF last
  <2>4. g \in [0..m -> S]
    BY <1>1, <2>3
  <2>5. \A i \in 0..m - 1 : g[i] = f[i]
    BY <1>1
  <2>6. g[m] = last
    BY <1>1
  <2> HIDE DEF g
  <2>7. Follows(g, m, base, step)
    <3>1. g[0] = base
      BY <2>1, <2>2, <2>5 DEF Follows
    <3>2. ASSUME NEW i \in 1..m - 1
          PROVE  g[i] = step[i][g[i - 1]]
      BY <1>1, <2>1, <2>5, <3>2 DEF Follows
    <3>3. g[m] = step[m][g[m - 1]]
      BY <2>2, <2>5, <2>6 DEF last
    <3>4. QED
      BY <2>2, <3>1, <3>2, <3>3 DEF Follows
  <2>8. HasSolution(m, S, base, step)
    BY <2>4, <2>7 DEF HasSolution
  <2>9. QED
    BY <1>1, <2>8
<1>4. \A m \in 0..n : m \in T
  <2> HIDE DEF T
  <2>1. QED
    BY <1>1, <1>2, <1>3, Induction
<1>5. QED
  BY <1>1, <1>4

-----------------------------------------------------------------------------
(* The two recursive functions.                                            *)

LEMMA EndsDefined ==
  ASSUME NEW unit \in Listed
  PROVE  /\ ChainEnds(unit)[0] = {unit}
         /\ \A n \in 1..MaxDepth :
              ChainEnds(unit)[n] =
                UNION {Dependencies(m) :
                         m \in {e \in ChainEnds(unit)[n - 1] :
                                  project.file[e].state = "good"}}
         /\ \A n \in 0..MaxDepth : ChainEnds(unit)[n] \subseteq Listed
<1> DEFINE Below(set) ==
             UNION {Dependencies(m) : m \in {e \in set : project.file[e].state = "good"}}
           step == [n \in 1..MaxDepth |-> [set \in SUBSET Listed |-> Below(set)]]
           Is(f) == f = [n \in 0..MaxDepth |-> IF n = 0 THEN {unit} ELSE Below(f[n - 1])]
<1>1. ChainEnds(unit) = CHOOSE f : Is(f)
  BY DEF ChainEnds
<1>2. ASSUME NEW set
      PROVE  Below(set) \in SUBSET Listed
  BY DEF Dependencies, IsDependency
<1>3. MaxDepth \in Nat /\ {unit} \in SUBSET Listed
  BY DlsLoaderAssumption
<1>4. step \in [1..MaxDepth -> [SUBSET Listed -> SUBSET Listed]]
  <2> HIDE DEF Below
  <2>1. QED
    BY <1>2
<1>5. PICK f \in [0..MaxDepth -> SUBSET Listed] :
        f[0] = {unit} /\ \A n \in 1..MaxDepth : f[n] = step[n][f[n - 1]]
  <2> DEFINE Sets == SUBSET Listed
             base == {unit}
  <2>1. Recursive(MaxDepth, Sets, base, step)
    BY <1>3, <1>4 DEF Recursive
  <2> HIDE DEF step, Sets, base
  <2>2. HasSolution(MaxDepth, Sets, base, step)
    BY <2>1, Recursion
  <2>3. QED
    BY <2>2 DEF HasSolution, Follows, Sets, base
<1>6. ASSUME NEW n \in 1..MaxDepth
      PROVE  f[n] = Below(f[n - 1])
  <2>1. n - 1 \in 0..MaxDepth /\ f[n - 1] \in SUBSET Listed
    BY <1>3
  <2> HIDE DEF Below
  <2>2. step[n][f[n - 1]] = Below(f[n - 1])
    BY <2>1
  <2>3. QED
    BY <1>5, <2>2
<1>7. Is(f)
  <2> HIDE DEF Below, step
  <2>1. \A n \in 0..MaxDepth : f[n] = IF n = 0 THEN {unit} ELSE Below(f[n - 1])
    BY <1>3, <1>5, <1>6
  <2>2. QED
    BY <2>1
<1>8. Is(ChainEnds(unit))
  <2> HIDE DEF Is
  <2>1. QED
    BY <1>1, <1>7
<1> DEFINE ends == ChainEnds(unit)
<1>9. /\ ends[0] = {unit}
      /\ \A n \in 1..MaxDepth : ends[n] = Below(ends[n - 1])
  <2> HIDE DEF Below, ends
  <2>1. ends = [n \in 0..MaxDepth |-> IF n = 0 THEN {unit} ELSE Below(ends[n - 1])]
    BY <1>8 DEF ends
  <2>2. 0 \in 0..MaxDepth /\ \A n \in 1..MaxDepth : n \in 0..MaxDepth /\ n # 0
    BY <1>3
  <2>3. ends[0] = {unit}
    BY <2>1, <2>2
  <2>4. ASSUME NEW n \in 1..MaxDepth
        PROVE  ends[n] = Below(ends[n - 1])
    BY <2>1, <2>2
  <2>5. QED
    BY <2>3, <2>4
<1>10. \A n \in 0..MaxDepth : ends[n] \subseteq Listed
  <2> HIDE DEF Below, ends
  <2>1. QED
    BY <1>2, <1>3, <1>9
<1>11. QED
  BY <1>9, <1>10

\* The projects that a loader is made for.
IsOpen == IsProject(project) /\ Metadata = "ok"

Size(name)       == project.file[name].size
Weight(names, i) == IF project.listing[i] \in names THEN Size(project.listing[i]) ELSE 0

LEMMA ListingHolds ==
  ASSUME IsOpen
  PROVE  /\ Len(project.listing) \in Nat /\ DOMAIN project.listing = 1..Len(project.listing)
         /\ \A i \in 1..Len(project.listing) :
              project.listing[i] \in Listed /\ Size(project.listing[i]) \in Nat
         /\ \A name \in Listed : Size(name) \in Nat
         /\ \A name \in Listed : \E i \in 1..Len(project.listing) : project.listing[i] = name
         /\ \A i, j \in 1..Len(project.listing) :
              project.listing[i] = project.listing[j] => i = j
<1>1. project.listing \in Seq(Listed)
  BY DEF IsOpen, IsProject, Listed
<1>2. /\ Len(project.listing) \in Nat /\ DOMAIN project.listing = 1..Len(project.listing)
      /\ \A i \in 1..Len(project.listing) : project.listing[i] \in Listed
  BY <1>1
<1>3. \A name \in Listed : Size(name) \in Nat
  BY DEF IsOpen, IsProject, Listed, Size
<1>4. \A name \in Listed : \E i \in 1..Len(project.listing) : project.listing[i] = name
  BY <1>2 DEF Listed, ToSet
<1>5. \A i \in DOMAIN project.listing : \A j \in 1..i - 1 :
        project.listing[j] # project.listing[i]
  BY DEF IsOpen, Metadata
<1>6. ASSUME NEW i \in 1..Len(project.listing), NEW j \in 1..Len(project.listing),
             project.listing[i] = project.listing[j]
      PROVE  i = j
  <2>1. ~(i < j)
    BY <1>2, <1>5, <1>6
  <2>2. ~(j < i)
    BY <1>2, <1>5, <1>6
  <2>3. QED
    BY <1>2, <2>1, <2>2
<1>7. QED
  BY <1>2, <1>3, <1>4, <1>6

LEMMA BytesDefined ==
  ASSUME IsOpen, NEW names
  PROVE  /\ BytesUpTo(names)[0] = 0
         /\ \A i \in 1..Len(project.listing) :
              BytesUpTo(names)[i] = BytesUpTo(names)[i - 1] + Weight(names, i)
         /\ \A i \in 0..Len(project.listing) : BytesUpTo(names)[i] \in Nat
<1> DEFINE n == Len(project.listing)
           step == [i \in 1..n |-> [sum \in Nat |-> sum + Weight(names, i)]]
           Is(f) == f = [i \in 0..n |-> IF i = 0 THEN 0 ELSE f[i - 1] + Weight(names, i)]
<1>1. BytesUpTo(names) = CHOOSE f : Is(f)
  BY DEF BytesUpTo, Weight, Size
<1>2. n \in Nat /\ \A i \in 1..n : Weight(names, i) \in Nat
  BY ListingHolds DEF Weight
<1> HIDE DEF n
<1>3. step \in [1..n -> [Nat -> Nat]]
  BY <1>2
<1>4. PICK f \in [0..n -> Nat] : f[0] = 0 /\ \A i \in 1..n : f[i] = step[i][f[i - 1]]
  <2>1. Recursive(n, Nat, 0, step)
    BY <1>2, <1>3 DEF Recursive
  <2> HIDE DEF step
  <2>2. HasSolution(n, Nat, 0, step)
    BY <2>1, Recursion
  <2>3. QED
    BY <2>2 DEF HasSolution, Follows
<1>5. ASSUME NEW i \in 1..n
      PROVE  f[i] = f[i - 1] + Weight(names, i)
  <2>1. i - 1 \in 0..n /\ f[i - 1] \in Nat
    BY <1>2
  <2>2. step[i][f[i - 1]] = f[i - 1] + Weight(names, i)
    BY <2>1
  <2>3. QED
    BY <1>4, <2>2
<1>6. Is(f)
  <2> HIDE DEF step
  <2>1. \A i \in 0..n : f[i] = IF i = 0 THEN 0 ELSE f[i - 1] + Weight(names, i)
    BY <1>2, <1>4, <1>5
  <2>2. QED
    BY <2>1
<1>7. Is(BytesUpTo(names))
  <2> HIDE DEF Is
  <2>1. QED
    BY <1>1, <1>6
<1> DEFINE sums == BytesUpTo(names)
<1>8. /\ sums[0] = 0
      /\ \A i \in 1..n : sums[i] = sums[i - 1] + Weight(names, i)
  <2> HIDE DEF sums
  <2>1. sums = [i \in 0..n |-> IF i = 0 THEN 0 ELSE sums[i - 1] + Weight(names, i)]
    BY <1>7 DEF sums
  <2>2. 0 \in 0..n /\ \A i \in 1..n : i \in 0..n /\ i # 0
    BY <1>2
  <2>3. sums[0] = 0
    BY <2>1, <2>2
  <2>4. ASSUME NEW i \in 1..n
        PROVE  sums[i] = sums[i - 1] + Weight(names, i)
    BY <2>1, <2>2
  <2>5. QED
    BY <2>3, <2>4
<1>9. \A i \in 0..n : sums[i] \in Nat
  <2> HIDE DEF sums
  <2> DEFINE T == {i \in 0..n : sums[i] \in Nat}
  <2>1. 0 \in T
    BY <1>2, <1>8
  <2>2. \A i \in 1..n : i - 1 \in T => i \in T
    BY <1>2, <1>8
  <2>3. \A i \in 0..n : i \in T
    <3> HIDE DEF T
    <3>1. QED
      BY <1>2, <2>1, <2>2, Induction
  <2>4. QED
    BY <2>3
<1>10. QED
  BY <1>8, <1>9 DEF n

\* What is read once adds its size once.
LEMMA BytesAdd ==
  ASSUME IsOpen, NEW names, NEW name \in Listed \ names
  PROVE  FileBytes(names \cup {name}) = FileBytes(names) + Size(name)
<1> DEFINE n == Len(project.listing)
           old == BytesUpTo(names)
           new == BytesUpTo(names \cup {name})
<1>1. PICK p \in 1..n : project.listing[p] = name
  BY ListingHolds
<1>2. \A i \in 1..n : i # p => project.listing[i] # name
  BY <1>1, ListingHolds
<1>3. n \in Nat /\ Size(name) \in Nat
  BY ListingHolds
<1>4. /\ \A i \in 1..n : i # p => Weight(names \cup {name}, i) = Weight(names, i)
      /\ Weight(names \cup {name}, p) = Size(name) /\ Weight(names, p) = 0
  BY <1>1, <1>2 DEF Weight
<1>5. \A i \in 1..n : Weight(names, i) \in Nat
  BY ListingHolds DEF Weight
<1>6. /\ old[0] = 0 /\ \A i \in 1..n : old[i] = old[i - 1] + Weight(names, i)
      /\ \A i \in 0..n : old[i] \in Nat
  BY BytesDefined
<1>7. /\ new[0] = 0 /\ \A i \in 1..n : new[i] = new[i - 1] + Weight(names \cup {name}, i)
  BY BytesDefined
<1> DEFINE T == {i \in 0..n : new[i] = old[i] + (IF i >= p THEN Size(name) ELSE 0)}
<1> HIDE DEF n, old, new
<1>8. 0 \in T
  BY <1>3, <1>6, <1>7
<1>9. ASSUME NEW i \in 1..n, i - 1 \in T
      PROVE  i \in T
  <2>1. /\ new[i - 1] = old[i - 1] + (IF i - 1 >= p THEN Size(name) ELSE 0)
        /\ old[i - 1] \in Nat /\ Weight(names, i) \in Nat
    BY <1>3, <1>5, <1>6, <1>9
  <2>2. CASE i = p
    <3>1. new[i - 1] = old[i - 1]
      BY <1>3, <2>1, <2>2
    <3>2. new[i] = new[i - 1] + Size(name) /\ old[i] = old[i - 1] + 0
      BY <1>4, <1>6, <1>7, <2>2
    <3>3. QED
      BY <1>3, <2>1, <2>2, <3>1, <3>2
  <2>3. CASE i # p
    <3>1. i - 1 >= p <=> i >= p
      BY <1>3, <2>3
    <3>2. Weight(names \cup {name}, i) = Weight(names, i)
      BY <1>4, <2>3
    <3>3. /\ new[i] = new[i - 1] + Weight(names, i)
          /\ old[i] = old[i - 1] + Weight(names, i)
      BY <1>6, <1>7, <3>2
    <3>4. new[i] = old[i] + (IF i >= p THEN Size(name) ELSE 0)
      BY <1>3, <2>1, <3>1, <3>3
    <3>5. i \in 0..n
      BY <1>3
    <3>6. QED
      BY <3>4, <3>5
  <2>4. QED
    BY <2>2, <2>3
<1>10. \A i \in 0..n : i \in T
  <2> HIDE DEF T
  <2>1. QED
    BY <1>3, <1>8, <1>9, Induction
<1>11. n \in 0..n /\ n >= p
  BY <1>3
<1>12. new[n] = old[n] + Size(name)
  BY <1>10, <1>11
<1>13. QED
  BY <1>12 DEF n, old, new, FileBytes

\* More names, no fewer bytes; no names, none.
LEMMA BytesGrow ==
  ASSUME IsOpen, NEW names, NEW more, names \subseteq more
  PROVE  /\ FileBytes(names) <= FileBytes(more)
         /\ FileBytes(names) \in Nat /\ FileBytes({}) = 0
<1> DEFINE n == Len(project.listing)
           old == BytesUpTo(names)
           new == BytesUpTo(more)
           none == BytesUpTo({})
<1>1. n \in Nat
  BY ListingHolds
<1>2. \A i \in 1..n : /\ Weight(names, i) \in Nat /\ Weight(more, i) \in Nat
                       /\ Weight(names, i) <= Weight(more, i) /\ Weight({}, i) = 0
  BY ListingHolds DEF Weight
<1>3. /\ old[0] = 0 /\ \A i \in 1..n : old[i] = old[i - 1] + Weight(names, i)
      /\ \A i \in 0..n : old[i] \in Nat
  BY BytesDefined
<1>4. /\ new[0] = 0 /\ \A i \in 1..n : new[i] = new[i - 1] + Weight(more, i)
      /\ \A i \in 0..n : new[i] \in Nat
  BY BytesDefined
<1>5. /\ none[0] = 0 /\ \A i \in 1..n : none[i] = none[i - 1] + Weight({}, i)
  BY BytesDefined
<1> DEFINE T == {i \in 0..n : old[i] <= new[i] /\ none[i] = 0}
<1> HIDE DEF n, old, new, none
<1>6. 0 \in T
  BY <1>1, <1>3, <1>4, <1>5
<1>7. ASSUME NEW i \in 1..n, i - 1 \in T
      PROVE  i \in T
  <2>1. /\ i - 1 \in 0..n /\ old[i - 1] <= new[i - 1] /\ none[i - 1] = 0
        /\ old[i - 1] \in Nat /\ new[i - 1] \in Nat
    BY <1>1, <1>3, <1>4, <1>7
  <2>2. QED
    BY <1>1, <1>2, <1>3, <1>4, <1>5, <2>1
<1>8. \A i \in 0..n : i \in T
  <2> HIDE DEF T
  <2>1. QED
    BY <1>1, <1>6, <1>7, Induction
<1>9. n \in 0..n
  BY <1>1
<1>10. QED
  BY <1>3, <1>8, <1>9 DEF n, old, new, none, FileBytes

-----------------------------------------------------------------------------
(* What depends on the project only stays, as the project does.            *)

DependenciesIn(p, name) ==
  {sub.name.text : sub \in {s \in ToSet(p.file[name].chip.subs) :
                              ~IsBuiltin(s.name) /\ s.name.text \in ToSet(p.listing)}}

EndsIn(p, unit) ==
  CHOOSE f : f = [n \in 0..MaxDepth |->
    IF n = 0 THEN {unit}
    ELSE UNION {DependenciesIn(p, m) : m \in {e \in f[n - 1] : p.file[e].state = "good"}}]

BytesIn(p, names) ==
  CHOOSE f : f = [i \in 0..Len(p.listing) |->
    IF i = 0 THEN 0
    ELSE f[i - 1] + (IF p.listing[i] \in names THEN p.file[p.listing[i]].size ELSE 0)]

LEMMA ProjectStays ==
  ASSUME project' = project
  PROVE  /\ Listed' = Listed
         /\ \A name : /\ Dependencies(name)' = Dependencies(name)
                      /\ Chip(name)' = Chip(name)
                      /\ ChainEnds(name)' = ChainEnds(name)
                      /\ FileBytes(name)' = FileBytes(name)
                      /\ Size(name)' = Size(name)
                      /\ Loadable(name)' = Loadable(name)
         /\ IsOpen' = IsOpen
<1>1. Listed' = Listed
  BY DEF Listed
<1>2. ASSUME NEW name
      PROVE  Dependencies(name)' = Dependencies(name)
  <2>1. Dependencies(name) = DependenciesIn(project, name)
    BY DEF Dependencies, DependenciesIn, Chip, IsDependency, Listed
  <2>2. Dependencies(name)' = DependenciesIn(project', name)
    BY DEF Dependencies, DependenciesIn, Chip, IsDependency, Listed
  <2>3. QED
    BY <2>1, <2>2
<1>3. ASSUME NEW name
      PROVE  ChainEnds(name)' = ChainEnds(name)
  <2>1. ChainEnds(name) = EndsIn(project, name)
    BY DEF ChainEnds, EndsIn, Dependencies, DependenciesIn, Chip, IsDependency, Listed
  <2>2. ChainEnds(name)' = EndsIn(project', name)
    BY DEF ChainEnds, EndsIn, Dependencies, DependenciesIn, Chip, IsDependency, Listed
  <2>3. QED
    BY <2>1, <2>2
<1>4. ASSUME NEW name
      PROVE  FileBytes(name)' = FileBytes(name)
  <2>1. FileBytes(name) = BytesIn(project, name)[Len(project.listing)]
    BY DEF FileBytes, BytesUpTo, BytesIn
  <2>2. FileBytes(name)' = BytesIn(project', name)[Len(project'.listing)]
    BY DEF FileBytes, BytesUpTo, BytesIn
  <2>3. QED
    BY <2>1, <2>2
<1>5. ASSUME NEW name
      PROVE  Loadable(name)' = Loadable(name)
  BY <1>3 DEF Loadable
<1>6. IsOpen' = IsOpen
  BY DEF IsOpen, IsProject, Metadata
<1>7. \A name : Chip(name)' = Chip(name) /\ Size(name)' = Size(name)
  BY DEF Chip, Size
<1>8. QED
  BY <1>1, <1>2, <1>3, <1>4, <1>5, <1>6, <1>7

-----------------------------------------------------------------------------
(* The invariant.                                                          *)

Good(name) == project.file[name].state = "good" /\ Size(name) <= MaxFileBytes

\* The files that were counted: those in use, and those that did not parse.
Counted == chips \cup {name \in DOMAIN failures : failures[name] = "parse"}

Files ==
  /\ chips \subseteq Listed /\ DOMAIN failures \subseteq Listed \ chips
  /\ \A name \in chips : Good(name)
  /\ \A name \in DOMAIN failures :
       /\ failures[name] \in {"io", "limit", "parse"}
       /\ Good(name) => FileBytes(Listed) > MaxProjectBytes
  /\ sourceBytes = FileBytes(Counted) /\ sourceBytes <= MaxProjectBytes

\* The heights are ranks, and exact.
Ranks ==
  \A name \in DOMAIN heights :
    /\ name \in chips /\ heights[name] \in 1..MaxDepth
    /\ \A d \in Dependencies(name) : d \in DOMAIN heights /\ heights[d] < heights[name]
    /\ heights[name] = 1 \/ \E d \in Dependencies(name) : heights[d] = heights[name] - 1

\* The call that frame i waits for.
Awaits(i, name) ==
  \/ i < Len(stack) /\ stack[i + 1].chip = name
  \/ i = Len(stack) /\ call = <<name>>

\* What frame i has come past is known to be lower, or waited for.
Passed(i) ==
  \A k \in 1..stack[i].at - 1 :
    LET sub == Chip(stack[i].chip).subs[k] IN
    k <= Len(Chip(stack[i].chip).subs) /\ IsDependency(sub) =>
      \/ sub.name.text \in DOMAIN heights /\ heights[sub.name.text] < stack[i].height
      \/ Awaits(i, sub.name.text)

\* Its height is that of what it has come past.
Reached(i) ==
  \/ stack[i].height = 1
  \/ \E d \in Dependencies(stack[i].chip) :
       d \in DOMAIN heights /\ heights[d] = stack[i].height - 1

Frames ==
  /\ stack \in Seq([chip : Listed, at : Nat \ {0}, height : Nat \ {0}])
  /\ \A i \in 1..Len(stack) :
       /\ stack[i].chip \in chips \ DOMAIN heights
       /\ \A j \in 1..Len(stack) : stack[j].chip = stack[i].chip => j = i
       /\ i + stack[i].height - 1 <= MaxDepth
       /\ Passed(i) /\ Reached(i)
       /\ \A name : Awaits(i, name) => name \in Dependencies(stack[i].chip)

\* The calls under way are a chain of references from the unit.
Chains ==
  \A unit : asked = <<unit>> =>
    /\ unit \in Listed
    /\ \A i \in 1..Len(stack) : stack[i].chip \in ChainEnds(unit)[i - 1]
    /\ \A name : call = <<name>> => name \in ChainEnds(unit)[Len(stack)]

Refuted(unit) == ~Loadable(unit) \/ FileBytes(Listed) > MaxProjectBytes

Outcomes ==
  /\ call = <<>> \/ \E name \in Listed : call = <<name>>
  /\ asked = <<>> \/ \E unit \in Listed : asked = <<unit>>
  /\ loaded = "busy" => asked # <<>>
  /\ loaded # "busy" => call = <<>> /\ stack = <<>>
  /\ \A unit : asked = <<unit>> =>
       /\ loaded = "ok" => unit \in DOMAIN heights
       /\ loaded \notin {"busy", "ok"} => Refuted(unit)

LoaderInv == IsOpen /\ Files /\ Ranks /\ Frames /\ Chains /\ Outcomes

-----------------------------------------------------------------------------
(* Chains of references.                                                   *)

LEMMA EndsStep ==
  ASSUME NEW unit \in Listed, NEW n \in 0..MaxDepth - 1, NEW m \in ChainEnds(unit)[n],
         project.file[m].state = "good", NEW d \in Dependencies(m)
  PROVE  d \in ChainEnds(unit)[n + 1]
<1>1. n + 1 \in 1..MaxDepth /\ (n + 1) - 1 = n
  BY DlsLoaderAssumption
<1>2. ChainEnds(unit)[n + 1] =
        UNION {Dependencies(x) : x \in {e \in ChainEnds(unit)[n] :
                                           project.file[e].state = "good"}}
  BY <1>1, EndsDefined
<1>3. QED
  BY <1>2

\* From a ranked chip, every chain ends above rank zero, so none has MaxDepth
\* references, and the files on it were read.
LEMMA RankedLoads ==
  ASSUME Files, Ranks, NEW unit \in DOMAIN heights
  PROVE  Loadable(unit)
<1>1. unit \in Listed /\ MaxDepth \in Nat
  BY DlsLoaderAssumption DEF Files, Ranks
<1> DEFINE ends == ChainEnds(unit)
           T == {n \in 0..MaxDepth : \A e \in ends[n] :
                   e \in DOMAIN heights /\ heights[e] + n <= heights[unit]}
<1>2. /\ ends[0] = {unit}
      /\ \A n \in 1..MaxDepth :
           ends[n] = UNION {Dependencies(m) :
                              m \in {e \in ends[n - 1] : project.file[e].state = "good"}}
  BY <1>1, EndsDefined
<1> HIDE DEF ends
<1>3. 0 \in T
  BY <1>1, <1>2 DEF Ranks
<1>4. ASSUME NEW n \in 1..MaxDepth, n - 1 \in T
      PROVE  n \in T
  <2>1. ASSUME NEW e \in ends[n]
        PROVE  e \in DOMAIN heights /\ heights[e] + n <= heights[unit]
    <3>1. PICK m \in ends[n - 1] : e \in Dependencies(m)
      BY <1>2, <2>1
    <3>2. m \in DOMAIN heights /\ heights[m] + (n - 1) <= heights[unit]
      BY <1>4, <3>1
    <3>3. e \in DOMAIN heights /\ heights[e] < heights[m]
      BY <3>1, <3>2 DEF Ranks
    <3>4. heights[e] \in Int /\ heights[m] \in Int /\ heights[unit] \in Int
      BY <3>2, <3>3 DEF Ranks
    <3>5. QED
      BY <1>1, <3>2, <3>3, <3>4
  <2>2. QED
    BY <1>1, <2>1
<1>5. \A n \in 0..MaxDepth : n \in T
  <2> HIDE DEF T
  <2>1. QED
    BY <1>1, <1>3, <1>4, Induction
<1>6. ends[MaxDepth] = {}
  <2>1. ASSUME NEW e \in ends[MaxDepth]
        PROVE  FALSE
    <3>1. e \in DOMAIN heights /\ heights[e] + MaxDepth <= heights[unit]
      BY <1>1, <1>5
    <3>2. heights[e] \in 1..MaxDepth /\ heights[unit] \in 1..MaxDepth
      BY <3>1 DEF Ranks
    <3>3. QED
      BY <1>1, <3>1, <3>2
  <2>2. QED
    BY <2>1
<1>7. \A n \in 0..MaxDepth : \A e \in ends[n] : Good(e)
  BY <1>5 DEF Ranks, Files
<1>8. QED
  BY <1>6, <1>7 DEF Loadable, ends, Good, Size

\* A ranked chip at the end of a chain goes on for as long as its height says.
LEMMA TooDeepRefutes ==
  ASSUME Files, Ranks, NEW unit \in Listed, NEW n \in 0..MaxDepth,
         NEW name \in ChainEnds(unit)[n], name \in DOMAIN heights,
         n + heights[name] > MaxDepth
  PROVE  ~Loadable(unit)
<1> DEFINE left == MaxDepth - n
           T == {k \in 0..left : \E e \in ChainEnds(unit)[n + k] :
                   e \in DOMAIN heights /\ heights[e] >= heights[name] - k}
<1>1. MaxDepth \in Nat /\ n \in Nat /\ left \in Nat /\ heights[name] \in 1..MaxDepth
  BY DlsLoaderAssumption DEF Ranks
<1>2. 0 \in T
  BY <1>1
<1>3. ASSUME NEW k \in 1..left, k - 1 \in T
      PROVE  k \in T
  <2>1. PICK e \in ChainEnds(unit)[n + (k - 1)] :
          e \in DOMAIN heights /\ heights[e] >= heights[name] - (k - 1)
    BY <1>3
  <2>2. heights[e] \in 1..MaxDepth /\ heights[name] - (k - 1) > 1
    BY <1>1, <2>1 DEF Ranks
  <2>3. PICK d \in Dependencies(e) : d \in DOMAIN heights /\ heights[d] = heights[e] - 1
    BY <1>1, <2>1, <2>2 DEF Ranks
  <2>4. n + (k - 1) \in 0..MaxDepth - 1 /\ (n + (k - 1)) + 1 = n + k
    BY <1>1
  <2>5. project.file[e].state = "good"
    BY <2>1 DEF Ranks, Files, Good
  <2>6. d \in ChainEnds(unit)[n + k]
    BY <2>4, <2>5, EndsStep
  <2>7. heights[d] >= heights[name] - k
    BY <1>1, <2>1, <2>2, <2>3
  <2>8. QED
    BY <1>1, <2>3, <2>6, <2>7
<1>4. \A k \in 0..left : k \in T
  <2> HIDE DEF T, left
  <2>1. QED
    BY <1>1, <1>2, <1>3, Induction
<1>5. left \in 0..left /\ n + left = MaxDepth
  BY <1>1
<1>6. ChainEnds(unit)[MaxDepth] # {}
  BY <1>4, <1>5
<1>7. QED
  BY <1>6 DEF Loadable

\* Round a cycle, a chain has any length.
LEMMA CycleRefutes ==
  ASSUME IsOpen, Files, Frames, NEW unit \in Listed, asked = <<unit>>, Chains,
         NEW name, call = <<name>>, NEW first \in 1..Len(stack), stack[first].chip = name
  PROVE  ~Loadable(unit)
<1> DEFINE T == {k \in 0..MaxDepth : \E i \in 1..Len(stack) :
                   stack[i].chip \in ChainEnds(unit)[k]}
<1>1. MaxDepth \in Nat /\ Len(stack) \in Nat
  BY DlsLoaderAssumption DEF Frames
<1>2. 0 \in T
  BY <1>1 DEF Chains
<1>3. ASSUME NEW k \in 1..MaxDepth, k - 1 \in T
      PROVE  k \in T
  <2>1. PICK i \in 1..Len(stack) : stack[i].chip \in ChainEnds(unit)[k - 1]
    BY <1>3
  <2>2. PICK j \in 1..Len(stack) : stack[j].chip \in Dependencies(stack[i].chip)
    <3>1. CASE i < Len(stack)
      <4>1. i + 1 \in 1..Len(stack) /\ Awaits(i, stack[i + 1].chip)
        BY <1>1, <3>1 DEF Awaits
      <4>2. stack[i + 1].chip \in Dependencies(stack[i].chip)
        BY <4>1 DEF Frames
      <4>3. QED
        BY <4>1, <4>2
    <3>2. CASE i = Len(stack)
      BY <3>2 DEF Frames, Awaits
    <3>3. QED
      BY <1>1, <3>1, <3>2
  <2>3. project.file[stack[i].chip].state = "good"
    BY DEF Frames, Files, Good
  <2>4. k - 1 \in 0..MaxDepth - 1 /\ (k - 1) + 1 = k
    BY <1>1
  <2>5. stack[j].chip \in ChainEnds(unit)[k]
    BY <2>1, <2>2, <2>3, <2>4, EndsStep
  <2>6. QED
    BY <1>1, <2>5
<1>4. \A k \in 0..MaxDepth : k \in T
  <2> HIDE DEF T
  <2>1. QED
    BY <1>1, <1>2, <1>3, Induction
<1>5. ChainEnds(unit)[MaxDepth] # {}
  BY <1>1, <1>4
<1>6. QED
  BY <1>5 DEF Loadable

-----------------------------------------------------------------------------
(* The steps.                                                              *)

LEMMA Singles ==
  /\ ToSet(<<>>) = {}
  /\ \A x : ToSet(<<x>>) = {x}
BY DEF ToSet

LEMMA LoaderStarts ==
  ASSUME IsProject(project), Metadata = "ok", LoaderInit(project)
  PROVE  LoaderInv
<1>1. IsOpen
  BY DEF IsOpen
<1>2. Files
  <2>1. Counted = {}
    BY DEF LoaderInit, Counted
  <2>2. FileBytes({}) = 0
    BY <1>1, BytesGrow
  <2>3. QED
    BY <2>1, <2>2, DlsLoaderAssumption DEF LoaderInit, Files
<1>3. Ranks /\ Frames
  BY DEF LoaderInit, Ranks, Frames
<1>4. Chains /\ Outcomes
  BY DEF LoaderInit, Chains, Outcomes
<1>5. QED
  BY <1>1, <1>2, <1>3, <1>4 DEF LoaderInv

\* A unit is asked for.
LEMMA AskForKept ==
  ASSUME LoaderInv, NEW unit \in Listed, AskFor(unit)
  PROVE  LoaderInv'
<1>1. /\ project' = project /\ UNCHANGED files /\ heights' = heights
      /\ loaded' = "busy" /\ call' = <<unit>> /\ stack' = <<>> /\ asked' = <<unit>>
  BY DEF AskFor
<1>2. chips' = chips /\ failures' = failures /\ sourceBytes' = sourceBytes
  BY <1>1 DEF files
<1>3. IsOpen' /\ Files' /\ Ranks'
  BY <1>1, <1>2, ProjectStays DEF LoaderInv, Files, Good, Counted, Ranks
<1>4. Frames'
  BY <1>1 DEF Frames
<1>5. Chains'
  <2>1. Len(stack') = 0
    BY <1>1
  <2>2. unit \in ChainEnds(unit)[0]
    BY EndsDefined
  <2>3. QED
    BY <1>1, <2>1, <2>2, ProjectStays DEF Chains
<1>6. Outcomes'
  BY <1>1, ProjectStays DEF Outcomes
<1>7. QED
  BY <1>3, <1>4, <1>5, <1>6 DEF LoaderInv

\* Every way to fail is a reason why the unit is not loadable.
LEMMA FailureKept ==
  ASSUME LoaderInv, NEW how \in {"depth", "cycle", "io", "limit", "parse"}, Fail(how),
         project' = project, heights' = heights, asked' = asked, Files', chips \subseteq chips',
         \A unit \in Listed : asked = <<unit>> => Refuted(unit)
  PROVE  LoaderInv'
<1>1. loaded' = how /\ call' = <<>> /\ stack' = <<>>
  BY DEF Fail
<1>2. IsOpen'
  BY ProjectStays DEF LoaderInv
<1>3. Ranks'
  BY ProjectStays DEF LoaderInv, Ranks
<1>4. Frames'
  BY <1>1 DEF Frames
<1>5. Chains'
  BY <1>1, ProjectStays DEF LoaderInv, Chains
<1>6. Outcomes'
  <2>1. \A unit : Refuted(unit)' = Refuted(unit)
    BY ProjectStays DEF Refuted
  <2>2. QED
    BY <1>1, <2>1, ProjectStays DEF LoaderInv, Outcomes
<1>7. QED
  BY <1>2, <1>3, <1>4, <1>5, <1>6 DEF LoaderInv

\* The frames of `stack`.
Framing == [chip : Listed, at : Nat \ {0}, height : Nat \ {0}]

LEMMA DepthHolds ==
  ASSUME Frames
  PROVE  Len(stack) \in 0..MaxDepth /\ Len(stack) \in Nat
<1>1. Len(stack) \in Nat /\ MaxDepth \in Nat
  BY DlsLoaderAssumption DEF Frames
<1>2. CASE Len(stack) = 0
  BY <1>1, <1>2
<1>3. CASE Len(stack) > 0
  <2>1. Len(stack) \in 1..Len(stack)
    BY <1>1, <1>3
  <2>2. stack[Len(stack)].height \in Nat \ {0}
    <3>1. stack \in Seq(Framing)
      BY DEF Frames, Framing
    <3>2. stack[Len(stack)] \in Framing
      BY <2>1, <3>1
    <3>3. QED
      BY <3>2 DEF Framing
  <2>3. \A i \in 1..Len(stack) : i + stack[i].height - 1 <= MaxDepth
    BY DEF Frames
  <2>4. QED
    BY <1>1, <2>1, <2>2, <2>3
<1>4. QED
  BY <1>1, <1>2, <1>3

LEMMA Called ==
  ASSUME LoaderInv, NEW name \in ToSet(call)
  PROVE  /\ call = <<name>> /\ name \in Listed /\ loaded = "busy"
         /\ \E unit \in Listed : asked = <<unit>> /\ name \in ChainEnds(unit)[Len(stack)]
<1>1. PICK n \in Listed : call = <<n>>
  BY Singles DEF LoaderInv, Outcomes
<1>2. n = name
  BY <1>1, Singles
<1>3. loaded = "busy"
  BY <1>1 DEF LoaderInv, Outcomes
<1>4. PICK unit \in Listed : asked = <<unit>>
  BY <1>3 DEF LoaderInv, Outcomes
<1>5. QED
  BY <1>1, <1>2, <1>3, <1>4 DEF LoaderInv, Chains

LEMMA TooDeepKept ==
  ASSUME LoaderInv, TooDeep
  PROVE  LoaderInv'
<1>1. PICK name \in ToSet(call) :
        /\ Deepest(name) > MaxDepth /\ Fail("depth")
        /\ project' = project /\ UNCHANGED files /\ heights' = heights /\ asked' = asked
  BY DEF TooDeep
<1>2. Len(stack) \in 0..MaxDepth /\ MaxDepth \in Nat
  BY DepthHolds, DlsLoaderAssumption DEF LoaderInv
<1>3. ASSUME NEW unit \in Listed, asked = <<unit>>
      PROVE  ~Loadable(unit)
  <2>1. name \in ChainEnds(unit)[Len(stack)]
    BY <1>3, Called
  <2>2. CASE name \in DOMAIN heights
    BY <1>1, <1>2, <2>1, <2>2, TooDeepRefutes DEF LoaderInv, Deepest
  <2>3. CASE name \notin DOMAIN heights
    <3>1. Len(stack) = MaxDepth
      BY <1>1, <1>2, <2>3 DEF Deepest
    <3>2. QED
      BY <2>1, <3>1 DEF Loadable
  <2>4. QED
    BY <2>2, <2>3
<1>4. Files' /\ chips \subseteq chips'
  BY <1>1, ProjectStays DEF LoaderInv, files, Files, Good, Counted
<1>5. QED
  BY <1>1, <1>3, <1>4, FailureKept DEF Refuted

LEMMA CyclicKept ==
  ASSUME LoaderInv, Cyclic
  PROVE  LoaderInv'
<1>1. PICK name \in ToSet(call) :
        /\ \E i \in DOMAIN stack : stack[i].chip = name
        /\ Fail("cycle")
        /\ project' = project /\ UNCHANGED files /\ heights' = heights /\ asked' = asked
  BY DEF Cyclic
<1>2. PICK first \in 1..Len(stack) : stack[first].chip = name
  BY <1>1 DEF LoaderInv, Frames
<1>3. ASSUME NEW unit \in Listed, asked = <<unit>>
      PROVE  ~Loadable(unit)
  <2>1. call = <<name>>
    BY Called
  <2>2. QED
    BY <1>2, <1>3, <2>1, CycleRefutes DEF LoaderInv
<1>4. Files' /\ chips \subseteq chips'
  BY <1>1, ProjectStays DEF LoaderInv, files, Files, Good, Counted
<1>5. QED
  BY <1>1, <1>3, <1>4, FailureKept DEF Refuted

\* A file is read, or was before; what fails is no fault of what was read before.
LEMMA ReadingIsRight ==
  ASSUME IsOpen, Files, NEW name \in Listed \ (chips \cup DOMAIN failures)
  PROVE  /\ Reading(name) \in {"ok", "io", "limit", "parse"}
         /\ Reading(name) = "ok" => Good(name)
         /\ Reading(name) \in {"ok", "parse"} => sourceBytes + Size(name) <= MaxProjectBytes
         /\ Reading(name) # "ok" /\ Good(name) => FileBytes(Listed) > MaxProjectBytes
<1>1. /\ project.file[name].state \in {"missing", "binary", "malformed", "good"}
      /\ Size(name) \in Nat
  BY DEF IsOpen, IsProject, Listed, Size
<1>2. sourceBytes \in Nat /\ MaxFileBytes \in Nat /\ MaxProjectBytes \in Nat
  BY BytesGrow, DlsLoaderAssumption DEF Files
<1> DEFINE most == Lesser(MaxFileBytes, MaxProjectBytes - sourceBytes)
<1>3. /\ most <= MaxFileBytes /\ most <= MaxProjectBytes - sourceBytes /\ most \in Int
      /\ most = MaxFileBytes \/ most = MaxProjectBytes - sourceBytes
  BY <1>2 DEF Lesser
<1> HIDE DEF most
<1>4. Reading(name) =
        CASE project.file[name].state = "missing" -> "io"
          [] project.file[name].state # "missing" /\ Size(name) > most -> "limit"
          [] project.file[name].state = "binary" /\ Size(name) <= most -> "io"
          [] project.file[name].state = "malformed" /\ Size(name) <= most -> "parse"
          [] OTHER -> "ok"
  BY DEF Reading, Size, most
<1>5. Reading(name) \in {"ok", "io", "limit", "parse"}
  BY <1>4
<1>6. Reading(name) = "ok" => project.file[name].state = "good" /\ Size(name) <= most
  BY <1>1, <1>3, <1>4
<1>7. Reading(name) \in {"ok", "parse"} => Size(name) <= most
  BY <1>1, <1>3, <1>4
<1>8. ASSUME Reading(name) # "ok", Good(name)
      PROVE  FileBytes(Listed) > MaxProjectBytes
  <2>1. Size(name) > most /\ Size(name) <= MaxFileBytes
    BY <1>1, <1>3, <1>4, <1>8 DEF Good
  <2>2. sourceBytes + Size(name) > MaxProjectBytes
    BY <1>1, <1>2, <1>3, <2>1
  <2>3. name \notin Counted /\ Counted \cup {name} \subseteq Listed
    BY DEF Counted, Files
  <2>4. FileBytes(Counted \cup {name}) = sourceBytes + Size(name)
    BY <2>3, BytesAdd DEF Files
  <2>5. FileBytes(Counted \cup {name}) <= FileBytes(Listed) /\ FileBytes(Listed) \in Nat
    BY <2>3, BytesGrow
  <2>6. QED
    BY <1>1, <1>2, <2>2, <2>4, <2>5
<1>9. QED
  BY <1>1, <1>2, <1>3, <1>5, <1>6, <1>7, <1>8 DEF Good

LEMMA LoadChipKept ==
  ASSUME IsOpen, Files, project' = project,
         NEW name \in Listed, NEW result \in {"ok", "io", "limit", "parse"},
         LoadChip(name, result)
  PROVE  /\ Files' /\ chips \subseteq chips'
         /\ result = "ok" => name \in chips'
         /\ result # "ok" /\ Good(name) => FileBytes(Listed) > MaxProjectBytes
<1>1. CASE name \in chips \cup DOMAIN failures
  <2>1. UNCHANGED files
    BY <1>1 DEF LoadChip, Reads
  <2>2. Files'
    BY <2>1, ProjectStays DEF files, Files, Good, Counted
  <2>3. \/ name \in chips /\ result = "ok"
        \/ name \in DOMAIN failures /\ result = failures[name]
    BY <1>1 DEF LoadChip, Reads
  <2>4. QED
    BY <2>1, <2>2, <2>3 DEF files, Files
<1>2. CASE name \notin chips \cup DOMAIN failures
  <2>1. Reads(name, result) /\ result = Reading(name)
    BY <1>2 DEF LoadChip, Reads
  <2>2. /\ result = "ok" => Good(name)
        /\ result \in {"ok", "parse"} => sourceBytes + Size(name) <= MaxProjectBytes
        /\ result # "ok" /\ Good(name) => FileBytes(Listed) > MaxProjectBytes
    BY <1>2, <2>1, ReadingIsRight
  <2>3. sourceBytes' = IF result \in {"ok", "parse"} THEN sourceBytes + Size(name)
                       ELSE sourceBytes
    BY <2>1 DEF Reads, Size
  <2>4. name \notin Counted
    BY <1>2 DEF Counted
  <2>5. FileBytes(Counted \cup {name}) = sourceBytes + Size(name)
    BY <2>4, BytesAdd DEF Files
  <2>6. \A n : /\ Good(n)' = Good(n) /\ FileBytes(n)' = FileBytes(n)
    BY ProjectStays DEF Good
  <2>7. Listed' = Listed
    BY ProjectStays
  <2>8. CASE result = "ok"
    <3>1. chips' = chips \cup {name} /\ failures' = failures
      BY <2>1, <2>8 DEF Reads
    <3>2. Counted' = Counted \cup {name}
      BY <3>1 DEF Counted
    <3>3. sourceBytes' = FileBytes(Counted')
      BY <2>3, <2>5, <2>8, <3>2
    <3>4. FileBytes(Counted)' = FileBytes(Counted')
      BY <2>6 DEF FileBytes, BytesUpTo
    <3>5. QED
      BY <1>2, <2>2, <2>3, <2>6, <2>7, <2>8, <3>1, <3>3, <3>4 DEF Files
  <2>9. CASE result # "ok"
    <3>1. /\ chips' = chips /\ DOMAIN failures' = DOMAIN failures \cup {name}
          /\ failures'[name] = result
          /\ \A n \in DOMAIN failures : failures'[n] = failures[n]
      BY <1>2, <2>1, <2>9 DEF Reads
    <3>2. Counted' = IF result = "parse" THEN Counted \cup {name} ELSE Counted
      BY <1>2, <3>1 DEF Counted
    <3>3. sourceBytes' = FileBytes(Counted')
      BY <2>3, <2>5, <2>9, <3>2 DEF Files
    <3>4. FileBytes(Counted)' = FileBytes(Counted')
      BY <2>6 DEF FileBytes, BytesUpTo
    <3>5. sourceBytes' <= MaxProjectBytes
      BY <2>2, <2>3 DEF Files
    <3>6. QED
      BY <1>2, <2>2, <2>6, <2>7, <2>9, <3>1, <3>3, <3>4, <3>5 DEF Files
  <2>10. QED
    BY <2>2, <2>8, <2>9
<1>3. QED
  BY <1>1, <1>2

LEMMA OpenKept ==
  ASSUME LoaderInv, Open
  PROVE  LoaderInv'
<1>1. PICK name \in ToSet(call) \ DOMAIN heights, result \in {"ok", "io", "limit", "parse"} :
        /\ Deepest(name) <= MaxDepth
        /\ \A i \in DOMAIN stack : stack[i].chip # name
        /\ LoadChip(name, result)
        /\ IF result = "ok"
           THEN /\ stack' = Append(stack, [chip |-> name, at |-> 1, height |-> 1])
                /\ call' = <<>> /\ loaded' = loaded
           ELSE Fail(result)
        /\ project' = project /\ heights' = heights /\ asked' = asked
  BY DEF Open
<1>2. /\ call = <<name>> /\ name \in Listed /\ loaded = "busy"
      /\ \E unit \in Listed : asked = <<unit>> /\ name \in ChainEnds(unit)[Len(stack)]
  BY Called
<1>3. /\ Files' /\ chips \subseteq chips' /\ (result = "ok" => name \in chips')
      /\ result # "ok" /\ Good(name) => FileBytes(Listed) > MaxProjectBytes
  BY <1>1, <1>2, LoadChipKept DEF LoaderInv
<1>4. Len(stack) \in 0..MaxDepth /\ Len(stack) \in Nat /\ MaxDepth \in Nat
  BY DepthHolds, DlsLoaderAssumption DEF LoaderInv
<1>5. CASE result # "ok"
  <2>1. ASSUME NEW unit \in Listed, asked = <<unit>>
        PROVE  Refuted(unit)
    <3>1. name \in ChainEnds(unit)[Len(stack)]
      BY <1>2, <2>1
    <3>2. ~Good(name) => ~Loadable(unit)
      BY <1>4, <3>1 DEF Loadable, Good, Size
    <3>3. QED
      BY <1>3, <1>5, <3>2 DEF Refuted
  <2>2. QED
    BY <1>1, <1>3, <1>5, <2>1, FailureKept
<1>6. CASE result = "ok"
  <2> DEFINE frame == [chip |-> name, at |-> 1, height |-> 1]
  <2>1. PICK n \in Nat : n = Len(stack)
    BY <1>4
  <2>2. stack \in Seq(Framing) /\ frame \in Framing
    BY <1>2 DEF LoaderInv, Frames, Framing
  <2>3. stack' = Append(stack, frame) /\ call' = <<>> /\ loaded' = "busy"
    BY <1>1, <1>2, <1>6
  <2>4. /\ Len(stack') = n + 1 /\ stack' \in Seq(Framing) /\ stack'[n + 1] = frame
        /\ \A i \in 1..n : stack'[i] = stack[i]
    BY <2>1, <2>2, <2>3
  <2>5. IsOpen' /\ Ranks'
    BY <1>1, <1>3, ProjectStays DEF LoaderInv, Ranks
  <2>6. Chains'
    <3>1. ASSUME NEW unit, asked' = <<unit>>
          PROVE  /\ unit \in Listed
                 /\ \A i \in 1..n + 1 : stack'[i].chip \in ChainEnds(unit)[i - 1]
      <4>1. unit \in Listed /\ name \in ChainEnds(unit)[n]
        BY <1>1, <1>2, <2>1, <3>1
      <4>2. \A i \in 1..n : stack'[i].chip \in ChainEnds(unit)[i - 1]
        BY <1>1, <2>1, <2>4, <3>1 DEF LoaderInv, Chains
      <4>3. stack'[n + 1].chip = name /\ (n + 1) - 1 = n
        BY <1>4, <2>4
      <4>4. QED
        <5>1. \A i \in 1..n + 1 : i = n + 1 \/ i \in 1..n
          OBVIOUS
        <5>2. QED
          BY <4>1, <4>2, <4>3, <5>1
    <3>2. QED
      BY <1>1, <2>3, <2>4, <3>1, ProjectStays DEF Chains
  <2>7. Outcomes'
    BY <1>1, <1>2, <2>3, ProjectStays DEF LoaderInv, Outcomes
  <2>8. Frames'
    <3>1. stack' \in Seq([chip : Listed', at : Nat \ {0}, height : Nat \ {0}])
      BY <1>1, <2>4, ProjectStays DEF Framing
    <3>2. ASSUME NEW i \in 1..n + 1
          PROVE  /\ stack'[i].chip \in chips' \ DOMAIN heights
                 /\ \A j \in 1..n + 1 : stack'[j].chip = stack'[i].chip => j = i
                 /\ i + stack'[i].height - 1 <= MaxDepth
      <4>1. \A j \in 1..n : stack[j].chip # name
        BY <1>1, <2>1, <2>2
      <4>2. CASE i = n + 1
        <5>1. stack'[i].chip = name /\ stack'[i].height = 1
          BY <2>4, <4>2
        <5>2. n + 1 <= MaxDepth
          BY <1>1, <2>1 DEF Deepest
        <5>3. QED
          BY <1>1, <1>3, <1>4, <1>6, <2>4, <4>1, <4>2, <5>1, <5>2
      <4>3. CASE i # n + 1
        <5>1. i \in 1..n /\ stack'[i] = stack[i]
          BY <1>4, <2>4, <4>3
        <5>2. /\ stack[i].chip \in chips \ DOMAIN heights
              /\ \A j \in 1..n : stack[j].chip = stack[i].chip => j = i
              /\ i + stack[i].height - 1 <= MaxDepth
          BY <2>1, <5>1 DEF LoaderInv, Frames
        <5>3. stack'[n + 1].chip = name
          BY <2>4
        <5>4. QED
          BY <1>3, <1>4, <2>4, <4>1, <5>1, <5>2, <5>3
      <4>4. QED
        BY <4>2, <4>3
    <3>3. ASSUME NEW i \in 1..n
          PROVE  \A x : Awaits(i, x)' <=> Awaits(i, x)
      <4>1. CASE i = n
        <5>1. \A x : Awaits(i, x) <=> x = name
          BY <1>2, <1>4, <2>1, <4>1 DEF Awaits
        <5>2. \A x : Awaits(i, x)' <=> x = name
          BY <1>4, <2>4, <4>1 DEF Awaits
        <5>3. QED
          BY <5>1, <5>2
      <4>2. CASE i # n
        <5>1. i + 1 \in 1..n
          BY <1>4, <4>2
        <5>2. QED
          BY <1>4, <2>1, <2>4, <4>2, <5>1 DEF Awaits
      <4>3. QED
        BY <4>1, <4>2
    <3>4. ASSUME NEW x
          PROVE  ~Awaits(n + 1, x)'
      BY <1>4, <2>3, <2>4 DEF Awaits
    <3>5. ASSUME NEW i \in 1..n
          PROVE  /\ Passed(i)' /\ Reached(i)'
                 /\ \A x : Awaits(i, x)' => x \in Dependencies(stack'[i].chip)
      <4>1. /\ Passed(i) /\ Reached(i)
            /\ \A x : Awaits(i, x) => x \in Dependencies(stack[i].chip)
        BY <2>1 DEF LoaderInv, Frames
      <4>2. stack'[i] = stack[i]
        BY <2>4
      <4>3. Passed(i)'
        BY <1>1, <3>3, <4>1, <4>2, ProjectStays DEF Passed, IsDependency
      <4>4. Reached(i)'
        BY <1>1, <4>1, <4>2, ProjectStays DEF Reached
      <4>5. QED
        BY <3>3, <4>1, <4>2, <4>3, <4>4
    <3>6. Passed(n + 1)' /\ Reached(n + 1)'
      <4>1. stack'[n + 1].at = 1 /\ stack'[n + 1].height = 1
        BY <2>4
      <4>2. QED
        BY <4>1 DEF Passed, Reached
    <3>7. \A i \in 1..n + 1 : i = n + 1 \/ i \in 1..n
      BY <1>4
    <3>8. \A i \in 1..n + 1 :
            /\ Passed(i)' /\ Reached(i)'
            /\ \A x : Awaits(i, x)' => x \in Dependencies(stack'[i].chip)
      BY <3>4, <3>5, <3>6, <3>7
    <3>9. QED
      BY <1>1, <2>4, <3>1, <3>2, <3>8, ProjectStays DEF Frames
  <2>9. QED
    BY <1>3, <2>5, <2>6, <2>7, <2>8 DEF LoaderInv
<1>7. QED
  BY <1>5, <1>6

LEMMA NoFrames ==
  ASSUME NEW S, NEW s \in Seq(S)
  PROVE  s = <<>> <=> Len(s) = 0
OBVIOUS

\* A call for `name` returns to the last of `calls`: what it waited for is ranked.
LEMMA ReturnKept ==
  ASSUME LoaderInv, NEW calls \in Seq(Framing), NEW name, NEW height \in Nat \ {0},
         Return(calls, height),
         project' = project, chips' = chips, Files', Ranks', asked' = asked, loaded = "busy",
         Len(calls) <= Len(stack), \A i \in 1..Len(calls) : calls[i] = stack[i],
         Awaits(Len(calls), name), \A i \in 1..Len(calls) : calls[i].chip # name,
         DOMAIN heights' = DOMAIN heights \cup {name}, heights'[name] = height,
         \A other \in DOMAIN heights : heights'[other] = heights[other],
         Len(calls) + height <= MaxDepth,
         calls = <<>> => \A unit : asked = <<unit>> => unit = name
  PROVE  LoaderInv'
<1>1. PICK n \in Nat : n = Len(calls)
  OBVIOUS
<1>2. Len(stack) \in Nat /\ MaxDepth \in Nat
  BY DepthHolds, DlsLoaderAssumption DEF LoaderInv
<1>3. IsOpen'
  BY ProjectStays DEF LoaderInv
<1>4. CASE n = 0
  <2>1. calls = <<>> /\ call' = <<>> /\ stack' = <<>> /\ loaded' = "ok"
    <3>1. calls = <<>>
      BY <1>1, <1>4, NoFrames
    <3>2. QED
      BY <3>1 DEF Return
  <2>2. Frames'
    BY <2>1 DEF Frames
  <2>3. Chains'
    BY <2>1, ProjectStays DEF LoaderInv, Chains
  <2>4. Outcomes'
    BY <2>1, ProjectStays DEF LoaderInv, Outcomes
  <2>5. QED
    BY <1>3, <2>2, <2>3, <2>4 DEF LoaderInv
<1>5. CASE n # 0
  <2>1. n \in 1..n /\ calls # <<>> /\ calls[n] \in Framing
    BY <1>1, <1>5
  <2> DEFINE top == [calls[n] EXCEPT !.height = Larger(@, height + 1)]
  <2>2. stack' = [calls EXCEPT ![n] = top] /\ call' = <<>> /\ loaded' = "busy"
    BY <1>1, <2>1 DEF Return
  <2>3. /\ top.chip = calls[n].chip /\ top.at = calls[n].at
        /\ top.height = Larger(calls[n].height, height + 1) /\ top \in Framing
    <3> DEFINE h == Larger(calls[n].height, height + 1)
    <3>1. h \in Nat \ {0}
      BY <2>1 DEF Framing, Larger
    <3>2. top = [calls[n] EXCEPT !.height = h]
      OBVIOUS
    <3> HIDE DEF h, top
    <3>3. /\ top.chip = calls[n].chip /\ top.at = calls[n].at
          /\ top.height = h /\ top \in Framing
      BY <2>1, <3>1, <3>2 DEF Framing
    <3>4. QED
      BY <3>3 DEF h
  <2> HIDE DEF top
  <2>4. /\ Len(stack') = n /\ stack' \in Seq(Framing)
        /\ stack'[n] = top /\ \A i \in 1..n : i # n => stack'[i] = calls[i]
    BY <1>1, <2>1, <2>2, <2>3
  <2>5. /\ \A i \in 1..n : i # n => stack'[i] = stack[i]
        /\ \A i \in 1..n : stack'[i].chip = stack[i].chip /\ stack'[i].at = stack[i].at
        /\ stack'[n].height = Larger(stack[n].height, height + 1)
    BY <1>1, <2>1, <2>3, <2>4
  <2>6. n \in 1..Len(stack) /\ \A i \in 1..n : i \in 1..Len(stack)
    BY <1>1, <1>2, <2>1
  <2>7. Chains'
    BY <2>2, <2>4, <2>5, <2>6, ProjectStays DEF LoaderInv, Chains
  <2>8. Outcomes'
    BY <2>2, ProjectStays DEF LoaderInv, Outcomes
  <2>9. Frames'
    <3>1. stack' \in Seq([chip : Listed', at : Nat \ {0}, height : Nat \ {0}])
      BY <2>4, ProjectStays DEF Framing
    <3>2. ASSUME NEW i \in 1..n
          PROVE  /\ stack'[i].chip \in chips' \ DOMAIN heights'
                 /\ \A j \in 1..n : stack'[j].chip = stack'[i].chip => j = i
      <4>1. /\ stack[i].chip \in chips \ DOMAIN heights
            /\ \A j \in 1..Len(stack) : stack[j].chip = stack[i].chip => j = i
        BY <2>6 DEF LoaderInv, Frames
      <4>2. stack[i].chip # name
        BY <1>1
      <4>3. QED
        BY <2>5, <2>6, <4>1, <4>2
    <3>3. ASSUME NEW i \in 1..n
          PROVE  /\ Passed(i) /\ Reached(i) /\ stack[i].height \in Nat \ {0}
                 /\ i + stack[i].height - 1 <= MaxDepth
                 /\ \A x : Awaits(i, x) => x \in Dependencies(stack[i].chip)
      <4>1. stack[i] \in Framing
        BY <1>1
      <4>2. QED
        BY <2>6, <4>1 DEF LoaderInv, Frames, Framing
    <3>4. ASSUME NEW i \in 1..n, i # n
          PROVE  /\ i + stack'[i].height - 1 <= MaxDepth
                 /\ Passed(i)' /\ Reached(i)'
                 /\ \A x : Awaits(i, x)' => x \in Dependencies(stack'[i].chip)
      <4>1. i + 1 \in 1..n /\ i < Len(stack) /\ i # Len(stack)
        BY <1>1, <1>2, <2>6, <3>4
      <4>2. ASSUME NEW x
            PROVE  Awaits(i, x)' <=> Awaits(i, x)
        <5>1. Len(stack') = n /\ i < n /\ Len(stack) \in Nat
          BY <1>1, <2>1, <2>4, <3>4
        <5>2. stack'[i + 1].chip = stack[i + 1].chip
          BY <2>5, <4>1
        <5>3. i < Len(stack') /\ i # Len(stack')
          BY <5>1
        <5>4. QED
          BY <4>1, <5>2, <5>3 DEF Awaits
      <4>3. stack'[i] = stack[i]
        BY <2>5, <3>4
      <4>4. Passed(i)'
        <5>0. PICK c : c = Chip(stack[i].chip)
          OBVIOUS
        <5> DEFINE subs == c.subs
        <5>1. ASSUME NEW k \in 1..stack[i].at - 1, k <= Len(subs), IsDependency(subs[k]),
                     NEW x, x = subs[k].name.text
              PROVE  (x \in DOMAIN heights' /\ heights'[x] < stack'[i].height) \/ Awaits(i, x)'
          <6>1. (x \in DOMAIN heights /\ heights[x] < stack[i].height) \/ Awaits(i, x)
            BY <3>3, <5>0, <5>1 DEF Passed
          <6>2. CASE Awaits(i, x)
            BY <4>2, <6>2
          <6>3. CASE x \in DOMAIN heights /\ heights[x] < stack[i].height
            <7>1. x \in DOMAIN heights' /\ heights'[x] = heights[x]
              BY <6>3
            <7>2. QED
              BY <4>3, <6>3, <7>1
          <6>4. QED
            BY <6>1, <6>2, <6>3
        <5>2. Chip(stack[i].chip)' = c /\ \A sub : IsDependency(sub)' <=> IsDependency(sub)
          BY <4>3, <5>0, ProjectStays DEF IsDependency
        <5>3. QED
          BY <4>3, <5>1, <5>2 DEF Passed
      <4>5. Reached(i)'
        BY <3>3, <4>3, ProjectStays DEF Reached
      <4>6. QED
        BY <3>3, <4>2, <4>3, <4>4, <4>5
    <3>5. /\ n + stack'[n].height - 1 <= MaxDepth
          /\ Passed(n)' /\ Reached(n)'
          /\ \A x : Awaits(n, x)' => x \in Dependencies(stack'[n].chip)
      <4>1. /\ stack'[n].height >= stack[n].height /\ stack'[n].height > height
            /\ stack'[n].height = stack[n].height \/ stack'[n].height = height + 1
            /\ stack[n].height \in Nat
        BY <2>1, <2>5, <3>3 DEF Larger
      <4>2. n + stack'[n].height - 1 <= MaxDepth
        BY <1>1, <1>2, <2>1, <3>3, <4>1
      <4>3. ASSUME NEW x
            PROVE  ~Awaits(n, x)' /\ (Awaits(n, x) => x = name)
        BY <1>1, <1>2, <2>2, <2>4 DEF Awaits
      <4>4. name \in Dependencies(stack[n].chip)
        BY <1>1, <2>1, <3>3
      <4>5. Reached(n)'
        <5>1. stack'[n].chip = stack[n].chip
          BY <2>1, <2>5
        <5>2. CASE stack'[n].height = height + 1
          <6>1. /\ name \in Dependencies(stack'[n].chip) /\ name \in DOMAIN heights'
                /\ heights'[name] = stack'[n].height - 1
            BY <4>4, <5>1, <5>2
          <6>2. QED
            BY <6>1, ProjectStays DEF Reached
        <5>3. CASE stack'[n].height = stack[n].height
          BY <2>1, <3>3, <5>1, <5>3, ProjectStays DEF Reached
        <5>4. QED
          BY <4>1, <5>2, <5>3
      <4>6. Passed(n)'
        <5> DEFINE subs == Chip(stack[n].chip).subs
        <5>1. ASSUME NEW k \in 1..stack[n].at - 1, k <= Len(subs), IsDependency(subs[k])
              PROVE  /\ subs[k].name.text \in DOMAIN heights'
                     /\ heights'[subs[k].name.text] < stack'[n].height
          <6>1. \/ /\ subs[k].name.text \in DOMAIN heights
                   /\ heights[subs[k].name.text] < stack[n].height
                \/ Awaits(n, subs[k].name.text)
            BY <2>1, <3>3, <5>1 DEF Passed
          <6>2. CASE Awaits(n, subs[k].name.text)
            BY <4>1, <4>3, <6>2
          <6>3. CASE /\ subs[k].name.text \in DOMAIN heights
                     /\ heights[subs[k].name.text] < stack[n].height
            <7>1. heights[subs[k].name.text] \in Int /\ stack'[n].height \in Int
              BY <4>1, <6>3 DEF LoaderInv, Ranks
            <7>2. PICK a \in Int : a = heights[subs[k].name.text]
              BY <7>1
            <7>3. a < stack'[n].height
              BY <4>1, <6>3, <7>1, <7>2
            <7>4. QED
              BY <6>3, <7>2, <7>3
          <6>4. QED
            BY <6>1, <6>2, <6>3
        <5>2. /\ stack'[n].chip = stack[n].chip /\ stack'[n].at = stack[n].at
              /\ Chip(stack[n].chip)' = Chip(stack'[n].chip)
          BY <2>1, <2>5, ProjectStays
        <5>3. QED
          BY <5>1, <5>2, ProjectStays DEF Passed, IsDependency
      <4>7. QED
        BY <4>2, <4>3, <4>5, <4>6
    <3>6. QED
      BY <2>4, <3>1, <3>2, <3>4, <3>5, ProjectStays DEF Frames
  <2>10. QED
    BY <1>3, <2>7, <2>8, <2>9 DEF LoaderInv
<1>6. QED
  BY <1>4, <1>5

LEMMA RecallKept ==
  ASSUME LoaderInv, Recall
  PROVE  LoaderInv'
<1>1. PICK name \in ToSet(call) \cap DOMAIN heights :
        /\ Deepest(name) <= MaxDepth /\ Return(stack, heights[name])
        /\ project' = project /\ UNCHANGED files /\ heights' = heights /\ asked' = asked
  BY DEF Recall
<1>2. /\ call = <<name>> /\ loaded = "busy"
      /\ \E unit \in Listed : asked = <<unit>> /\ name \in ChainEnds(unit)[Len(stack)]
  BY Called
<1>3. stack \in Seq(Framing)
  BY DEF LoaderInv, Frames, Framing
<1>4. Len(stack) \in Nat /\ heights[name] \in Nat \ {0} /\ chips' = chips
  BY <1>1, DepthHolds DEF LoaderInv, Ranks, files
<1>5. Files' /\ Ranks'
  BY <1>1, ProjectStays DEF LoaderInv, files, Files, Good, Counted, Ranks
<1>6. Awaits(Len(stack), name)
  BY <1>2 DEF Awaits
<1>7. \A i \in 1..Len(stack) : stack[i].chip # name
  BY <1>1 DEF LoaderInv, Frames
<1>8. stack = <<>> => \A unit : asked = <<unit>> => unit = name
  <2>1. ASSUME stack = <<>>, NEW unit, asked = <<unit>>
        PROVE  unit = name
    <3>1. unit \in Listed /\ name \in ChainEnds(unit)[0]
      BY <1>2, <2>1
    <3>2. QED
      BY <3>1, EndsDefined
  <2>2. QED
    BY <2>1
<1>9. Len(stack) + heights[name] <= MaxDepth
  BY <1>1 DEF Deepest
<1>10. /\ DOMAIN heights' = DOMAIN heights \cup {name} /\ heights'[name] = heights[name]
       /\ \A other \in DOMAIN heights : heights'[other] = heights[other]
       /\ Len(stack) <= Len(stack)
  <2>1. heights' = heights /\ name \in DOMAIN heights
    BY <1>1
  <2>2. Len(stack) <= Len(stack)
    BY <1>4
  <2>3. DOMAIN heights' = DOMAIN heights \cup {name}
    BY <2>1
  <2>4. QED
    BY <2>1, <2>2, <2>3
<1>11. QED
  BY <1>1, <1>2, <1>3, <1>4, <1>5, <1>6, <1>7, <1>8, <1>9, <1>10, ReturnKept

\* Whoever goes down, goes down to a chip that comes next.
LEMMA DescendKept ==
  ASSUME LoaderInv, Descend
  PROVE  LoaderInv'
<1>1. PICK k \in Ahead :
        /\ \A j \in Ahead : k <= j
        /\ call' = <<Chip(Caller.chip).subs[k].name.text>>
        /\ stack' = [stack EXCEPT ![Len(stack)].at = k + 1]
  BY DEF Descend
<1>2. /\ project' = project /\ UNCHANGED files /\ heights' = heights /\ asked' = asked
      /\ loaded' = loaded /\ call = <<>> /\ stack # <<>>
  BY DEF Descend
<1>3. stack \in Seq(Framing)
  BY DEF LoaderInv, Frames, Framing
<1>4. PICK n \in Nat : n = Len(stack)
  BY <1>3
<1>5. n \in 1..n /\ Caller = stack[n] /\ stack[n] \in Framing
  BY <1>2, <1>3, <1>4, NoFrames DEF Caller
<1> DEFINE subs == Chip(stack[n].chip).subs
           text == subs[k].name.text
           top == [stack[n] EXCEPT !.at = k + 1]
<1>6. /\ subs \in Seq(ToSet(subs)) /\ Len(subs) \in Nat
      /\ \A i \in 1..Len(subs) : subs[i] \in ToSet(subs)
  <2>1. subs \in Seq(ToSet(subs))
    BY <1>5 DEF Framing, LoaderInv, IsOpen, IsProject, Listed, Chip
  <2> HIDE DEF subs
  <2>2. QED
    BY <2>1
<1>7. /\ k \in 1..Len(subs) /\ k >= stack[n].at /\ IsDependency(subs[k])
      /\ \A j \in stack[n].at..k - 1 : ~IsDependency(subs[j])
  <2>1. stack[n].at \in Nat \ {0}
    BY <1>5 DEF Framing
  <2>2. Ahead = {i \in stack[n].at..Len(subs) : IsDependency(subs[i])}
    BY <1>5 DEF Ahead
  <2> HIDE DEF subs
  <2>3. k \in stack[n].at..Len(subs) /\ IsDependency(subs[k])
    BY <1>1, <2>2
  <2>4. k \in 1..Len(subs) /\ k >= stack[n].at
    BY <1>6, <2>1, <2>3
  <2>5. ASSUME NEW j \in stack[n].at..k - 1, IsDependency(subs[j])
        PROVE  FALSE
    <3>1. j \in stack[n].at..Len(subs) /\ ~(k <= j)
      BY <1>6, <2>1, <2>4
    <3>2. QED
      BY <1>1, <2>2, <2>5, <3>1
  <2>6. QED
    BY <2>3, <2>4, <2>5
<1>8. text \in Dependencies(stack[n].chip) /\ text \in Listed
  <2>1. subs[k] \in ToSet(subs)
    BY <1>6, <1>7
  <2>2. QED
    BY <1>7, <2>1 DEF Dependencies, IsDependency
<1>9. stack' = [stack EXCEPT ![n] = top]
  BY <1>1, <1>4
<1>10. top.chip = stack[n].chip /\ top.height = stack[n].height /\ top.at = k + 1 /\ top \in Framing
  <2>1. k + 1 \in Nat \ {0}
    BY <1>6, <1>7
  <2>2. QED
    BY <1>5, <2>1 DEF Framing
<1> HIDE DEF top
<1>11. /\ Len(stack') = n /\ stack' \in Seq(Framing) /\ stack'[n] = top
       /\ \A i \in 1..n : i # n => stack'[i] = stack[i]
  BY <1>3, <1>4, <1>5, <1>9, <1>10
<1>12. \A i \in 1..n : stack'[i].chip = stack[i].chip /\ stack'[i].height = stack[i].height
  BY <1>10, <1>11
<1>13. call' = <<text>> /\ chips' = chips
  BY <1>1, <1>2, <1>5 DEF files
<1> HIDE DEF text
<1>14. IsOpen' /\ Files' /\ Ranks'
  BY <1>2, ProjectStays DEF LoaderInv, files, Files, Good, Counted, Ranks
<1>15. loaded = "busy"
  BY <1>2 DEF LoaderInv, Outcomes
<1>16. Outcomes'
  BY <1>2, <1>8, <1>13, <1>15, ProjectStays DEF LoaderInv, Outcomes
<1>17. Chains'
  <2>1. ASSUME NEW unit, asked' = <<unit>>
        PROVE  /\ unit \in Listed
               /\ \A i \in 1..n : stack'[i].chip \in ChainEnds(unit)[i - 1]
               /\ text \in ChainEnds(unit)[n]
    <3>1. unit \in Listed /\ \A i \in 1..n : stack[i].chip \in ChainEnds(unit)[i - 1]
      BY <1>2, <1>4, <2>1 DEF LoaderInv, Chains
    <3>2. n - 1 \in 0..MaxDepth - 1 /\ (n - 1) + 1 = n
      BY <1>4, <1>5, DepthHolds, DlsLoaderAssumption DEF LoaderInv
    <3>3. project.file[stack[n].chip].state = "good"
      BY <1>4, <1>5 DEF LoaderInv, Frames, Files, Good
    <3>4. stack[n].chip \in ChainEnds(unit)[n - 1]
      BY <1>5, <3>1
    <3>5. text \in ChainEnds(unit)[(n - 1) + 1]
      BY <1>8, <3>1, <3>2, <3>3, <3>4, EndsStep
    <3>6. QED
      BY <1>12, <3>1, <3>2, <3>5
  <2>2. ASSUME NEW name, call' = <<name>>
        PROVE  name = text
    BY <1>13, <2>2
  <2>3. QED
    <3>1. SUFFICES ASSUME NEW unit, asked' = <<unit>>
                   PROVE  /\ unit \in Listed'
                          /\ \A i \in 1..Len(stack') :
                               stack'[i].chip \in ChainEnds(unit)'[i - 1]
                          /\ \A name : call' = <<name>> =>
                               name \in ChainEnds(unit)'[Len(stack')]
      BY DEF Chains
    <3>2. ChainEnds(unit)' = ChainEnds(unit) /\ Listed' = Listed
      BY <1>2, ProjectStays
    <3>3. QED
      BY <1>11, <2>1, <2>2, <3>1, <3>2
<1>18. Frames'
  <2>1. stack' \in Seq([chip : Listed', at : Nat \ {0}, height : Nat \ {0}])
    BY <1>2, <1>11, ProjectStays DEF Framing
  <2>2. \A i \in 1..n : /\ stack[i].chip \in chips \ DOMAIN heights
                        /\ \A j \in 1..n : stack[j].chip = stack[i].chip => j = i
                        /\ i + stack[i].height - 1 <= MaxDepth
                        /\ Passed(i) /\ Reached(i)
                        /\ \A x : Awaits(i, x) => x \in Dependencies(stack[i].chip)
    BY <1>4 DEF LoaderInv, Frames
  <2>3. ASSUME NEW i \in 1..n
        PROVE  /\ Reached(i)' /\ stack'[i].chip \in chips' \ DOMAIN heights'
               /\ \A j \in 1..n : stack'[j].chip = stack'[i].chip => j = i
               /\ i + stack'[i].height - 1 <= MaxDepth
    <3>1. Reached(i)'
      BY <1>2, <1>12, <2>2, ProjectStays DEF Reached
    <3>2. QED
      BY <1>2, <1>12, <1>13, <2>2, <3>1
  <2>4. ASSUME NEW i \in 1..n, i # n
        PROVE  /\ Passed(i)' /\ \A x : Awaits(i, x)' => x \in Dependencies(stack'[i].chip)
    <3>1. i + 1 \in 1..n
      BY <2>4
    <3>2. ASSUME NEW x
          PROVE  Awaits(i, x)' <=> Awaits(i, x)
      BY <1>4, <1>11, <1>12, <2>4, <3>1 DEF Awaits
    <3>3. stack'[i] = stack[i]
      BY <1>11, <2>4
    <3>4. Passed(i)'
      BY <1>2, <2>2, <3>2, <3>3, ProjectStays DEF Passed, IsDependency
    <3>5. QED
      BY <2>2, <3>2, <3>3, <3>4
  <2>5. /\ Passed(n)' /\ \A x : Awaits(n, x)' => x \in Dependencies(stack'[n].chip)
    <3>1. ASSUME NEW x
          PROVE  /\ Awaits(n, x)' <=> x = text
                 /\ ~Awaits(n, x)
      BY <1>2, <1>4, <1>11, <1>13 DEF Awaits
    <3>2. ASSUME NEW i \in 1..k, i <= Len(subs), IsDependency(subs[i])
          PROVE  \/ /\ subs[i].name.text \in DOMAIN heights
                    /\ heights[subs[i].name.text] < stack[n].height
                 \/ subs[i].name.text = text
      <4>1. CASE i = k
        BY <4>1 DEF text
      <4>2. CASE i # k
        <5>1. stack[n].at \in Nat \ {0}
          BY <1>5 DEF Framing
        <5> HIDE DEF subs
        <5>2. i \in 1..stack[n].at - 1
          BY <1>6, <1>7, <3>2, <4>2, <5>1
        <5>3. QED
          BY <1>5, <2>2, <3>1, <3>2, <5>2 DEF Passed, subs
      <4>3. QED
        BY <4>1, <4>2
    <3>3. /\ stack'[n].chip = stack[n].chip /\ stack'[n].at - 1 = k
          /\ stack'[n].height = stack[n].height
          /\ Chip(stack[n].chip)' = Chip(stack'[n].chip)
      <4>1. k \in Nat
        BY <1>6, <1>7
      <4>2. QED
        BY <1>2, <1>5, <1>10, <1>11, <1>12, <4>1, ProjectStays
    <3>4. Passed(n)'
      BY <1>2, <3>1, <3>2, <3>3, ProjectStays DEF Passed, IsDependency
    <3>5. QED
      BY <1>8, <3>1, <3>3, <3>4
  <2>6. QED
    BY <1>2, <1>11, <2>1, <2>3, <2>4, <2>5, ProjectStays DEF Frames
<1>19. QED
  BY <1>14, <1>16, <1>17, <1>18 DEF LoaderInv

\* A chip whose dependencies are all known is ranked, above them.
LEMMA LeaveKept ==
  ASSUME LoaderInv, Leave
  PROVE  LoaderInv'
<1>1. /\ call = <<>> /\ stack # <<>> /\ Ahead = {}
      /\ project' = project /\ UNCHANGED files /\ asked' = asked /\ chips' = chips
      /\ heights' = [x \in DOMAIN heights \cup {Caller.chip} |->
                       IF x = Caller.chip THEN Caller.height ELSE heights[x]]
      /\ Return(Front(stack), Caller.height)
  BY DEF Leave, files
<1>2. stack \in Seq(Framing)
  BY DEF LoaderInv, Frames, Framing
<1>3. PICK n \in Nat : n = Len(stack)
  BY <1>2
<1>4. n \in 1..n /\ Caller = stack[n] /\ stack[n] \in Framing
  BY <1>1, <1>2, <1>3, NoFrames DEF Caller
<1>5. PICK name \in Listed : name = stack[n].chip
  BY <1>4 DEF Framing
<1>6. PICK height \in Nat \ {0} : height = stack[n].height
  BY <1>4 DEF Framing
<1>7. loaded = "busy"
  BY <1>1 DEF LoaderInv, Outcomes
<1>8. /\ name \in chips \ DOMAIN heights /\ n + height - 1 <= MaxDepth
      /\ \A j \in 1..n : stack[j].chip = name => j = n
      /\ Passed(n) /\ Reached(n)
  BY <1>3, <1>4, <1>5, <1>6 DEF LoaderInv, Frames
<1>9. /\ DOMAIN heights' = DOMAIN heights \cup {name} /\ heights'[name] = height
      /\ \A other \in DOMAIN heights : heights'[other] = heights[other]
  BY <1>1, <1>4, <1>5, <1>6, <1>8
<1>10. ASSUME NEW d \in Dependencies(name)
       PROVE  d \in DOMAIN heights /\ heights[d] < height
  <2> DEFINE subs == Chip(name).subs
  <2>1. subs \in Seq(ToSet(subs))
    BY DEF LoaderInv, IsOpen, IsProject, Listed, Chip
  <2>2. PICK s \in ToSet(subs) : IsDependency(s) /\ d = s.name.text
    BY <1>10 DEF Dependencies
  <2>3. Len(subs) \in Nat /\ \E k \in 1..Len(subs) : subs[k] = s
    <3> HIDE DEF subs
    <3>1. QED
      BY <2>1, <2>2 DEF ToSet
  <2>4. PICK k \in 1..Len(subs) : subs[k] = s
    BY <2>3
  <2>5. stack[n].at \in Nat \ {0}
    BY <1>4 DEF Framing
  <2>6. k \in 1..stack[n].at - 1
    <3>1. Ahead = {i \in stack[n].at..Len(subs) : IsDependency(subs[i])}
      BY <1>4, <1>5 DEF Ahead
    <3> HIDE DEF subs
    <3>2. k \notin stack[n].at..Len(subs)
      BY <1>1, <2>2, <2>4, <3>1
    <3>3. QED
      BY <2>3, <2>4, <2>5, <3>2
  <2>7. ~Awaits(n, d)
    BY <1>1, <1>3 DEF Awaits
  <2>8. k <= Len(subs)
    <3> HIDE DEF subs
    <3>1. QED
      BY <2>3, <2>4
  <2>9. QED
    BY <1>5, <1>6, <1>8, <2>2, <2>4, <2>6, <2>7, <2>8 DEF Passed
<1>11. MaxDepth \in Nat /\ height \in 1..MaxDepth
  BY <1>4, <1>8, DlsLoaderAssumption
<1>12. Ranks'
  <2>1. ASSUME NEW x \in DOMAIN heights
        PROVE  /\ x \in chips /\ heights'[x] \in 1..MaxDepth
               /\ \A d \in Dependencies(x) :
                    d \in DOMAIN heights /\ heights'[d] < heights'[x]
               /\ heights'[x] = 1 \/ \E d \in Dependencies(x) : heights'[d] = heights'[x] - 1
    BY <1>9 DEF LoaderInv, Ranks
  <2>2. /\ \A d \in Dependencies(name) :
             d \in DOMAIN heights /\ heights'[d] < height
        /\ height = 1 \/ \E d \in Dependencies(name) : heights'[d] = height - 1
    <3>1. height = 1 \/ \E d \in Dependencies(name) :
                          d \in DOMAIN heights /\ heights[d] = height - 1
      BY <1>5, <1>6, <1>8 DEF Reached
    <3>2. QED
      BY <1>9, <1>10, <3>1
  <2>3. \A x : Dependencies(x)' = Dependencies(x)
    BY <1>1, ProjectStays
  <2>4. QED
    BY <1>1, <1>8, <1>9, <1>11, <2>1, <2>2, <2>3 DEF Ranks
<1>13. Files'
  BY <1>1, ProjectStays DEF LoaderInv, files, Files, Good, Counted
<1> DEFINE calls == Front(stack)
<1>14. /\ calls \in Seq(Framing) /\ Len(calls) = n - 1
       /\ \A i \in 1..n - 1 : calls[i] = stack[i]
  BY <1>2, <1>3, <1>4 DEF Front
<1> HIDE DEF calls
<1>15. Awaits(Len(calls), name)
  BY <1>3, <1>4, <1>5, <1>14 DEF Awaits
<1>16. \A i \in 1..Len(calls) : calls[i] = stack[i] /\ calls[i].chip # name
  BY <1>4, <1>8, <1>14
<1>17. Len(calls) <= Len(stack) /\ Len(calls) + height <= MaxDepth
  BY <1>3, <1>8, <1>11, <1>14
<1>18. ASSUME calls = <<>>, NEW unit, asked = <<unit>>
       PROVE  unit = name
  <2>1. n = 1
    BY <1>14, <1>18
  <2>2. unit \in Listed /\ stack[1].chip \in ChainEnds(unit)[1 - 1]
    BY <1>3, <1>4, <1>18, <2>1 DEF LoaderInv, Chains
  <2>3. QED
    BY <1>5, <2>1, <2>2, EndsDefined
<1>19. Return(calls, height)
  BY <1>1, <1>4, <1>6 DEF calls
<1>20. QED
  BY <1>1, <1>7, <1>9, <1>12, <1>13, <1>14, <1>15, <1>16, <1>17, <1>18, <1>19, ReturnKept

-----------------------------------------------------------------------------
(* The theorems.                                                           *)

LEMMA LoaderKept ==
  LoaderInv /\ [LoaderNext \/ \E unit \in Listed : AskFor(unit)]_loaderVars => LoaderInv'
<1> SUFFICES ASSUME LoaderInv, [LoaderNext \/ \E unit \in Listed : AskFor(unit)]_loaderVars
             PROVE  LoaderInv'
  OBVIOUS
<1>1. CASE UNCHANGED loaderVars
  <2>1. /\ project' = project /\ chips' = chips /\ failures' = failures
        /\ sourceBytes' = sourceBytes /\ heights' = heights /\ call' = call
        /\ stack' = stack /\ asked' = asked /\ loaded' = loaded
    BY <1>1 DEF loaderVars, files
  <2>2. IsOpen' /\ Files' /\ Ranks'
    BY <2>1, ProjectStays DEF LoaderInv, Files, Good, Counted, Ranks
  <2>3. \A i, x : Awaits(i, x)' = Awaits(i, x)
    BY <2>1 DEF Awaits
  <2>4. \A i : Passed(i)' = Passed(i) /\ Reached(i)' = Reached(i)
    <3> TAKE i
    <3>1. stack'[i] = stack[i] /\ heights' = heights
      BY <2>1
    <3>2. /\ \A x : Chip(x)' = Chip(x) /\ Dependencies(x)' = Dependencies(x)
          /\ \A sub : IsDependency(sub)' <=> IsDependency(sub)
      BY <2>1, ProjectStays DEF IsDependency
    <3>3. Passed(i)' <=> Passed(i)
      <4>1. PICK c : c = Chip(stack[i].chip)
        OBVIOUS
      <4>2. Chip(stack[i].chip)' = c
        BY <3>1, <3>2, <4>1
      <4> DEFINE Waits(k) == \/ /\ c.subs[k].name.text \in DOMAIN heights
                                /\ heights[c.subs[k].name.text] < stack[i].height
                             \/ Awaits(i, c.subs[k].name.text)
      <4>3. Passed(i) <=> \A k \in 1..stack[i].at - 1 :
              k <= Len(c.subs) /\ IsDependency(c.subs[k]) => Waits(k)
        BY <4>1 DEF Passed
      <4>4. Passed(i)' <=> \A k \in 1..stack[i].at - 1 :
              k <= Len(c.subs) /\ IsDependency(c.subs[k]) => Waits(k)'
        BY <3>1, <3>2, <4>2 DEF Passed
      <4>5. \A k : Waits(k)' <=> Waits(k)
        BY <2>3, <3>1
      <4> HIDE DEF Waits
      <4>6. QED
        BY <4>3, <4>4, <4>5
    <3>4. Reached(i)' <=> Reached(i)
      BY <3>1, <3>2 DEF Reached
    <3>5. QED
      BY <3>3, <3>4 DEF Passed, Reached
  <2>5. Frames'
    BY <2>1, <2>3, <2>4, ProjectStays DEF LoaderInv, Frames
  <2>6. Chains' /\ Outcomes'
    BY <2>1, ProjectStays DEF LoaderInv, Chains, Outcomes, Refuted
  <2>7. QED
    BY <2>2, <2>5, <2>6 DEF LoaderInv
<1>2. CASE \E unit \in Listed : AskFor(unit)
  BY <1>2, AskForKept
<1>3. CASE LoaderNext
  BY <1>3, TooDeepKept, RecallKept, CyclicKept, OpenKept, DescendKept, LeaveKept
     DEF LoaderNext
<1>4. QED
  BY <1>1, <1>2, <1>3

\* What ProjectLoader holds between any two calls (dls/model.rs: load_chip,
\* read_chip, load_dependencies), whatever units are asked for.
THEOREM LoaderInvariant == LoaderSpec => []LoaderInv
<1>1. IsProject(project) /\ Metadata = "ok" /\ LoaderInit(project) => LoaderInv
  BY LoaderStarts
<1>2. QED
  BY <1>1, LoaderKept, PTL DEF LoaderSpec

LEMMA AsIfAlone == LoaderInv => LoadsAsIfAlone
<1> SUFFICES ASSUME LoaderInv, NEW unit \in ToSet(asked)
             PROVE  /\ loaded = "ok" => Loadable(unit)
                    /\ loaded # "busy" /\ FileBytes(Listed) <= MaxProjectBytes =>
                         (Loadable(unit) => loaded = "ok")
  BY DEF LoadsAsIfAlone
<1>1. asked = <<unit>> /\ unit \in Listed
  BY Singles DEF LoaderInv, Outcomes
<1>2. CASE loaded = "ok"
  <2>1. unit \in DOMAIN heights
    BY <1>1, <1>2 DEF LoaderInv, Outcomes
  <2>2. QED
    BY <1>2, <2>1, RankedLoads DEF LoaderInv
<1>3. CASE loaded \notin {"busy", "ok"}
  <2>1. Refuted(unit)
    BY <1>1, <1>3 DEF LoaderInv, Outcomes
  <2>2. FileBytes(Listed) \in Nat /\ MaxProjectBytes \in Nat
    BY BytesGrow, DlsLoaderAssumption DEF LoaderInv
  <2>3. QED
    BY <1>3, <2>1, <2>2 DEF Refuted
<1>4. CASE loaded = "busy"
  BY <1>4
<1>5. QED
  BY <1>2, <1>3, <1>4

\* A unit loads exactly when it would alone, unless the bytes run out: neither the
\* heights, the failures nor the files that load_dependencies finds in the loader
\* let a unit through, or refuse one, that a new loader would not.
THEOREM UnitsLoadAsIfAlone == LoaderSpec => []LoadsAsIfAlone
  BY AsIfAlone, LoaderInvariant, PTL

\* source_bytes counts each file that was read whole once, and never more than
\* MAX_PROJECT_BYTES, so that what read_chip subtracts it from does not underflow.
FilesCountOnce == sourceBytes = FileBytes(Counted) /\ sourceBytes \in 0..MaxProjectBytes

\* The bytes that are counted are those of the files read whole, each of them once.
THEOREM BytesAreCountedOnce == LoaderSpec => []FilesCountOnce
<1>1. LoaderInv => FilesCountOnce
  <2> SUFFICES ASSUME LoaderInv
               PROVE  FilesCountOnce
    OBVIOUS
  <2>1. FileBytes(Counted) \in Nat /\ MaxProjectBytes \in Nat
    BY BytesGrow, DlsLoaderAssumption DEF LoaderInv
  <2>2. QED
    BY <2>1 DEF LoaderInv, Files, FilesCountOnce
<1>2. QED
  BY <1>1, LoaderInvariant, PTL

-----------------------------------------------------------------------------
(* Sequences.                                                              *)

LEMMA Appended ==
  ASSUME NEW s, s \in Seq(ToSet(s)), NEW x
  PROVE  /\ Append(s, x) \in Seq(ToSet(Append(s, x)))
         /\ Len(s) \in Nat /\ Len(Append(s, x)) = Len(s) + 1
         /\ \A i \in 1..Len(s) : Append(s, x)[i] = s[i]
         /\ Append(s, x)[Len(s) + 1] = x
         /\ DOMAIN Append(s, x) = DOMAIN s \cup {Len(s) + 1}
         /\ DOMAIN s = 1..Len(s)
         /\ ToSet(Append(s, x)) = ToSet(s) \cup {x}
<1> DEFINE S == ToSet(s) \cup {x}
           t == Append(s, x)
<1>1. s \in Seq(S)
  OBVIOUS
<1>2. /\ t \in Seq(S) /\ Len(t) = Len(s) + 1 /\ t[Len(s) + 1] = x
      /\ \A i \in 1..Len(s) : t[i] = s[i]
  <2> HIDE DEF S
  <2>1. x \in S
    BY DEF S
  <2>2. QED
    BY <1>1, <2>1, AppendProperties
<1>3. Len(s) \in Nat /\ DOMAIN s = 1..Len(s) /\ DOMAIN t = 1..Len(s) + 1
  BY <1>1, <1>2
<1>4. DOMAIN t = DOMAIN s \cup {Len(s) + 1}
  BY <1>3
<1>5. ToSet(t) = S
  BY <1>2, <1>3, <1>4 DEF ToSet
<1>6. QED
  BY <1>2, <1>3, <1>4, <1>5

\* What is sifted from a sequence is what stands at the places, each once.
LEMMA SiftedIs ==
  ASSUME NEW s, NEW n \in Nat, NEW P \in SUBSET (1..n)
  PROVE  /\ IsFiniteSet(P) /\ Cardinality(P) \in Nat
         /\ Sifted(s, P) \in Seq(ToSet(Sifted(s, P)))
         /\ Len(Sifted(s, P)) = Cardinality(P)
         /\ ToSet(Sifted(s, P)) = {s[i] : i \in P}
<1>1. \A Q \in SUBSET P : IsFiniteSet(Q) /\ Cardinality(Q) \in Nat
  <2>1. IsFiniteSet(1..n)
    BY FS_Interval
  <2>2. QED
    BY <2>1, FS_Subset, FS_CardinalityType
<1> DEFINE Upto(i) == {j \in P : j <= i}
           rank    == [i \in P |-> Cardinality(Upto(i))]
           N       == Cardinality(P)
<1>2. N \in Nat
  BY <1>1
<1>3. ASSUME NEW i \in P
      PROVE  rank[i] \in 1..N
  <2>1. i \in Upto(i) /\ Upto(i) \in SUBSET P
    OBVIOUS
  <2>2. Cardinality(Upto(i)) \in Nat /\ Cardinality(Upto(i)) <= N
    <3> HIDE DEF Upto
    <3>1. QED
      BY <1>1, <2>1, FS_Subset
  <2>3. Cardinality(Upto(i)) # 0
    <3> HIDE DEF Upto
    <3>1. QED
      BY <1>1, <2>1, FS_EmptySet
  <2>4. QED
    BY <1>2, <2>2, <2>3
<1>4. ASSUME NEW i \in P, NEW j \in P, i < j
      PROVE  rank[i] < rank[j]
  <2>1. i \in Int /\ j \in Int /\ \A k \in P : k \in Int
    OBVIOUS
  <2>2. Upto(i) \in SUBSET Upto(j) /\ Upto(j) \in SUBSET P /\ j \in Upto(j) /\ j \notin Upto(i)
    <3>1. \A k \in P : k <= i => k <= j
      BY <1>4, <2>1
    <3>2. j <= j /\ ~(j <= i)
      BY <1>4, <2>1
    <3>3. QED
      BY <3>1, <3>2
  <2> HIDE DEF Upto
  <2>3. /\ Cardinality(Upto(i)) <= Cardinality(Upto(j))
        /\ Cardinality(Upto(i)) # Cardinality(Upto(j))
    BY <1>1, <2>2, FS_Subset
  <2>4. QED
    BY <1>1, <2>2, <2>3
<1>5. \A i, j \in P : rank[i] = rank[j] => i = j
  <2>1. SUFFICES ASSUME NEW i \in P, NEW j \in P, rank[i] = rank[j] PROVE i = j
    OBVIOUS
  <2>2. ~(i < j) /\ ~(j < i)
    <3> HIDE DEF rank
    <3>1. rank[i] \in Int /\ rank[j] \in Int
      BY <1>3
    <3>2. QED
      BY <1>4, <2>1, <3>1
  <2>3. QED
    BY <2>2
<1>6. \A k \in 1..N : \E i \in P : rank[i] = k
  <2> HIDE DEF rank
  <2>1. rank \in [P -> 1..N]
    BY <1>3 DEF rank
  <2>2. rank \in Injection(P, 1..N)
    BY <1>5, <2>1 DEF Injection, IsInjective
  <2>3. IsFiniteSet(1..N) /\ Cardinality(1..N) = N
    BY <1>2, FS_Interval
  <2>4. rank \in Surjection(P, 1..N)
    BY <2>2, <2>3, FS_Injection
  <2>5. QED
    BY <2>4 DEF Surjection
<1> DEFINE at(k) == CHOOSE i \in P : Cardinality({j \in P : j <= i}) = k
<1>7. \A k \in 1..N : at(k) \in P /\ rank[at(k)] = k
  <2>1. \A k \in 1..N : \E i \in P : Cardinality({j \in P : j <= i}) = k
    BY <1>6
  <2>2. QED
    BY <2>1
<1>8. \A i \in P : at(rank[i]) = i
  <2> HIDE DEF rank, at
  <2>1. QED
    BY <1>3, <1>5, <1>7
<1>9. Sifted(s, P) = [k \in 1..N |-> s[at(k)]]
  BY DEF Sifted
<1>10. /\ DOMAIN Sifted(s, P) = 1..N
       /\ ToSet(Sifted(s, P)) = {s[at(k)] : k \in 1..N}
  <2> HIDE DEF at, N
  <2>1. QED
    BY <1>9 DEF ToSet
<1>11. {s[at(k)] : k \in 1..N} = {s[i] : i \in P}
  <2> HIDE DEF at, rank
  <2>1. \A k \in 1..N : at(k) \in P
    BY <1>7
  <2>2. \A i \in P : rank[i] \in 1..N /\ at(rank[i]) = i
    BY <1>3, <1>8
  <2>3. QED
    BY <2>1, <2>2
<1>12. Sifted(s, P) \in Seq(ToSet(Sifted(s, P))) /\ Len(Sifted(s, P)) = N
  <2> HIDE DEF at, N
  <2>1. Sifted(s, P) \in [1..N -> ToSet(Sifted(s, P))]
    BY <1>9 DEF ToSet
  <2>2. QED
    BY <1>2, <2>1
<1>13. QED
  BY <1>1, <1>10, <1>11, <1>12

\* The places of a sequence that have a property and those that have not.
LEMMA Halves ==
  ASSUME NEW n \in Nat, NEW P \in SUBSET (1..n)
  PROVE  Cardinality(P) + Cardinality((1..n) \ P) = n
<1>1. IsFiniteSet(1..n) /\ Cardinality(1..n) = n
  BY FS_Interval
<1>2. IsFiniteSet(P) /\ IsFiniteSet((1..n) \ P)
  BY <1>1, FS_Subset
<1>3. Cardinality(P) \in Nat /\ Cardinality((1..n) \ P) \in Nat
  BY <1>2, FS_CardinalityType
<1>4. P \cup ((1..n) \ P) = 1..n /\ P \cap ((1..n) \ P) = {}
  OBVIOUS
<1>5. Cardinality(1..n) = Cardinality(P) + Cardinality((1..n) \ P) - Cardinality({})
  BY <1>2, <1>4, FS_Union
<1>6. QED
  BY <1>1, <1>3, <1>5, FS_EmptySet
-----------------------------------------------------------------------------
(***************************************************************************)
(* The command.                                                            *)
(*                                                                         *)
(* Each profile has a result for each unit so far, and none is missing at  *)
(* the end unless convert has stopped at the unit that failed.             *)
(***************************************************************************)
Through(asks, came, whole) ==
  \/ Len(came) = Len(asks)
  \/ whole /\ \E i \in DOMAIN came : came[i] # "converted"

DlsCourse ==
  /\ results \in Seq(ToSet(results))
  /\ loaded # "converted"
  /\ Metadata # "ok" => phase \in {"open", "done"} /\ results = <<>>
  /\ Metadata = "ok" => Len(results) <= Len(Units)
  /\ phase \in {"load", "elaborate"} => Len(results) < Len(Units)
  /\ phase = "done" /\ Metadata = "ok" => Through(Units, results, project.whole)

SheetCourse ==
  /\ sheetResults \in Seq(ToSet(sheetResults))
  /\ FileOutcome(sheet.file) # "ok" =>
       sheetPhase \in {"open", "done"} /\ sheetResults = <<>>
  /\ FileOutcome(sheet.file) = "ok" => Len(sheetResults) <= Len(SheetUnits)
  /\ sheetPhase \in {"join", "lowered"} => Len(sheetResults) < Len(SheetUnits)
  /\ sheetPhase = "done" /\ FileOutcome(sheet.file) = "ok" =>
       Through(SheetUnits, sheetResults, sheet.whole)

\* The arguments are such as ImportCommandAssumption says.
Proper ==
  /\ command.printed => command.use = "chip"
  /\ project.units \in Seq(ToSet(project.units))
  /\ project.description = "ok" => IsProject(project)
  /\ sheet.units \in Seq(ToSet(sheet.units))
  /\ sheet.file.circuits \in Seq(ToSet(sheet.file.circuits))
  /\ command.use = "skip" =>
       /\ project.description = "ok" => SkipsByName(project)
       /\ FileOutcome(sheet.file) = "ok" => SkipsByName(sheet)

LEMMA UnitsAre ==
  ASSUME Proper
  PROVE  /\ Metadata = "ok" => Units \in Seq(ToSet(Units)) /\ Len(Units) \in Nat
         /\ SheetUnits \in Seq(ToSet(SheetUnits)) /\ Len(SheetUnits) \in Nat
<1>1. ASSUME Metadata = "ok"
      PROVE  Units \in Seq(ToSet(Units)) /\ Len(Units) \in Nat
  <2>1. project.description = "ok"
    BY <1>1 DEF Metadata
  <2>2. project.listing \in Seq(ToSet(project.listing))
    BY <2>1 DEF Proper, IsProject
  <2>3. Units \in Seq(ToSet(Units))
    BY <2>2 DEF Proper, Units
  <2>4. QED
    BY <2>3
<1>2. CircuitNames(sheet.file) \in Seq(ToSet(CircuitNames(sheet.file)))
  <2>1. PICK n \in Nat : DOMAIN sheet.file.circuits = 1..n
    BY DEF Proper
  <2>2. CircuitNames(sheet.file) \in [1..n -> ToSet(CircuitNames(sheet.file))]
    BY <2>1 DEF CircuitNames, ToSet
  <2>3. QED
    BY <2>2
<1>3. SheetUnits \in Seq(ToSet(SheetUnits))
  BY <1>2 DEF Proper, SheetUnits
<1>4. QED
  BY <1>1, <1>3

\* A result is recorded where one is missing, after which the profile goes on or, when
\* it converts the whole project and this one failed, is done.
LEMMA Recorded ==
  ASSUME NEW asks, NEW came, NEW how, NEW whole, came \in Seq(ToSet(came)),
         asks \in Seq(ToSet(asks)), Len(came) < Len(asks)
  PROVE  /\ Append(came, how) \in Seq(ToSet(Append(came, how)))
         /\ Len(Append(came, how)) <= Len(asks)
         /\ whole /\ how # "converted" => Through(asks, Append(came, how), whole)
<1>1. Len(asks) \in Nat /\ Len(came) \in Nat
  OBVIOUS
<1>2. Len(Append(came, how)) <= Len(asks)
  BY <1>1, Appended
<1>3. ASSUME whole, how # "converted"
      PROVE  Through(asks, Append(came, how), whole)
  <2>1. Len(came) + 1 \in DOMAIN Append(came, how) /\ Append(came, how)[Len(came) + 1] = how
    BY Appended
  <2>2. QED
    BY <1>3, <2>1 DEF Through
<1>4. QED
  BY <1>2, <1>3, Appended

\* How a step of a profile changes what it has come to: one unit more, or nothing.
Comes(came, more, converted) ==
  \/ more = came /\ ~converted
  \/ \E how : more = Append(came, how) /\ (how = "converted" <=> converted)

LEMMA DlsStep ==
  ASSUME Proper, DlsCourse, Next
  PROVE  /\ DlsCourse' /\ project' = project
         /\ Comes(results, results', phase = "elaborate" /\ outcome = "converted")
         /\ Metadata = "ok" \/ results' = results
         /\ results' = results \/ Len(results) < Len(Units)
<1> DEFINE now == phase = "elaborate" /\ outcome = "converted"
<1>1. project' = project
  BY DEF Next, OpenProject, RefuseUnit, LoadUnit, AskFor, Load, LoaderNext, TooDeep, Recall,
         Cyclic, Open, Descend, Leave, LoadFailed, StartUnit, Elaborate, EndUnit, Close,
         loaderVars
<1>2. Metadata' = Metadata /\ Units' = Units
  BY <1>1 DEF Metadata, Units
<1>3. Metadata = "ok" => Units \in Seq(ToSet(Units)) /\ Len(Units) \in Nat
  BY UnitsAre
<1>4. Len(results) \in Nat
  BY DEF DlsCourse
<1>5. CASE OpenProject
  <2>1. results' = results /\ loaded' = loaded /\ phase = "open"
        /\ phase' = IF Metadata = "ok" THEN "next" ELSE "done"
    BY <1>5 DEF OpenProject, loaderVars
  <2>2. QED
    BY <1>1, <1>2, <2>1 DEF DlsCourse, Comes
<1>6. ASSUME NEW how, Record(how), Len(results) < Len(Units), loaded' = loaded,
             Metadata = "ok", how = "converted" <=> now
      PROVE  /\ DlsCourse' /\ Comes(results, results', now)
  <2>1. /\ results' = Append(results, how)
        /\ phase' = IF project.whole /\ how # "converted" THEN "done" ELSE "next"
    BY <1>6 DEF Record
  <2>2. results \in Seq(ToSet(results)) /\ Units \in Seq(ToSet(Units))
    BY <1>3, <1>6 DEF DlsCourse
  <2>3. /\ results' \in Seq(ToSet(results')) /\ Len(results') <= Len(Units)
        /\ project.whole /\ how # "converted" => Through(Units, results', project.whole)
    <3>1. PICK asks, came, whole : asks = Units /\ came = results /\ whole = project.whole
      OBVIOUS
    <3>2. QED
      BY <1>6, <2>1, <2>2, <3>1, Recorded
  <2>4. Through(Units, results, project.whole)' = Through(Units, results', project.whole)
    BY <1>1, <1>2 DEF Through
  <2>5. DlsCourse'
    BY <1>2, <1>6, <2>1, <2>3, <2>4 DEF DlsCourse
  <2>6. QED
    BY <1>6, <2>1, <2>5 DEF Comes
<1>7. CASE RefuseUnit
  <2>1. /\ phase = "next" /\ Len(results) < Len(Units) /\ Record("unknown")
        /\ loaded' = loaded
    BY <1>7 DEF RefuseUnit, loaderVars
  <2>2. Metadata = "ok"
    BY <2>1 DEF DlsCourse
  <2>3. QED
    BY <1>1, <1>6, <2>1, <2>2
<1>8. CASE LoadFailed
  <2>1. phase = "load" /\ Record(loaded) /\ loaded' = loaded
    BY <1>8 DEF LoadFailed, loaderVars
  <2>2. Metadata = "ok" /\ Len(results) < Len(Units) /\ loaded # "converted"
    BY <2>1 DEF DlsCourse
  <2>3. PICK how : how = loaded
    OBVIOUS
  <2>4. QED
    BY <1>1, <1>6, <2>1, <2>2, <2>3
<1>9. CASE EndUnit
  <2>1. phase = "elaborate" /\ Record(outcome) /\ loaded' = loaded
    BY <1>9 DEF EndUnit, loaderVars
  <2>2. Metadata = "ok" /\ Len(results) < Len(Units)
    BY <2>1 DEF DlsCourse
  <2>3. PICK how : how = outcome
    OBVIOUS
  <2>4. QED
    BY <1>1, <1>6, <2>1, <2>2, <2>3
<1>10. ASSUME results' = results, ~now, loaded' # "converted",
              phase' \in {"load", "elaborate"} => Len(results) < Len(Units),
              phase' # "open" /\ phase' # "done", Metadata = "ok"
       PROVE  DlsCourse' /\ Comes(results, results', now)
  BY <1>2, <1>10 DEF DlsCourse, Comes
<1>11. CASE LoadUnit
  <2>1. /\ phase = "next" /\ Len(results) < Len(Units) /\ loaded' = "busy"
        /\ phase' = "load" /\ results' = results
    BY <1>11 DEF LoadUnit, AskFor
  <2>2. Metadata = "ok"
    BY <2>1 DEF DlsCourse
  <2>3. QED
    BY <1>1, <1>10, <2>1, <2>2
<1>12. CASE Load
  <2>1. phase = "load" /\ LoaderNext /\ phase' = phase /\ results' = results
    BY <1>12 DEF Load
  <2>2. Metadata = "ok" /\ Len(results) < Len(Units)
    BY <2>1 DEF DlsCourse
  <2>3. loaded' \in {loaded, "ok", "io", "limit", "parse", "depth", "cycle"}
    BY <2>1 DEF LoaderNext, TooDeep, Recall, Cyclic, Open, Descend, Leave, Fail, Return
  <2>4. loaded' # "converted"
    BY <2>3 DEF DlsCourse
  <2>5. QED
    BY <1>1, <1>10, <2>1, <2>2, <2>4
<1>13. CASE StartUnit
  <2>1. /\ phase = "load" /\ phase' = "elaborate" /\ results' = results /\ loaded' = loaded
    BY <1>13 DEF StartUnit, loaderVars
  <2>2. Metadata = "ok" /\ Len(results) < Len(Units) /\ loaded # "converted"
    BY <2>1 DEF DlsCourse
  <2>3. QED
    BY <1>1, <1>10, <2>1, <2>2
<1>14. CASE Elaborate
  <2>1. phase = "elaborate" /\ phase' = phase /\ results' = results /\ loaded' = loaded
    BY <1>14 DEF Elaborate, loaderVars
  <2>2. outcome = "busy"
    BY <1>14 DEF Elaborate, ElaborateNext, PlaceBuiltin, PlaceChip, JoinWire, LeaveChip, Finish,
                 Expanded, Placed
  <2>3. Metadata = "ok" /\ Len(results) < Len(Units) /\ loaded # "converted"
    BY <2>1 DEF DlsCourse
  <2>4. QED
    BY <1>1, <1>10, <2>1, <2>2, <2>3
<1>15. CASE Close
  <2>1. /\ phase = "next" /\ phase' = "done" /\ Len(results) = Len(Units)
        /\ results' = results /\ loaded' = loaded
    BY <1>15 DEF Close, loaderVars
  <2>2. Through(Units, results, project.whole)'
    BY <1>2, <2>1 DEF Through
  <2>3. DlsCourse'
    BY <1>2, <2>1, <2>2 DEF DlsCourse
  <2>4. QED
    BY <1>1, <2>1, <2>3 DEF Comes
<1>16. results' = results \/ (Len(results) < Len(Units) /\ Metadata = "ok")
  <2>1. CASE RefuseUnit \/ LoadFailed \/ EndUnit
    BY <2>1 DEF RefuseUnit, LoadFailed, EndUnit, DlsCourse
  <2>2. CASE ~(RefuseUnit \/ LoadFailed \/ EndUnit)
    BY <2>2 DEF Next, OpenProject, LoadUnit, Load, StartUnit, Elaborate, Close
  <2>3. QED
    BY <2>1, <2>2
<1>17. QED
  <2>1. DlsCourse' /\ Comes(results, results', now)
    BY <1>5, <1>7, <1>8, <1>9, <1>11, <1>12, <1>13, <1>14, <1>15 DEF Next
  <2>2. QED
    BY <1>1, <1>16, <2>1

\* The first check that fails says what a function of checks returns.
LEMMA FirstFailureIs ==
  ASSUME NEW checks, NEW n \in Nat, DOMAIN checks = 1..n,
         NEW S, \A i \in 1..n : checks[i][2] \in S
  PROVE  FirstFailure(checks) \in S \cup {"ok"}
<1> DEFINE failed == {i \in DOMAIN checks : checks[i][1]}
<1>1. CASE failed = {}
  BY <1>1 DEF FirstFailure
<1>2. CASE failed # {}
  <2>1. failed \subseteq Nat
    OBVIOUS
  <2>2. PICK i \in failed : \A j \in failed : i <= j
    <3> HIDE DEF failed
    <3>1. QED
      BY <1>2, <2>1, Least
  <2>3. (CHOOSE k \in failed : \A j \in failed : k <= j) \in failed
    BY <2>2
  <2>4. FirstFailure(checks) = checks[CHOOSE k \in failed : \A j \in failed : k <= j][2]
    BY <1>2 DEF FirstFailure
  <2>5. QED
    BY <2>3, <2>4
<1>3. QED
  BY <1>1, <1>2

\* A circuit that is refused is so with a reason.
LEMMA RefusedIsReason ==
  ASSUME NEW circuit
  PROVE  CircuitOutcome(circuit) # "converted"
<1> DEFINE S == {"limit", "parse", "unsupported"}
<1>1. ASSUME NEW comp
      PROVE  FirstFailure(GeometryChecks(comp) \o KindChecks(comp)) \in S \cup {"ok"}
  <2>1. PICK g : g = GeometryChecks(comp)
    OBVIOUS
  <2>2. PICK k : k = KindChecks(comp)
    OBVIOUS
  <2>3. /\ Len(g) = 7 /\ DOMAIN g = 1..7 /\ \A i \in 1..7 : g[i][2] \in S
    BY <2>1 DEF GeometryChecks
  <2>4. /\ Len(k) = 2 /\ DOMAIN k = 1..2 /\ \A i \in 1..2 : k[i][2] \in S
    BY <2>2 DEF KindChecks
  <2>5. g \in Seq(ToSet(g) \cup ToSet(k)) /\ k \in Seq(ToSet(g) \cup ToSet(k))
    <3>1. g \in Seq(ToSet(g))
      BY <2>1, <2>3 DEF GeometryChecks, ToSet
    <3>2. k \in Seq(ToSet(k))
      BY <2>2, <2>4 DEF KindChecks, ToSet
    <3>3. QED
      BY <3>1, <3>2
  <2>6. PICK c : c = g \o k
    OBVIOUS
  <2>7. /\ c \in Seq(ToSet(g) \cup ToSet(k)) /\ Len(c) = 9
        /\ \A i \in 1..9 : c[i] = IF i <= 7 THEN g[i] ELSE k[i - 7]
    <3>1. PICK T : T = ToSet(g) \cup ToSet(k)
      OBVIOUS
    <3>2. g \in Seq(T) /\ k \in Seq(T)
      BY <2>5, <3>1
    <3>3. /\ c \in Seq(T) /\ Len(c) = Len(g) + Len(k)
          /\ \A i \in 1..Len(g) + Len(k) :
               c[i] = IF i <= Len(g) THEN g[i] ELSE k[i - Len(g)]
      BY <2>6, <3>2, ConcatProperties
    <3>4. Len(g) = 7 /\ Len(k) = 2 /\ Len(g) + Len(k) = 9
      BY <2>3, <2>4
    <3>5. QED
      BY <3>1, <3>3, <3>4
  <2>8. DOMAIN c = 1..9
    BY <2>7
  <2>9. \A i \in 1..9 : c[i][2] \in S
    BY <2>3, <2>4, <2>7
  <2>10. FirstFailure(c) \in S \cup {"ok"}
    <3> HIDE DEF S
    <3>1. QED
      BY <2>8, <2>9, FirstFailureIs
  <2>11. QED
    BY <2>1, <2>2, <2>6, <2>10
<1>2. \A i : ComponentOutcome(circuit, i) \in S \cup {"ok"}
  BY <1>1 DEF ComponentOutcome
<1>3. ComponentsOutcome(circuit) \in S \cup {"ok"}
  BY <1>2 DEF ComponentsOutcome
<1>4. QED
  BY <1>3 DEF CircuitOutcome

LEMMA SheetStep ==
  ASSUME Proper, SheetCourse, SheetNext
  PROVE  /\ SheetCourse' /\ sheet' = sheet
         /\ Comes(sheetResults, sheetResults', sheetPhase = "lowered")
         /\ FileOutcome(sheet.file) = "ok" \/ sheetResults' = sheetResults
         /\ sheetResults' = sheetResults \/ Len(sheetResults) < Len(SheetUnits)
<1>1. sheet' = sheet
  BY DEF SheetNext, OpenSheet, RefuseCircuit, StartCircuit, JoinPoints, LowerCircuit,
         EndCircuit, CloseSheet
<1>2. FileOutcome(sheet.file)' = FileOutcome(sheet.file) /\ SheetUnits' = SheetUnits
  BY <1>1 DEF SheetUnits
<1>3. SheetUnits \in Seq(ToSet(SheetUnits)) /\ Len(SheetUnits) \in Nat
  BY UnitsAre
<1>4. CASE OpenSheet
  <2>1. /\ sheetResults' = sheetResults /\ sheetPhase = "open"
        /\ sheetPhase' = IF FileOutcome(sheet.file) = "ok" THEN "next" ELSE "done"
    BY <1>4 DEF OpenSheet
  <2>2. QED
    BY <1>1, <1>2, <2>1 DEF SheetCourse, Comes
<1>5. ASSUME NEW how, SheetRecord(how), Len(sheetResults) < Len(SheetUnits),
             FileOutcome(sheet.file) = "ok", how = "converted" <=> sheetPhase = "lowered"
      PROVE  SheetCourse' /\ Comes(sheetResults, sheetResults', sheetPhase = "lowered")
  <2>1. /\ sheetResults' = Append(sheetResults, how)
        /\ sheetPhase' = IF sheet.whole /\ how # "converted" THEN "done" ELSE "next"
    BY <1>5 DEF SheetRecord
  <2>2. sheetResults \in Seq(ToSet(sheetResults))
    BY DEF SheetCourse
  <2>3. /\ sheetResults' \in Seq(ToSet(sheetResults'))
        /\ Len(sheetResults') <= Len(SheetUnits)
        /\ sheet.whole /\ how # "converted" => Through(SheetUnits, sheetResults', sheet.whole)
    <3>1. PICK asks, came, whole :
            asks = SheetUnits /\ came = sheetResults /\ whole = sheet.whole
      OBVIOUS
    <3>2. QED
      BY <1>3, <1>5, <2>1, <2>2, <3>1, Recorded
  <2>4. Through(SheetUnits, sheetResults, sheet.whole)'
          = Through(SheetUnits, sheetResults', sheet.whole)
    BY <1>1, <1>2 DEF Through
  <2>5. SheetCourse'
    BY <1>2, <1>5, <2>1, <2>3, <2>4 DEF SheetCourse
  <2>6. QED
    BY <1>5, <2>1, <2>5 DEF Comes
<1>6. CASE RefuseCircuit
  <2>1. /\ sheetPhase = "next" /\ Len(sheetResults) < Len(SheetUnits)
        /\ SheetRecord("unknown") \/ SheetRecord(CircuitOutcome(Circuit))
    BY <1>6 DEF RefuseCircuit
  <2>2. FileOutcome(sheet.file) = "ok"
    BY <2>1 DEF SheetCourse
  <2>3. PICK how : how = CircuitOutcome(Circuit)
    OBVIOUS
  <2>4. how # "converted"
    <3>1. PICK circuit : circuit = Circuit
      OBVIOUS
    <3>2. QED
      BY <2>3, <3>1, RefusedIsReason
  <2>5. QED
    BY <1>1, <1>5, <2>1, <2>2, <2>3, <2>4
<1>7. CASE EndCircuit
  <2>1. sheetPhase = "lowered" /\ SheetRecord("converted")
    BY <1>7 DEF EndCircuit
  <2>2. FileOutcome(sheet.file) = "ok" /\ Len(sheetResults) < Len(SheetUnits)
    BY <2>1 DEF SheetCourse
  <2>3. QED
    BY <1>1, <1>5, <2>1, <2>2
<1>8. CASE StartCircuit \/ JoinPoints \/ LowerCircuit
  <2>1. /\ sheetResults' = sheetResults /\ sheetPhase \in {"next", "join"}
        /\ sheetPhase' \in {"join", "lowered"}
        /\ sheetPhase = "next" => Len(sheetResults) < Len(SheetUnits)
    BY <1>8 DEF StartCircuit, JoinPoints, LowerCircuit
  <2>2. QED
    BY <1>1, <1>2, <2>1 DEF SheetCourse, Comes
<1>9. CASE CloseSheet
  <2>1. /\ sheetPhase = "next" /\ sheetPhase' = "done" /\ sheetResults' = sheetResults
        /\ Len(sheetResults) = Len(SheetUnits)
    BY <1>9 DEF CloseSheet
  <2>2. Through(SheetUnits, sheetResults, sheet.whole)'
    BY <1>2, <2>1 DEF Through
  <2>3. QED
    BY <1>1, <1>2, <2>1, <2>2 DEF SheetCourse, Comes
<1>10. sheetResults' = sheetResults
         \/ (Len(sheetResults) < Len(SheetUnits) /\ FileOutcome(sheet.file) = "ok")
  <2>1. CASE RefuseCircuit \/ EndCircuit
    BY <2>1 DEF RefuseCircuit, EndCircuit, SheetCourse
  <2>2. CASE ~(RefuseCircuit \/ EndCircuit)
    BY <2>2 DEF SheetNext, OpenSheet, StartCircuit, JoinPoints, LowerCircuit, CloseSheet
  <2>3. QED
    BY <2>1, <2>2
<1>11. QED
  <2>1. SheetCourse' /\ Comes(sheetResults, sheetResults', sheetPhase = "lowered")
    BY <1>4, <1>6, <1>7, <1>8, <1>9 DEF SheetNext
  <2>2. QED
    BY <1>1, <1>10, <2>1

-----------------------------------------------------------------------------
(* What is kept, skipped and written.                                      *)

AllDifferent(s) == \A i, j \in DOMAIN s : s[i] = s[j] => i = j

\* The circuits that are kept are those of the units that were converted.
KeptOf(list, came, asks) ==
  LET good == {i \in DOMAIN came : came[i] = "converted"} IN
  /\ list \in Seq(ToSet(list))
  /\ ToSet(NamesOf(list)) = {asks[i] : i \in good}
  /\ Len(list) = Cardinality(good)
  /\ AllDifferent(asks) => AllDifferent(NamesOf(list))

KeptExactly == KeptOf(kept, Came, Asked)

StageInv ==
  /\ exit = "ok" => stage = "done"
  /\ stage = "compile" =>
       /\ Converted /\ Opened = "ok" /\ skipped = FailedUnits
       /\ command.use = "skip" \/ FailedUnits = <<>>

Emitting == stage \in {"check", "canonical", "verilog"} \/ exit = "ok"

\* From the compilation on every unit that was asked for is an output or is skipped.
Told ==
  Emitting =>
    /\ ToSet(outputs) \cup ToSet(skipped) = ToSet(Asked)
    /\ command.use = "skip" =>
         /\ ToSet(outputs) \cap ToSet(skipped) = {}
         /\ Len(outputs) + Len(skipped) = Len(Asked)

Target        == IF command.printed THEN "stdout" ELSE "v"
Of(extension) == {extension} \X ToSet(outputs)
Documents     == IF command.canonical THEN Of("json") ELSE {}

WrittenExactly ==
  /\ stage \in {"select", "convert", "compile", "check"} => written = {}
  /\ stage = "canonical" => written \subseteq Documents
  /\ stage = "verilog" => Documents \subseteq written /\ written \subseteq Documents \cup Of(Target)
  /\ exit = "ok" => written = Documents \cup Of(Target) /\ skipped = <<>>

ImportInv ==
  /\ DlsCourse /\ SheetCourse /\ Proper
  /\ KeptExactly /\ StageInv /\ Told /\ WrittenExactly

LEMMA NamesAre ==
  ASSUME NEW list, list \in Seq(ToSet(list))
  PROVE  /\ NamesOf(list) \in Seq(ToSet(NamesOf(list))) /\ Len(NamesOf(list)) = Len(list)
         /\ DOMAIN NamesOf(list) = DOMAIN list
         /\ \A i \in DOMAIN list : NamesOf(list)[i] = list[i].name
         /\ ToSet(NamesOf(list)) = {c.name : c \in ToSet(list)}
<1>1. PICK n \in Nat : n = Len(list) /\ DOMAIN list = 1..n
  OBVIOUS
<1>2. /\ DOMAIN NamesOf(list) = 1..n /\ \A i \in 1..n : NamesOf(list)[i] = list[i].name
  BY <1>1 DEF NamesOf
<1>3. NamesOf(list) \in [1..n -> ToSet(NamesOf(list))]
  BY <1>1 DEF NamesOf, ToSet
<1>4. NamesOf(list) \in Seq(ToSet(NamesOf(list))) /\ Len(NamesOf(list)) = n
  BY <1>2, <1>3
<1>5. ToSet(NamesOf(list)) = {c.name : c \in ToSet(list)}
  BY <1>1, <1>2 DEF ToSet
<1>6. QED
  BY <1>1, <1>2, <1>4, <1>5

LEMMA KeptStarts == \A asks : KeptOf(<<>>, <<>>, asks)
<1>1. /\ {i \in DOMAIN <<>> : <<>>[i] = "converted"} = {} /\ Cardinality({}) = 0
      /\ DOMAIN NamesOf(<<>>) = {}
  BY FS_EmptySet DEF NamesOf
<1>2. QED
  BY <1>1 DEF KeptOf, AllDifferent, ToSet

\* A unit that is converted is kept under its own name.
LEMMA KeptGrows ==
  ASSUME NEW list, NEW came, NEW asks, NEW how, NEW circuit,
         KeptOf(list, came, asks), came \in Seq(ToSet(came)), asks \in Seq(ToSet(asks)),
         Len(came) < Len(asks), circuit.name = asks[Len(came) + 1]
  PROVE  KeptOf(IF how = "converted" THEN Append(list, circuit) ELSE list,
                Append(came, how), asks)
<1> DEFINE more == Append(came, how)
           good == {i \in DOMAIN came : came[i] = "converted"}
           next_ == {i \in DOMAIN more : more[i] = "converted"}
<1>1. PICK n \in Nat : n = Len(came) /\ DOMAIN came = 1..n
  OBVIOUS
<1>2. /\ DOMAIN more = 1..n + 1 /\ more[n + 1] = how /\ \A i \in 1..n : more[i] = came[i]
      /\ DOMAIN more = DOMAIN came \cup {n + 1}
  BY <1>1, Appended
<1>3. n + 1 \notin 1..n /\ n + 1 \in DOMAIN asks /\ 1..n \subseteq DOMAIN asks
  BY <1>1
<1>4. next_ = IF how = "converted" THEN good \cup {n + 1} ELSE good
  BY <1>1, <1>2, <1>3
<1>5. CASE how # "converted"
  BY <1>4, <1>5 DEF KeptOf
<1>6. CASE how = "converted"
  <2>1. PICK new : new = Append(list, circuit)
    OBVIOUS
  <2>2. list \in Seq(ToSet(list)) /\ new \in Seq(ToSet(new))
    BY <2>1, Appended DEF KeptOf
  <2>3. PICK m \in Nat : m = Len(list) /\ DOMAIN list = 1..m
    BY <2>2
  <2>4. /\ Len(new) = m + 1 /\ DOMAIN new = 1..m + 1 /\ new[m + 1] = circuit
        /\ \A i \in 1..m : new[i] = list[i]
        /\ ToSet(new) = ToSet(list) \cup {circuit}
    BY <2>1, <2>2, <2>3, Appended
  <2>5. ToSet(NamesOf(new)) = ToSet(NamesOf(list)) \cup {asks[n + 1]}
    BY <1>1, <2>2, <2>4, NamesAre
  <2>6. ToSet(NamesOf(list)) = {asks[i] : i \in good} /\ Len(list) = Cardinality(good)
    BY DEF KeptOf
  <2>7. ToSet(NamesOf(new)) = {asks[i] : i \in next_}
    BY <1>4, <1>6, <2>5, <2>6
  <2>8. Len(new) = Cardinality(next_)
    <3>1. IsFiniteSet(good) /\ n + 1 \notin good
      <4>1. IsFiniteSet(1..n) /\ good \subseteq 1..n
        BY <1>1, FS_Interval
      <4>2. QED
        BY <1>3, <4>1, FS_Subset
    <3>2. Cardinality(good \cup {n + 1}) = Cardinality(good) + 1
      <4> HIDE DEF good
      <4>1. QED
        BY <3>1, FS_AddElement
    <3>3. QED
      BY <1>4, <1>6, <2>3, <2>4, <2>6, <3>2
  <2>9. ASSUME AllDifferent(asks)
        PROVE  AllDifferent(NamesOf(new))
    <3>1. asks[n + 1] \notin ToSet(NamesOf(list))
      <4>1. \A i \in good : i \in DOMAIN asks /\ i # n + 1
        BY <1>1, <1>3
      <4>2. QED
        BY <1>3, <2>6, <2>9, <4>1 DEF AllDifferent
    <3>2. /\ DOMAIN NamesOf(new) = 1..m + 1 /\ NamesOf(new)[m + 1] = asks[n + 1]
          /\ \A i \in 1..m : NamesOf(new)[i] = NamesOf(list)[i]
      <4>1. \A i \in 1..m + 1 : NamesOf(new)[i] = new[i].name
        BY <2>2, <2>4, NamesAre
      <4>2. \A i \in 1..m : NamesOf(list)[i] = list[i].name /\ i \in 1..m + 1
        BY <2>2, <2>3, NamesAre
      <4>3. m + 1 \in 1..m + 1 /\ new[m + 1].name = asks[n + 1]
        BY <1>1, <2>4
      <4>4. DOMAIN NamesOf(new) = 1..m + 1
        BY <2>2, <2>4, NamesAre
      <4>5. QED
        BY <2>4, <4>1, <4>2, <4>3, <4>4
    <3>3. DOMAIN NamesOf(list) = 1..m
      BY <2>2, <2>3, NamesAre
    <3>4. \A i \in 1..m : NamesOf(new)[i] # asks[n + 1]
      BY <3>1, <3>2, <3>3 DEF ToSet
    <3>5. \A i, j \in 1..m : NamesOf(new)[i] = NamesOf(new)[j] => i = j
      BY <2>9, <3>2, <3>3 DEF KeptOf, AllDifferent
    <3>6. SUFFICES ASSUME NEW i \in 1..m + 1, NEW j \in 1..m + 1,
                          NamesOf(new)[i] = NamesOf(new)[j]
                   PROVE  i = j
      BY <3>2 DEF AllDifferent
    <3>7. i \in 1..m \/ i = m + 1
      OBVIOUS
    <3>8. j \in 1..m \/ j = m + 1
      OBVIOUS
    <3>9. QED
      BY <3>2, <3>4, <3>5, <3>6, <3>7, <3>8
  <2>10. QED
    BY <1>6, <2>1, <2>2, <2>7, <2>8, <2>9 DEF KeptOf
<1>7. QED
  BY <1>5, <1>6

\* The units whose result is an error.
FailedOf(asks, came) == Sifted(asks, {i \in DOMAIN came : came[i] # "converted"})

\* What was asked for is kept or has failed, once the profile is through.
LEMMA NothingIsLost ==
  ASSUME NEW list, NEW came, NEW asks, NEW whole, NEW bad,
         KeptOf(list, came, asks), came \in Seq(ToSet(came)), asks \in Seq(ToSet(asks)),
         Through(asks, came, whole),
         bad = FailedOf(asks, came),
         ~whole \/ bad = <<>>
  PROVE  /\ bad \in Seq(ToSet(bad)) /\ Len(bad) \in Nat /\ Len(list) \in Nat
         /\ ToSet(NamesOf(list)) \cup ToSet(bad) = ToSet(asks)
         /\ Len(list) + Len(bad) = Len(asks)
         /\ AllDifferent(asks) => ToSet(NamesOf(list)) \cap ToSet(bad) = {}
<1> DEFINE good == {i \in DOMAIN came : came[i] = "converted"}
           rest == {i \in DOMAIN came : came[i] # "converted"}
<1>1. PICK n \in Nat : n = Len(came) /\ DOMAIN came = 1..n
  OBVIOUS
<1>2. good \in SUBSET (1..n) /\ rest = (1..n) \ good /\ rest \in SUBSET (1..n)
  BY <1>1
<1>3. /\ Cardinality(rest) \in Nat /\ IsFiniteSet(rest)
      /\ bad \in Seq(ToSet(bad)) /\ Len(bad) = Cardinality(rest)
      /\ ToSet(bad) = {asks[i] : i \in rest}
  <2> HIDE DEF rest
  <2>1. bad = Sifted(asks, rest)
    BY DEF rest, FailedOf
  <2>2. /\ IsFiniteSet(rest) /\ Cardinality(rest) \in Nat
        /\ Sifted(asks, rest) \in Seq(ToSet(Sifted(asks, rest)))
        /\ Len(Sifted(asks, rest)) = Cardinality(rest)
        /\ ToSet(Sifted(asks, rest)) = {asks[i] : i \in rest}
    BY <1>1, <1>2, SiftedIs
  <2>3. QED
    BY <2>1, <2>2
<1>4. Cardinality(good) + Cardinality(rest) = n
  <2> HIDE DEF good, rest
  <2>1. QED
    BY <1>2, Halves
<1>5. n = Len(asks)
  <2>1. CASE ~whole
    BY <1>1, <2>1 DEF Through
  <2>2. CASE bad = <<>>
    <3>1. Cardinality(rest) = 0
      BY <1>3, <2>2
    <3>2. rest = {}
      <4> HIDE DEF rest
      <4>1. QED
        BY <1>3, <3>1, FS_EmptySet
    <3>3. QED
      BY <1>1, <3>2 DEF Through
  <2>3. QED
    BY <2>1, <2>2
<1>6. DOMAIN asks = 1..n
  BY <1>5
<1>7. /\ list \in Seq(ToSet(list)) /\ Len(list) = Cardinality(good)
      /\ ToSet(NamesOf(list)) = {asks[i] : i \in good}
  BY DEF KeptOf
<1>8. ToSet(asks) = {asks[i] : i \in 1..n}
  BY <1>6 DEF ToSet
<1>9. ToSet(NamesOf(list)) \cup ToSet(bad) = ToSet(asks)
  <2> HIDE DEF good, rest
  <2>1. good \cup rest = 1..n
    BY <1>2
  <2>2. QED
    BY <1>3, <1>7, <1>8, <2>1
<1>10. ASSUME AllDifferent(asks)
       PROVE  ToSet(NamesOf(list)) \cap ToSet(bad) = {}
  <2> HIDE DEF good, rest
  <2>1. \A i \in good, j \in rest : asks[i] # asks[j]
    BY <1>2, <1>6, <1>10 DEF AllDifferent
  <2>2. QED
    BY <1>3, <1>7, <2>1
<1>11. Len(list) \in Nat /\ Len(list) + Len(bad) = Len(asks)
  <2> HIDE DEF good, rest
  <2>1. Len(list) \in Nat
    BY <1>7
  <2>2. QED
    BY <2>1, <1>3, <1>4, <1>5, <1>7
<1>12. QED
  BY <1>3, <1>9, <1>10, <1>11

\* What the command makes of what the profile says.
LEMMA ProfileSays ==
  ASSUME Proper, DlsCourse, SheetCourse, KeptExactly
  PROVE  /\ Came \in Seq(ToSet(Came)) /\ Len(Came) \in Nat
         /\ Opened = "ok" => Asked \in Seq(ToSet(Asked)) /\ Len(Asked) \in Nat
         /\ Opened = "ok" /\ Converted => \E whole : /\ Through(Asked, Came, whole)
                                                     /\ command.use = "skip" => ~whole
         /\ Opened = "ok" /\ command.use = "skip" => AllDifferent(Asked)
<1>1. CASE Profile = "dls"
  <2>1. Came = results /\ Asked = Units /\ Opened = Metadata /\ (Converted <=> phase = "done")
    BY <1>1 DEF Came, Asked, Opened, Converted
  <2>2. Metadata = "ok" => project.description = "ok"
    BY DEF Metadata
  <2>3. command.use = "skip" /\ Metadata = "ok" => ~project.whole /\ AllDifferent(Units)
    BY <2>2 DEF Proper, SkipsByName, AllDifferent, Units
  <2>4. QED
    BY <2>1, <2>3, UnitsAre DEF DlsCourse
<1>2. CASE Profile # "dls"
  <2>1. /\ Came = sheetResults /\ Asked = SheetUnits /\ Opened = FileOutcome(sheet.file)
        /\ (Converted <=> sheetPhase = "done")
    BY <1>2 DEF Came, Asked, Opened, Converted
  <2>2. command.use = "skip" /\ FileOutcome(sheet.file) = "ok"
          => ~sheet.whole /\ AllDifferent(SheetUnits)
    BY DEF Proper, SkipsByName, AllDifferent, SheetUnits
  <2>3. QED
    BY <2>1, <2>2, UnitsAre DEF SheetCourse
<1>3. QED
  BY <1>1, <1>2

\* What stays as it is when the profile does nothing.
LEMMA Frozen ==
  ASSUME UNCHANGED <<vars, sheetVars, command>>
  PROVE  /\ (DlsCourse /\ SheetCourse /\ Proper)' = (DlsCourse /\ SheetCourse /\ Proper)
         /\ Asked' = Asked /\ Came' = Came /\ Opened' = Opened /\ Converted' = Converted
         /\ FailedUnits' = FailedUnits /\ Profile' = Profile
<1>1. /\ project' = project /\ results' = results /\ phase' = phase /\ loaded' = loaded
      /\ sheet' = sheet /\ sheetPhase' = sheetPhase /\ sheetResults' = sheetResults
      /\ command' = command
  BY DEF vars, loaderVars, sheetVars
<1>2. Metadata' = Metadata /\ Units' = Units /\ SheetUnits' = SheetUnits
  BY <1>1 DEF Metadata, Units, SheetUnits
<1>3. DlsCourse' = DlsCourse
  BY <1>1, <1>2 DEF DlsCourse, Through
<1>4. SheetCourse' = SheetCourse
  BY <1>1, <1>2 DEF SheetCourse, Through
<1>5. Proper' = Proper
  BY <1>1 DEF Proper
<1>6. Profile' = Profile
  BY <1>1 DEF Profile
<1>7. Asked' = Asked /\ Came' = Came /\ Opened' = Opened /\ Converted' = Converted
  BY <1>1, <1>2, <1>6 DEF Asked, Came, Opened, Converted
<1>8. FailedUnits' = FailedUnits
  BY <1>7 DEF FailedUnits
<1>9. QED
  BY <1>3, <1>4, <1>5, <1>6, <1>7, <1>8

-----------------------------------------------------------------------------
(* The steps of the command.                                               *)

LEMMA ImportStarts == ImportInit => ImportInv
<1> SUFFICES ASSUME ImportInit PROVE ImportInv
  OBVIOUS
<1>1. PICK i \in ToSet(Invocations) :
        /\ command \in i.commands /\ project \in i.projects /\ sheet \in i.sheets
  BY DEF ImportInit, Init, LoaderInit, SheetInit
<1>2. Proper
  BY <1>1, ImportCommandAssumption DEF Proper
<1>3. /\ results = <<>> /\ phase = "open" /\ loaded = "ok"
      /\ sheetResults = <<>> /\ sheetPhase = "open"
      /\ stage = "select" /\ exit = "" /\ kept = <<>> /\ written = {}
  BY DEF ImportInit, Init, LoaderInit, SheetInit
<1>4. \A S : <<>> \in Seq(S) /\ Len(<<>>) = 0
  OBVIOUS
<1>5. DlsCourse /\ SheetCourse
  <2>1. results \in Seq(ToSet(results)) /\ Len(results) = 0
    BY <1>3, <1>4
  <2>2. sheetResults \in Seq(ToSet(sheetResults)) /\ Len(sheetResults) = 0
    BY <1>3, <1>4
  <2>3. Metadata = "ok" => 0 <= Len(Units)
    BY <1>2, UnitsAre
  <2>4. 0 <= Len(SheetUnits)
    BY <1>2, UnitsAre
  <2>5. DlsCourse
    BY <1>3, <2>1, <2>3 DEF DlsCourse
  <2>6. SheetCourse
    BY <1>3, <2>2, <2>4 DEF SheetCourse
  <2>7. QED
    BY <2>5, <2>6
<1>6. KeptExactly
  <2>1. Came = <<>>
    BY <1>3 DEF Came
  <2>2. PICK asks : asks = Asked
    OBVIOUS
  <2>3. QED
    BY <1>3, <2>1, <2>2, KeptStarts DEF KeptExactly
<1>7. StageInv /\ Told /\ WrittenExactly
  BY <1>3 DEF StageInv, Told, Emitting, WrittenExactly
<1>8. QED
  BY <1>2, <1>5, <1>6, <1>7 DEF ImportInv

LEMMA ConvertKept ==
  ASSUME ImportInv, ConvertDls \/ ConvertLogisim
  PROVE  ImportInv'
<1>1. stage = "convert" /\ UNCHANGED <<command, stage, skipped, outputs, written, exit>>
  BY DEF ConvertDls, ConvertLogisim
<1>2. exit # "ok"
  BY <1>1 DEF ImportInv, StageInv
<1>3. StageInv' /\ Told' /\ WrittenExactly'
  BY <1>1, <1>2 DEF ImportInv, StageInv, Told, Emitting, WrittenExactly
<1>4. Profile' = Profile
  BY <1>1 DEF Profile
<1>5. ASSUME NEW converted, NEW circuit, NEW asks, NEW came, NEW list,
             list = kept, asks = Asked, came = Came, KeptExactly,
             Comes(came, Came', converted), Asked' = asks, came \in Seq(ToSet(came)),
             Came' = came \/ (Len(came) < Len(asks) /\ asks \in Seq(ToSet(asks))),
             circuit.name = asks[Len(came) + 1],
             kept' = IF converted THEN Append(list, circuit) ELSE list
      PROVE  KeptExactly'
  <2>1. KeptOf(list, came, asks)
    BY <1>5 DEF KeptExactly
  <2>2. KeptExactly' <=> KeptOf(kept', Came', asks)
    BY <1>5 DEF KeptExactly
  <2>3. CASE Came' = came /\ ~converted
    BY <1>5, <2>1, <2>2, <2>3
  <2>4. CASE \E how : Came' = Append(came, how) /\ (how = "converted" <=> converted)
    <3>1. PICK how : Came' = Append(came, how) /\ (how = "converted" <=> converted)
      BY <2>4
    <3>2. Came' # came
      <4>1. Len(Append(came, how)) = Len(came) + 1 /\ Len(came) \in Nat
        BY <1>5, Appended
      <4>2. QED
        BY <3>1, <4>1
    <3>3. Len(came) < Len(asks) /\ asks \in Seq(ToSet(asks))
      BY <1>5, <3>2
    <3>4. KeptOf(IF how = "converted" THEN Append(list, circuit) ELSE list,
                 Append(came, how), asks)
      BY <1>5, <2>1, <3>3, KeptGrows
    <3>5. QED
      BY <1>5, <2>2, <3>1, <3>4
  <2>5. QED
    BY <1>5, <2>3, <2>4 DEF Comes
<1>6. CASE ConvertDls
  <2>1. /\ Profile = "dls" /\ Next /\ UNCHANGED sheetVars
        /\ Keep(phase = "elaborate" /\ outcome = "converted", Unit, document)
    BY <1>6 DEF ConvertDls
  <2>2. Proper /\ DlsCourse /\ SheetCourse /\ KeptExactly
    BY DEF ImportInv
  <2>3. /\ DlsCourse' /\ project' = project
        /\ Comes(results, results', phase = "elaborate" /\ outcome = "converted")
        /\ Metadata = "ok" \/ results' = results
        /\ results' = results \/ Len(results) < Len(Units)
    BY <2>1, <2>2, DlsStep
  <2>4. sheet' = sheet /\ SheetCourse' /\ Proper'
    <3>1. sheet' = sheet /\ sheetPhase' = sheetPhase /\ sheetResults' = sheetResults
      BY <2>1 DEF sheetVars
    <3>2. SheetUnits' = SheetUnits /\ FileOutcome(sheet.file)' = FileOutcome(sheet.file)
      BY <3>1 DEF SheetUnits
    <3>3. QED
      BY <1>1, <2>2, <2>3, <3>1, <3>2 DEF SheetCourse, Through, Proper
  <2>5. /\ Came = results /\ Asked = Units /\ Came' = results' /\ Asked' = Units
    BY <1>4, <2>1, <2>3 DEF Came, Asked, Units
  <2>6. PICK converted, circuit, asks, came, list :
          /\ converted = (phase = "elaborate" /\ outcome = "converted")
          /\ circuit = [name |-> Unit, document |-> document[1]]
          /\ list = kept /\ asks = Asked /\ came = Came
    OBVIOUS
  <2>7. circuit.name = asks[Len(came) + 1]
    BY <2>5, <2>6 DEF Unit
  <2>8. kept' = IF converted THEN Append(list, circuit) ELSE list
    BY <2>1, <2>6 DEF Keep
  <2>9. came \in Seq(ToSet(came))
    BY <2>2, <2>5, <2>6 DEF DlsCourse
  <2>10. Came' = came \/ (Len(came) < Len(asks) /\ asks \in Seq(ToSet(asks)))
    BY <2>2, <2>3, <2>5, <2>6, UnitsAre
  <2>11. Comes(came, Came', converted)
    BY <2>3, <2>5, <2>6
  <2>12. KeptExactly'
    BY <1>5, <2>2, <2>5, <2>6, <2>7, <2>8, <2>9, <2>10, <2>11
  <2>13. QED
    BY <1>3, <2>3, <2>4, <2>12 DEF ImportInv
<1>7. CASE ConvertLogisim
  <2>1. /\ Profile # "dls" /\ SheetNext /\ UNCHANGED vars
        /\ Keep(sheetPhase = "lowered", SheetUnit, sheetDocument)
    BY <1>7 DEF ConvertLogisim
  <2>2. Proper /\ DlsCourse /\ SheetCourse /\ KeptExactly
    BY DEF ImportInv
  <2>3. /\ SheetCourse' /\ sheet' = sheet
        /\ Comes(sheetResults, sheetResults', sheetPhase = "lowered")
        /\ sheetResults' = sheetResults \/ Len(sheetResults) < Len(SheetUnits)
    BY <2>1, <2>2, SheetStep
  <2>4. project' = project /\ DlsCourse' /\ Proper'
    <3>1. project' = project /\ phase' = phase /\ results' = results /\ loaded' = loaded
      BY <2>1 DEF vars, loaderVars
    <3>2. Metadata' = Metadata /\ Units' = Units
      BY <3>1 DEF Metadata, Units
    <3>3. QED
      BY <1>1, <2>2, <2>3, <3>1, <3>2 DEF DlsCourse, Through, Proper
  <2>5. Came = sheetResults /\ Asked = SheetUnits /\ Came' = sheetResults' /\ Asked' = SheetUnits
    BY <1>4, <2>1, <2>3 DEF Came, Asked, SheetUnits
  <2>6. PICK converted, circuit, asks, came, list :
          /\ converted = (sheetPhase = "lowered")
          /\ circuit = [name |-> SheetUnit, document |-> sheetDocument[1]]
          /\ list = kept /\ asks = Asked /\ came = Came
    OBVIOUS
  <2>7. circuit.name = asks[Len(came) + 1]
    BY <2>5, <2>6 DEF SheetUnit
  <2>8. kept' = IF converted THEN Append(list, circuit) ELSE list
    BY <2>1, <2>6 DEF Keep
  <2>9. came \in Seq(ToSet(came))
    BY <2>2, <2>5, <2>6 DEF SheetCourse
  <2>10. Came' = came \/ (Len(came) < Len(asks) /\ asks \in Seq(ToSet(asks)))
    BY <2>2, <2>3, <2>5, <2>6, UnitsAre
  <2>11. Comes(came, Came', converted)
    BY <2>3, <2>5, <2>6
  <2>12. KeptExactly'
    BY <1>5, <2>2, <2>5, <2>6, <2>7, <2>8, <2>9, <2>10, <2>11
  <2>13. QED
    BY <1>3, <2>3, <2>4, <2>12 DEF ImportInv
<1>8. QED
  BY <1>6, <1>7

\* What does not touch the profile, the arguments and what is kept.
LEMMA Still ==
  ASSUME ImportInv, UNCHANGED <<vars, sheetVars, command, kept>>
  PROVE  /\ DlsCourse' /\ SheetCourse' /\ Proper' /\ KeptExactly'
         /\ Asked' = Asked /\ Opened' = Opened /\ Converted' = Converted
         /\ FailedUnits' = FailedUnits
<1>1. UNCHANGED <<vars, sheetVars, command>> /\ kept' = kept
  OBVIOUS
<1>2. /\ (DlsCourse /\ SheetCourse /\ Proper)' = (DlsCourse /\ SheetCourse /\ Proper)
      /\ Asked' = Asked /\ Came' = Came /\ Opened' = Opened /\ Converted' = Converted
      /\ FailedUnits' = FailedUnits
  BY <1>1, Frozen
<1>3. KeptExactly'
  BY <1>1, <1>2 DEF ImportInv, KeptExactly
<1>4. QED
  BY <1>2, <1>3 DEF ImportInv

\* A run may stop anywhere with an error.
LEMMA Stops ==
  ASSUME ImportInv, UNCHANGED <<vars, sheetVars, command, kept>>,
         stage' = "done", exit' # "ok"
  PROVE  ImportInv'
<1>1. StageInv' /\ Told' /\ WrittenExactly'
  BY DEF StageInv, Told, Emitting, WrittenExactly
<1>2. QED
  BY <1>1, Still DEF ImportInv

LEMMA SelectKept ==
  ASSUME ImportInv, SelectProfile
  PROVE  ImportInv'
<1>1. /\ UNCHANGED <<vars, sheetVars, command, kept>>
      /\ UNCHANGED <<skipped, outputs, written>> /\ stage = "select"
      /\ \/ stage' = "convert" /\ exit' = exit
         \/ stage' = "done" /\ exit' = "invalid"
  BY DEF SelectProfile, Exit
<1>2. exit' # "ok"
  BY <1>1 DEF ImportInv, StageInv
<1>3. CASE stage' = "convert"
  <2>1. StageInv' /\ Told' /\ WrittenExactly'
    BY <1>1, <1>2, <1>3 DEF ImportInv, StageInv, Told, Emitting, WrittenExactly
  <2>2. QED
    BY <1>1, <2>1, Still DEF ImportInv
<1>4. CASE stage' = "done"
  BY <1>1, <1>2, <1>4, Stops
<1>5. QED
  BY <1>1, <1>3, <1>4

LEMMA EndConversionKept ==
  ASSUME ImportInv, EndConversion
  PROVE  ImportInv'
<1>1. /\ UNCHANGED <<vars, sheetVars, command, kept>> /\ UNCHANGED <<outputs, written>>
      /\ stage = "convert" /\ Converted
  BY DEF EndConversion
<1>2. \/ stage' = "done" /\ exit' \in {exit, "io", "invalid"}
      \/ /\ Opened = "ok" /\ skipped' = FailedUnits
         /\ command.use = "skip" \/ FailedUnits = <<>>
         /\ stage' = "compile" /\ exit' = exit
  BY DEF EndConversion, Exit, ExitCode
<1>3. exit # "ok" /\ exit' # "ok"
  BY <1>1, <1>2 DEF ImportInv, StageInv
<1>4. CASE stage' = "compile"
  <2>1. /\ Opened = "ok" /\ skipped' = FailedUnits
        /\ command.use = "skip" \/ FailedUnits = <<>>
    BY <1>2, <1>4
  <2>2. /\ DlsCourse' /\ SheetCourse' /\ Proper' /\ KeptExactly'
        /\ Opened' = Opened /\ Converted' = Converted /\ FailedUnits' = FailedUnits
    BY <1>1, Still
  <2>3. StageInv'
    BY <1>1, <1>3, <2>1, <2>2 DEF StageInv
  <2>4. Told' /\ WrittenExactly'
    BY <1>1, <1>3, <1>4 DEF ImportInv, Told, Emitting, WrittenExactly
  <2>5. QED
    BY <2>2, <2>3, <2>4 DEF ImportInv
<1>5. CASE stage' = "done"
  BY <1>1, <1>3, <1>5, Stops
<1>6. QED
  BY <1>2, <1>4, <1>5

LEMMA Concatenated ==
  ASSUME NEW s, NEW t, s \in Seq(ToSet(s)), t \in Seq(ToSet(t))
  PROVE  ToSet(s \o t) = ToSet(s) \cup ToSet(t) /\ Len(s \o t) = Len(s) + Len(t)
<1>1. PICK T : T = ToSet(s) \cup ToSet(t)
  OBVIOUS
<1>2. s \in Seq(T) /\ t \in Seq(T)
  BY <1>1
<1>3. PICK st : st = s \o t
  OBVIOUS
<1>4. /\ st \in Seq(T) /\ Len(st) = Len(s) + Len(t)
      /\ \A i \in 1..Len(s) + Len(t) : st[i] = IF i <= Len(s) THEN s[i] ELSE t[i - Len(s)]
  BY <1>2, <1>3, ConcatProperties
<1>5. PICK m \in Nat, n \in Nat :
        m = Len(s) /\ n = Len(t) /\ DOMAIN s = 1..m /\ DOMAIN t = 1..n
  OBVIOUS
<1>6. DOMAIN st = 1..m + n
  BY <1>4, <1>5
<1>7. ToSet(st) \subseteq T
  <2>1. \A i \in DOMAIN st : st[i] \in T
    BY <1>4
  <2>2. QED
    BY <2>1 DEF ToSet
<1>8. \A i \in 1..m : s[i] \in ToSet(st)
  <2>1. \A i \in 1..m : i \in 1..m + n /\ i <= m
    BY <1>5
  <2>2. \A i \in 1..m : st[i] = s[i]
    BY <1>4, <1>5, <2>1
  <2>3. \A i \in 1..m : i \in DOMAIN st
    BY <1>6, <2>1
  <2>4. QED
    BY <2>2, <2>3 DEF ToSet
<1>9. \A i \in 1..n : t[i] \in ToSet(st)
  <2>1. \A i \in 1..n : m + i \in 1..m + n /\ ~(m + i <= m) /\ m + i - m = i
    BY <1>5
  <2>2. \A i \in 1..n : st[m + i] = t[i]
    BY <1>4, <1>5, <2>1
  <2>3. \A i \in 1..n : m + i \in DOMAIN st
    BY <1>6, <2>1
  <2>4. QED
    BY <2>2, <2>3 DEF ToSet
<1>10. T \subseteq ToSet(st)
  <2>1. ToSet(s) = {s[i] : i \in 1..m} /\ ToSet(t) = {t[i] : i \in 1..n}
    BY <1>5 DEF ToSet
  <2>2. QED
    BY <1>1, <1>8, <1>9, <2>1
<1>11. QED
  BY <1>1, <1>3, <1>4, <1>7, <1>10

\* The names of the circuits at some places, and of those at the others.
LEMMA Parted ==
  ASSUME NEW list, list \in Seq(ToSet(list)),
         NEW P \in SUBSET DOMAIN list, NEW Q, Q = DOMAIN list \ P,
         NEW g, NEW b, g = NamesOf(Sifted(list, P)), b = NamesOf(Sifted(list, Q))
  PROVE  /\ b \in Seq(ToSet(b)) /\ Len(g) \in Nat /\ Len(b) \in Nat
         /\ ToSet(NamesOf(list)) = ToSet(g) \cup ToSet(b)
         /\ Len(g) + Len(b) = Len(list)
         /\ AllDifferent(NamesOf(list)) => ToSet(g) \cap ToSet(b) = {}
<1>1. PICK n \in Nat : n = Len(list) /\ DOMAIN list = 1..n
  OBVIOUS
<1>2. PICK names : names = NamesOf(list)
  OBVIOUS
<1>3. DOMAIN names = 1..n /\ \A i \in 1..n : names[i] = list[i].name
  BY <1>1, <1>2, NamesAre
<1>4. ASSUME NEW R \in SUBSET (1..n), NEW part, part = Sifted(list, R)
      PROVE  /\ NamesOf(part) \in Seq(ToSet(NamesOf(part)))
             /\ Len(NamesOf(part)) = Cardinality(R) /\ Cardinality(R) \in Nat
             /\ ToSet(NamesOf(part)) = {names[i] : i \in R}
  <2>1. /\ Cardinality(R) \in Nat
        /\ part \in Seq(ToSet(part)) /\ Len(part) = Cardinality(R)
        /\ ToSet(part) = {list[i] : i \in R}
    BY <1>4, SiftedIs
  <2>2. /\ NamesOf(part) \in Seq(ToSet(NamesOf(part))) /\ Len(NamesOf(part)) = Len(part)
        /\ ToSet(NamesOf(part)) = {c.name : c \in ToSet(part)}
    BY <2>1, NamesAre
  <2>3. {c.name : c \in ToSet(part)} = {names[i] : i \in R}
    BY <1>3, <2>1
  <2>4. QED
    BY <2>1, <2>2, <2>3
<1>5. P \in SUBSET (1..n) /\ Q \in SUBSET (1..n) /\ Q = (1..n) \ P
  BY <1>1
<1>6. /\ ToSet(g) = {names[i] : i \in P} /\ Len(g) = Cardinality(P) /\ Cardinality(P) \in Nat
      /\ ToSet(b) = {names[i] : i \in Q} /\ Len(b) = Cardinality(Q) /\ Cardinality(Q) \in Nat
      /\ b \in Seq(ToSet(b))
  BY <1>4, <1>5
<1>7. Cardinality(P) + Cardinality(Q) = n
  BY <1>5, Halves
<1>8. ToSet(names) = ToSet(g) \cup ToSet(b)
  <2>1. ToSet(names) = {names[i] : i \in 1..n}
    BY <1>3 DEF ToSet
  <2>2. P \cup Q = 1..n
    BY <1>5
  <2>3. QED
    BY <1>6, <2>1, <2>2
<1>9. ASSUME AllDifferent(names)
      PROVE  ToSet(g) \cap ToSet(b) = {}
  <2>1. \A i \in P, j \in Q : names[i] # names[j]
    BY <1>3, <1>5, <1>9 DEF AllDifferent
  <2>2. QED
    BY <1>6, <2>1
<1>10. QED
  BY <1>1, <1>2, <1>6, <1>7, <1>8, <1>9

LEMMA CompileKept ==
  ASSUME ImportInv, Compile
  PROVE  ImportInv'
<1> DEFINE P    == {i \in DOMAIN kept : Compiles(kept[i])}
           Q    == {i \in DOMAIN kept : ~Compiles(kept[i])}
           good == Sifted(kept, P)
           bad  == Sifted(kept, Q)
<1>1. /\ UNCHANGED <<vars, sheetVars, command, kept>> /\ UNCHANGED written
      /\ stage = "compile"
  BY DEF Compile
<1>2. \/ stage' = "done" /\ exit' = "invalid"
      \/ /\ skipped' = skipped \o NamesOf(bad) /\ outputs' = NamesOf(good)
         /\ stage' = "check" /\ exit' = exit
  BY DEF Compile, Exit
<1>3. exit # "ok" /\ exit' # "ok"
  BY <1>1, <1>2 DEF ImportInv, StageInv
<1>4. CASE stage' = "done"
  BY <1>1, <1>3, <1>4, Stops
<1>5. CASE stage' = "check"
  <2>1. skipped' = skipped \o NamesOf(bad) /\ outputs' = NamesOf(good)
    BY <1>2, <1>5
  <2>2. /\ Converted /\ Opened = "ok" /\ skipped = FailedUnits
        /\ command.use = "skip" \/ FailedUnits = <<>>
    BY <1>1 DEF ImportInv, StageInv
  <2>3. PICK list, came, asks, failed :
          list = kept /\ came = Came /\ asks = Asked /\ failed = FailedUnits
    OBVIOUS
  <2>4. /\ came \in Seq(ToSet(came)) /\ asks \in Seq(ToSet(asks))
        /\ \E whole : Through(asks, came, whole) /\ (command.use = "skip" => ~whole)
        /\ command.use = "skip" => AllDifferent(asks)
    BY <2>2, <2>3, ProfileSays DEF ImportInv
  <2>5. PICK whole : Through(asks, came, whole) /\ (command.use = "skip" => ~whole)
    BY <2>4
  <2>6. KeptOf(list, came, asks)
    BY <2>3 DEF ImportInv, KeptExactly
  <2>7. failed = FailedOf(asks, came)
    BY <2>3 DEF FailedUnits, FailedOf
  <2>8. ~whole \/ failed = <<>>
    BY <2>2, <2>3, <2>5
  <2>9. /\ failed \in Seq(ToSet(failed)) /\ Len(failed) \in Nat /\ Len(list) \in Nat
        /\ ToSet(NamesOf(list)) \cup ToSet(failed) = ToSet(asks)
        /\ Len(list) + Len(failed) = Len(asks)
        /\ AllDifferent(asks) => ToSet(NamesOf(list)) \cap ToSet(failed) = {}
    BY <2>4, <2>5, <2>6, <2>7, <2>8, NothingIsLost
  <2>10. list \in Seq(ToSet(list)) /\ (AllDifferent(asks) => AllDifferent(NamesOf(list)))
    BY <2>6 DEF KeptOf
  <2>11. PICK R, rest : R = P /\ rest = Q
    OBVIOUS
  <2>12. R \in SUBSET DOMAIN list /\ rest = DOMAIN list \ R
    BY <2>3, <2>11
  <2> HIDE DEF P, Q
  <2>13. PICK g, b : g = NamesOf(Sifted(list, R)) /\ b = NamesOf(Sifted(list, rest))
    OBVIOUS
  <2>14. /\ b \in Seq(ToSet(b)) /\ Len(g) \in Nat /\ Len(b) \in Nat
         /\ ToSet(NamesOf(list)) = ToSet(g) \cup ToSet(b)
         /\ Len(g) + Len(b) = Len(list)
         /\ AllDifferent(NamesOf(list)) => ToSet(g) \cap ToSet(b) = {}
    BY <2>10, <2>12, <2>13, Parted
  <2>15. outputs' = g /\ skipped' = failed \o b
    BY <2>1, <2>2, <2>3, <2>11, <2>13
  <2>16. /\ ToSet(failed \o b) = ToSet(failed) \cup ToSet(b)
         /\ Len(failed \o b) = Len(failed) + Len(b)
    BY <2>9, <2>14, Concatenated
  <2>17. /\ ToSet(g) \cup ToSet(failed \o b) = ToSet(asks)
         /\ Len(g) + Len(failed \o b) = Len(asks)
         /\ AllDifferent(asks) => ToSet(g) \cap ToSet(failed \o b) = {}
    <3>1. Len(g) + Len(failed \o b) = Len(asks)
      BY <2>9, <2>14, <2>16
    <3>2. QED
      BY <2>9, <2>10, <2>14, <2>16, <3>1
  <2>18. DlsCourse' /\ SheetCourse' /\ Proper' /\ KeptExactly' /\ Asked' = asks
    BY <1>1, <2>3, Still
  <2>19. Told'
    BY <1>1, <2>4, <2>15, <2>17, <2>18 DEF Told
  <2>20. StageInv' /\ WrittenExactly'
    BY <1>1, <1>3, <1>5 DEF ImportInv, StageInv, WrittenExactly
  <2>21. QED
    BY <2>18, <2>19, <2>20 DEF ImportInv
<1>6. QED
  BY <1>2, <1>4, <1>5

\* After the compilation outputs and skipped stay as they are.
LEMMA StillTold ==
  ASSUME ImportInv, Emitting, UNCHANGED <<vars, sheetVars, command, kept>>,
         UNCHANGED <<skipped, outputs>>, stage' # "compile",
         exit' = "ok" => stage' = "done"
  PROVE  /\ DlsCourse' /\ SheetCourse' /\ Proper' /\ KeptExactly' /\ StageInv' /\ Told'
         /\ Target' = Target /\ Documents' = Documents /\ Of("json")' = Of("json")
         /\ Of(Target)' = Of(Target)
<1>1. command' = command /\ outputs' = outputs /\ skipped' = skipped
  OBVIOUS
<1>2. DlsCourse' /\ SheetCourse' /\ Proper' /\ KeptExactly' /\ Asked' = Asked
  BY Still
<1>3. Told'
  BY <1>1, <1>2 DEF ImportInv, Told
<1>4. StageInv'
  BY DEF StageInv
<1>5. /\ Target' = Target /\ Documents' = Documents /\ Of("json")' = Of("json")
      /\ Of(Target)' = Of(Target)
  BY <1>1 DEF Target, Documents, Of
<1>6. QED
  BY <1>2, <1>3, <1>4, <1>5

LEMMA CheckKept ==
  ASSUME ImportInv, Check
  PROVE  ImportInv'
<1>1. /\ UNCHANGED <<vars, sheetVars, command, kept>> /\ UNCHANGED <<skipped, outputs, written>>
      /\ stage = "check"
      /\ \/ stage' = "canonical" /\ exit' = exit
         \/ stage' = "done" /\ exit' \in {"invalid", "io"}
  BY DEF Check, Exit
<1>2. exit # "ok" /\ exit' # "ok"
  BY <1>1 DEF ImportInv, StageInv
<1>3. CASE stage' = "canonical"
  <2>1. DlsCourse' /\ SheetCourse' /\ Proper' /\ KeptExactly' /\ StageInv' /\ Told'
    BY <1>1, <1>2, <1>3, StillTold DEF Emitting
  <2>2. WrittenExactly'
    BY <1>1, <1>2, <1>3 DEF ImportInv, WrittenExactly
  <2>3. QED
    BY <2>1, <2>2 DEF ImportInv
<1>4. CASE stage' = "done"
  BY <1>1, <1>2, <1>4, Stops
<1>5. QED
  BY <1>1, <1>3, <1>4

LEMMA FailsKept ==
  ASSUME ImportInv, Fails
  PROVE  ImportInv'
<1>1. UNCHANGED <<vars, sheetVars, command, kept>> /\ stage' = "done" /\ exit' # "ok"
  BY DEF Fails, Exit
<1>2. QED
  BY <1>1, Stops

\* What is written is of an output, and when nothing more can be, all of them are.
LEMMA WriteIs ==
  ASSUME NEW extension
  PROVE  /\ Write(extension) =>
              written \subseteq written' /\ written' \subseteq written \cup Of(extension)
         /\ Unwritten(extension) = {} => Of(extension) \subseteq written
<1>1. \A i \in DOMAIN outputs : <<extension, outputs[i]>> \in Of(extension)
  BY DEF Of, ToSet
<1>2. Unwritten(extension) \subseteq DOMAIN outputs
  BY DEF Unwritten
<1>3. Write(extension) =>
        \E i \in DOMAIN outputs : written' = written \cup {<<extension, outputs[i]>>}
  BY <1>2 DEF Write
<1>4. ASSUME Unwritten(extension) = {}
      PROVE  Of(extension) \subseteq written
  <2>1. \A i \in DOMAIN outputs : <<extension, outputs[i]>> \in written
    BY <1>4 DEF Unwritten
  <2>2. \A f \in Of(extension) : \E i \in DOMAIN outputs : f = <<extension, outputs[i]>>
    BY DEF Of, ToSet
  <2>3. QED
    BY <2>1, <2>2
<1>5. QED
  BY <1>1, <1>3, <1>4

LEMMA WritesKept ==
  ASSUME ImportInv, WriteCanonical \/ EndCanonical \/ WriteVerilog
  PROVE  ImportInv'
<1>1. /\ UNCHANGED <<vars, sheetVars, command, kept>> /\ UNCHANGED <<skipped, outputs, exit>>
      /\ stage \in {"canonical", "verilog"}
  BY DEF WriteCanonical, EndCanonical, WriteVerilog, Write
<1>2. stage' \in {"canonical", "verilog"}
  BY <1>1 DEF WriteCanonical, EndCanonical, WriteVerilog, Write
<1>3. exit # "ok" /\ exit' # "ok"
  BY <1>1 DEF ImportInv, StageInv
<1>4. /\ DlsCourse' /\ SheetCourse' /\ Proper' /\ KeptExactly' /\ StageInv' /\ Told'
      /\ Documents' = Documents /\ Of(Target)' = Of(Target)
  <2>1. Emitting
    BY <1>1 DEF Emitting
  <2>2. QED
    BY <1>1, <1>2, <1>3, <2>1, StillTold
<1>5. WrittenExactly'
  <2>1. CASE WriteCanonical
    <3>1. stage = "canonical" /\ stage' = "canonical" /\ command.canonical /\ Write("json")
      BY <2>1 DEF WriteCanonical, Write
    <3>2. written' \subseteq written \cup Of("json") /\ Documents = Of("json")
      BY <3>1, WriteIs DEF Documents
    <3>3. QED
      BY <1>3, <1>4, <3>1, <3>2 DEF ImportInv, WrittenExactly
  <2>2. CASE EndCanonical
    <3>1. /\ stage = "canonical" /\ stage' = "verilog" /\ written' = written
          /\ command.canonical => Unwritten("json") = {}
      BY <2>2 DEF EndCanonical
    <3>2. Documents \subseteq written
      BY <3>1, WriteIs DEF Documents
    <3>3. QED
      BY <1>3, <1>4, <3>1, <3>2 DEF ImportInv, WrittenExactly
  <2>3. CASE WriteVerilog
    <3>1. stage = "verilog" /\ stage' = "verilog" /\ Write(Target)
      BY <2>3 DEF WriteVerilog, Write, Target
    <3>2. written \subseteq written' /\ written' \subseteq written \cup Of(Target)
      BY <3>1, WriteIs
    <3>3. QED
      BY <1>3, <1>4, <3>1, <3>2 DEF ImportInv, WrittenExactly
  <2>4. QED
    BY <2>1, <2>2, <2>3
<1>6. QED
  BY <1>4, <1>5 DEF ImportInv

LEMMA EndImportKept ==
  ASSUME ImportInv, EndImport
  PROVE  ImportInv'
<1>1. /\ UNCHANGED <<vars, sheetVars, command, kept>> /\ UNCHANGED <<skipped, outputs, written>>
      /\ stage = "verilog" /\ stage' = "done" /\ Unwritten(Target) = {}
      /\ exit' = IF skipped = <<>> THEN "ok" ELSE "invalid"
  BY DEF EndImport, Exit, Target
<1>2. CASE skipped = <<>>
  <2>1. Emitting
    BY <1>1 DEF Emitting
  <2>2. /\ DlsCourse' /\ SheetCourse' /\ Proper' /\ KeptExactly' /\ StageInv' /\ Told'
        /\ Documents' = Documents /\ Of(Target)' = Of(Target)
    BY <1>1, <2>1, StillTold
  <2>3. Of(Target) \subseteq written
    BY <1>1, WriteIs
  <2>4. WrittenExactly'
    BY <1>1, <1>2, <2>2, <2>3 DEF ImportInv, WrittenExactly
  <2>5. QED
    BY <2>2, <2>4 DEF ImportInv
<1>3. CASE skipped # <<>>
  BY <1>1, <1>3, Stops
<1>4. QED
  BY <1>2, <1>3

LEMMA ImportStands ==
  ASSUME ImportInv, UNCHANGED importVars
  PROVE  ImportInv'
<1>1. /\ UNCHANGED <<vars, sheetVars, command, kept>>
      /\ UNCHANGED <<stage, skipped, outputs, written, exit>>
  BY DEF importVars, commandVars
<1>2. /\ DlsCourse' /\ SheetCourse' /\ Proper' /\ KeptExactly' /\ Asked' = Asked
      /\ Opened' = Opened /\ Converted' = Converted /\ FailedUnits' = FailedUnits
  BY <1>1, Still
<1>3. StageInv' /\ Told'
  BY <1>1, <1>2 DEF ImportInv, StageInv, Told, Emitting
<1>4. WrittenExactly'
  BY <1>1 DEF ImportInv, WrittenExactly, Documents, Target, Of
<1>5. QED
  BY <1>2, <1>3, <1>4 DEF ImportInv

\* The invariant of the command, whatever the profile finds, and whatever the
\* kernel and the file system make of it.
THEOREM ImportInvariant == ImportSpec => []ImportInv
<1>1. ImportInv /\ [ImportNext]_importVars => ImportInv'
  <2> SUFFICES ASSUME ImportInv, [ImportNext]_importVars
               PROVE  ImportInv'
    OBVIOUS
  <2>1. CASE ConvertDls \/ ConvertLogisim
    BY <2>1, ConvertKept
  <2>2. CASE SelectProfile
    BY <2>2, SelectKept
  <2>3. CASE EndConversion
    BY <2>3, EndConversionKept
  <2>4. CASE Compile
    BY <2>4, CompileKept
  <2>5. CASE Check
    BY <2>5, CheckKept
  <2>6. CASE Fails
    BY <2>6, FailsKept
  <2>7. CASE WriteCanonical \/ EndCanonical \/ WriteVerilog
    BY <2>7, WritesKept
  <2>8. CASE EndImport
    BY <2>8, EndImportKept
  <2>9. CASE UNCHANGED importVars
    BY <2>9, ImportStands
  <2>10. QED
    BY <2>1, <2>2, <2>3, <2>4, <2>5, <2>6, <2>7, <2>8, <2>9 DEF ImportNext
<1>2. QED
  BY <1>1, ImportStarts, PTL DEF ImportSpec

\* After exit code 0 every unit that was asked for, under any of the four uses, is
\* written as it was asked for, and nothing else is.
THEOREM ZeroIsEverything == ImportSpec => []ZeroMeansEverything
<1>1. ImportInv => ZeroMeansEverything
  <2> SUFFICES ASSUME ImportInv, exit = "ok"
               PROVE  /\ Left("v") \cup Left("stdout") = ToSet(Asked)
                      /\ Left("json") = IF command.canonical THEN ToSet(Asked) ELSE {}
    BY DEF ZeroMeansEverything
  <2>1. written = Documents \cup Of(Target) /\ skipped = <<>>
    BY DEF ImportInv, WrittenExactly
  <2>2. ToSet(outputs) = ToSet(Asked)
    <3>1. ToSet(skipped) = {}
      BY <2>1 DEF ToSet
    <3>2. QED
      BY <3>1 DEF ImportInv, Told, Emitting
  <2>3. \A e : {f[2] : f \in Of(e)} = ToSet(outputs) /\ \A f \in Of(e) : f[1] = e
    <3> SUFFICES ASSUME NEW e
                 PROVE  {f[2] : f \in Of(e)} = ToSet(outputs) /\ \A f \in Of(e) : f[1] = e
      OBVIOUS
    <3>1. \A f \in Of(e) : f[1] = e /\ f[2] \in ToSet(outputs)
      BY DEF Of
    <3>2. \A u \in ToSet(outputs) : <<e, u>> \in Of(e) /\ <<e, u>>[2] = u
      BY DEF Of
    <3>3. QED
      BY <3>1, <3>2
  <2>4. Target \in {"v", "stdout"}
    BY DEF Target
  <2>5. \A f \in written : f[1] = "json" \/ f[1] = Target
    BY <2>1, <2>3 DEF Documents
  <2>6. {g \in written : g[1] = Target} = Of(Target)
    BY <2>1, <2>3, <2>4 DEF Documents
  <2>7. {g \in written : g[1] = "json"} = Documents
    BY <2>1, <2>3, <2>4 DEF Documents
  <2>8. Left(Target) = ToSet(outputs)
    BY <2>3, <2>6 DEF Left
  <2>9. \A e \in {"v", "stdout"} : e # Target => Left(e) = {}
    BY <2>5 DEF Left
  <2>10. Left("json") = IF command.canonical THEN ToSet(outputs) ELSE {}
    BY <2>3, <2>7 DEF Left, Documents
  <2>11. QED
    BY <2>2, <2>4, <2>8, <2>9, <2>10
<1>2. QED
  BY <1>1, ImportInvariant, PTL

\* A run of --skip-unsupported writes or reports each unit of the listing, and none
\* of them twice.
THEOREM EveryUnitAccounted == ImportSpec => []EveryUnitIsAccountedFor
<1>1. ImportInv => EveryUnitIsAccountedFor
  BY DEF ImportInv, Told, Emitting, EveryUnitIsAccountedFor
<1>2. QED
  BY <1>1, ImportInvariant, PTL

-----------------------------------------------------------------------------
(* The loader as the command uses it.                                      *)

\* Nothing is loaded from a project whose listing was refused.
LoaderInUse ==
  /\ Metadata = "ok" => LoaderInv
  /\ Metadata # "ok" => asked = <<>>

\* One step of the command is at most one of the loader.
LEMMA LoaderSteps ==
  ASSUME ImportInv, [ImportNext]_importVars
  PROVE  /\ project' = project
         /\ \/ UNCHANGED loaderVars
            \/ Metadata = "ok" /\ (LoaderNext \/ \E unit \in Listed : AskFor(unit))
<1>1. CASE ConvertDls
  <2>1. Next
    BY <1>1 DEF ConvertDls
  <2>2. project' = project
    BY <2>1, DlsStep DEF ImportInv
  <2>3. Metadata # "ok" => phase \in {"open", "done"}
    BY DEF ImportInv, DlsCourse
  <2>4. CASE LoadUnit
    <3>1. phase = "next" /\ AskFor(Unit)
      BY <2>4 DEF LoadUnit
    <3>2. Unit \in Listed
      BY <3>1 DEF AskFor
    <3>3. QED
      BY <2>2, <2>3, <3>1, <3>2
  <2>5. CASE Load
    BY <2>2, <2>3, <2>5 DEF Load
  <2>6. CASE ~(LoadUnit \/ Load)
    <3>1. UNCHANGED loaderVars
      BY <2>1, <2>6 DEF Next, OpenProject, RefuseUnit, LoadFailed, StartUnit, Elaborate,
                        EndUnit, Close
    <3>2. QED
      BY <2>2, <3>1
  <2>7. QED
    BY <2>4, <2>5, <2>6
<1>2. CASE ~ConvertDls
  <2>1. UNCHANGED vars
    BY <1>2 DEF ImportNext, SelectProfile, ConvertLogisim, EndConversion, Compile, Check, Fails,
                WriteCanonical, EndCanonical, WriteVerilog, Write, EndImport, importVars
  <2>2. UNCHANGED loaderVars
    BY <2>1 DEF vars
  <2>3. QED
    BY <2>2 DEF loaderVars
<1>3. QED
  BY <1>1, <1>2

LEMMA LoaderUsed == ImportSpec => []LoaderInUse
<1>1. ImportInit => LoaderInUse
  <2> SUFFICES ASSUME ImportInit
               PROVE  LoaderInUse
    OBVIOUS
  <2>1. LoaderInit(project) /\ asked = <<>>
    BY DEF ImportInit, Init, LoaderInit
  <2>2. Metadata = "ok" => IsProject(project)
    BY ImportStarts DEF ImportInv, Proper, Metadata
  <2>3. QED
    BY <2>1, <2>2, LoaderStarts DEF LoaderInUse
<1>2. ImportInv /\ LoaderInUse /\ [ImportNext]_importVars => LoaderInUse'
  <2> SUFFICES ASSUME ImportInv, LoaderInUse, [ImportNext]_importVars
               PROVE  LoaderInUse'
    OBVIOUS
  <2>1. /\ project' = project
        /\ \/ UNCHANGED loaderVars
           \/ Metadata = "ok" /\ (LoaderNext \/ \E unit \in Listed : AskFor(unit))
    BY LoaderSteps
  <2>2. Metadata' = Metadata
    BY <2>1 DEF Metadata
  <2>3. CASE Metadata = "ok"
    <3>1. LoaderInv'
      BY <2>1, <2>3, LoaderKept DEF LoaderInUse
    <3>2. QED
      BY <2>2, <2>3, <3>1 DEF LoaderInUse
  <2>4. CASE Metadata # "ok"
    BY <2>1, <2>2, <2>4 DEF LoaderInUse, loaderVars
  <2>5. QED
    BY <2>3, <2>4
<1>3. QED
  BY <1>1, <1>2, ImportInvariant, PTL DEF ImportSpec

\* In every run of the command, whichever units it asks for and in whatever order, a
\* unit of the project is loaded exactly when it would be loaded alone.
THEOREM ImportLoadsAsIfAlone == ImportSpec => []LoadsAsIfAlone
<1>1. LoaderInUse => LoadsAsIfAlone
  <2>1. asked = <<>> => LoadsAsIfAlone
    BY Singles DEF LoadsAsIfAlone
  <2>2. QED
    BY <2>1, AsIfAlone DEF LoaderInUse
<1>2. QED
  BY <1>1, LoaderUsed, PTL

-----------------------------------------------------------------------------
(***************************************************************************)
(* The documents of the DLS profile.                                       *)
(*                                                                         *)
(* Numbers, as names end in them, are different for different numbers.     *)
(***************************************************************************)
Spelled(f, k) == IF k < 10 THEN <<DigitChars[k + 1]>>
                 ELSE Append(f[k \div 10], DigitChars[(k % 10) + 1])

IsDecimal(f, m) == \A k \in 0..m : f[k] = Spelled(f, k)

LEMMA Tenth ==
  \A k \in Nat : ~(k < 10) =>
    /\ k \div 10 \in 0..k - 1 /\ k % 10 \in 0..9
    /\ k = 10 * (k \div 10) + (k % 10)
OBVIOUS

LEMMA SpelledAlike ==
  ASSUME NEW f, NEW g, NEW k, ~(k < 10) => f[k \div 10] = g[k \div 10]
  PROVE  Spelled(f, k) = Spelled(g, k)
BY Zenon DEF Spelled

LEMMA DigitsAre ==
  /\ \A d \in 0..9 : DigitChars[d + 1] \in Digits
  /\ \A d, e \in 0..9 : DigitChars[d + 1] = DigitChars[e + 1] => d = e
BY DEF Digits, DigitChars

LEMMA SpelledIs ==
  ASSUME NEW f, NEW k \in Nat, ~(k < 10) => f[k \div 10] \in Seq(Digits)
  PROVE  Spelled(f, k) \in Seq(Digits)
<1>1. CASE k < 10
  <2>1. k \in 0..9
    BY <1>1
  <2>2. DigitChars[k + 1] \in Digits
    BY <2>1, DigitsAre
  <2>3. QED
    BY <1>1, <2>2 DEF Spelled
<1>2. CASE ~(k < 10)
  <2>1. k % 10 \in 0..9
    BY <1>2, Tenth
  <2>2. f[k \div 10] \in Seq(Digits) /\ DigitChars[(k % 10) + 1] \in Digits
    BY <1>2, <2>1, DigitsAre
  <2>3. QED
    BY <1>2, <2>2 DEF Spelled
<1>3. QED
  BY <1>1, <1>2

\* There is one such function.
LEMMA OneDecimal ==
  ASSUME NEW m \in Nat, NEW n \in Nat, NEW f, NEW g, IsDecimal(f, m), IsDecimal(g, n),
         NEW k \in 0..m, k \in 0..n
  PROVE  f[k] = g[k]
<1> DEFINE Bad == {i \in 0..k : f[i] # g[i]}
<1>1. SUFFICES ASSUME Bad # {}
               PROVE  FALSE
  OBVIOUS
<1>2. PICK x \in Bad : \A y \in Bad : x <= y
  <2>1. Bad \subseteq Nat
    OBVIOUS
  <2> HIDE DEF Bad
  <2>2. QED
    BY <1>1, <2>1, Least
<1>3. x \in 0..m /\ x \in 0..n /\ x \in 0..k /\ f[x] # g[x]
  OBVIOUS
<1>4. ~(x < 10) => f[x \div 10] = g[x \div 10]
  <2>1. ~(x < 10) => x \div 10 \in 0..k /\ x \div 10 < x
    BY <1>3, Tenth
  <2>2. QED
    BY <1>2, <2>1
<1>5. Spelled(f, x) = Spelled(g, x)
  BY <1>4, SpelledAlike
<1>6. f[x] = Spelled(f, x) /\ g[x] = Spelled(g, x)
  BY <1>3 DEF IsDecimal
<1>7. QED
  BY <1>3, <1>5, <1>6

LEMMA Decimals ==
  ASSUME NEW n \in Nat
  PROVE  \E f \in [0..n -> Seq(Digits)] : IsDecimal(f, n) /\ Number(n) = f[n]
<1> DEFINE T == {m \in 0..n : \E f \in [0..m -> Seq(Digits)] : IsDecimal(f, m)}
           Is(f) == f = [k \in 0..n |->
                           IF k < 10 THEN <<DigitChars[k + 1]>>
                           ELSE Append(f[k \div 10], DigitChars[(k % 10) + 1])]
<1>1. 0 \in T
  <2>1. PICK f : f = [k \in 0..0 |-> <<DigitChars[k + 1]>>]
    OBVIOUS
  <2>2. <<DigitChars[0 + 1]>> \in Seq(Digits)
    BY DigitsAre
  <2>3. f \in [0..0 -> Seq(Digits)] /\ IsDecimal(f, 0)
    BY <2>1, <2>2 DEF IsDecimal, Spelled
  <2>4. QED
    BY <2>3
<1>2. ASSUME NEW m \in 1..n, m - 1 \in T
      PROVE  m \in T
  <2>1. PICK f \in [0..m - 1 -> Seq(Digits)] : IsDecimal(f, m - 1)
    BY <1>2
  <2>2. PICK last : last = Spelled(f, m)
    OBVIOUS
  <2>3. last \in Seq(Digits)
    <3>1. ~(m < 10) => m \div 10 \in 0..m - 1
      BY Tenth
    <3>2. ~(m < 10) => f[m \div 10] \in Seq(Digits)
      BY <3>1
    <3>3. QED
      BY <2>2, <3>2, SpelledIs
  <2>4. PICK g : g = [i \in 0..m |-> IF i = m THEN last ELSE f[i]]
    OBVIOUS
  <2>5. g \in [0..m -> Seq(Digits)] /\ g[m] = last /\ \A i \in 0..m - 1 : g[i] = f[i]
    <3>1. \A i \in 0..m : i # m => i \in 0..m - 1
      OBVIOUS
    <3>2. \A i \in 0..m - 1 : i \in 0..m /\ i # m
      OBVIOUS
    <3>3. \A i \in 0..m : g[i] \in Seq(Digits)
      BY <2>3, <2>4, <3>1
    <3>4. m \in 0..m
      OBVIOUS
    <3>5. QED
      BY <2>4, <3>2, <3>3, <3>4
  <2>6. IsDecimal(g, m)
    <3> SUFFICES ASSUME NEW k \in 0..m
                 PROVE  g[k] = Spelled(g, k)
      BY DEF IsDecimal
    <3>1. ~(k < 10) => k \div 10 \in 0..m - 1
      BY Tenth
    <3>2. ~(k < 10) => g[k \div 10] = f[k \div 10]
      BY <2>5, <3>1
    <3>3. Spelled(g, k) = Spelled(f, k)
      BY <3>2, SpelledAlike
    <3>4. CASE k = m
      BY <2>2, <2>5, <3>3, <3>4
    <3>5. CASE k # m
      <4>1. k \in 0..m - 1
        BY <3>5
      <4>2. f[k] = Spelled(f, k)
        BY <2>1, <4>1 DEF IsDecimal
      <4>3. QED
        BY <2>5, <3>3, <4>1, <4>2
    <3>6. QED
      BY <3>4, <3>5
  <2>7. m \in 0..n
    OBVIOUS
  <2>8. QED
    BY <2>5, <2>6, <2>7
<1>3. n \in T
  <2>1. \A m \in 0..n : m \in T
    <3> HIDE DEF T
    <3>1. QED
      BY <1>1, <1>2, Induction
  <2>2. QED
    BY <2>1
<1>4. PICK f \in [0..n -> Seq(Digits)] : IsDecimal(f, n)
  BY <1>3
<1>5. Is(f)
  <2>1. f = [k \in 0..n |-> Spelled(f, k)]
    BY <1>4 DEF IsDecimal
  <2>2. QED
    BY <2>1 DEF Spelled
<1>6. Number(n) = (CHOOSE g : Is(g))[n]
  BY DEF Number
<1>7. PICK g : g = (CHOOSE h : Is(h)) /\ Is(g)
  BY <1>5
<1>8. IsDecimal(g, n)
  BY <1>7 DEF IsDecimal, Spelled
<1>9. Number(n) = f[n]
  <2>1. n \in 0..n
    OBVIOUS
  <2>2. g[n] = f[n]
    BY <1>4, <1>8, <2>1, OneDecimal
  <2>3. QED
    BY <1>6, <1>7, <2>2
<1>10. QED
  BY <1>4, <1>9

LEMMA NumberIs ==
  ASSUME NEW n \in Nat
  PROVE  /\ Number(n) \in Seq(Digits)
         /\ n < 10 => Number(n) = <<DigitChars[n + 1]>>
         /\ ~(n < 10) => Number(n) = Append(Number(n \div 10), DigitChars[(n % 10) + 1])
<1>1. PICK f \in [0..n -> Seq(Digits)] : IsDecimal(f, n) /\ Number(n) = f[n]
  BY Decimals
<1>2. n \in 0..n
  OBVIOUS
<1>3. f[n] = Spelled(f, n) /\ f[n] \in Seq(Digits)
  BY <1>1, <1>2 DEF IsDecimal
<1>4. ASSUME ~(n < 10)
      PROVE  f[n \div 10] = Number(n \div 10)
  <2>1. PICK k \in Nat : k = n \div 10 /\ k \in 0..n
    BY <1>4, Tenth
  <2>2. PICK g \in [0..k -> Seq(Digits)] : IsDecimal(g, k) /\ Number(k) = g[k]
    BY Decimals
  <2>3. k \in 0..k
    OBVIOUS
  <2>4. IsDecimal(f, n) /\ IsDecimal(g, k) /\ k \in 0..n /\ k \in 0..k
    BY <1>1, <2>1, <2>2, <2>3
  <2>5. f[k] = g[k]
    BY <2>4, OneDecimal
  <2>6. QED
    BY <2>1, <2>2, <2>5
<1>5. n < 10 => Number(n) = <<DigitChars[n + 1]>>
  BY <1>1, <1>3 DEF Spelled
<1>6. ~(n < 10) => Number(n) = Append(Number(n \div 10), DigitChars[(n % 10) + 1])
  BY <1>1, <1>3, <1>4, Zenon DEF Spelled
<1>7. QED
  BY <1>1, <1>3, <1>5, <1>6

LEMMA NumberOfOne ==
  ASSUME NEW a \in Nat, a < 10
  PROVE  /\ Number(a) = <<DigitChars[a + 1]>> /\ Len(Number(a)) = 1
         /\ Number(a)[1] = DigitChars[a + 1]
<1>1. PICK d : d = DigitChars[a + 1]
  OBVIOUS
<1>2. Number(a) = <<d>>
  BY <1>1, NumberIs
<1>3. Len(<<d>>) = 1 /\ <<d>>[1] = d
  OBVIOUS
<1>4. QED
  BY <1>1, <1>2, <1>3

LEMMA NumberOfMore ==
  ASSUME NEW a \in Nat, ~(a < 10)
  PROVE  \E s \in Seq(Digits), d \in Digits :
           /\ s = Number(a \div 10) /\ d = DigitChars[(a % 10) + 1]
           /\ Number(a) = Append(s, d) /\ Len(s) \in Nat \ {0}
<1>1. a \div 10 \in Nat /\ a % 10 \in 0..9
  BY Tenth
<1>2. PICK b \in Nat : b = a \div 10
  BY <1>1
<1>3. Number(b) \in Seq(Digits) /\ DigitChars[(a % 10) + 1] \in Digits
  BY <1>1, NumberIs, DigitsAre
<1>4. Len(Number(b)) \in Nat \ {0}
  <2>1. CASE b < 10
    BY <2>1, NumberOfOne
  <2>2. CASE ~(b < 10)
    <3>1. PICK c \in Nat : c = b \div 10
      BY <2>2, Tenth
    <3>2. Number(b) = Append(Number(c), DigitChars[(b % 10) + 1]) /\ Number(c) \in Seq(Digits)
      BY <2>2, <3>1, NumberIs
    <3>3. PICK s \in Seq(Digits) : s = Number(c)
      BY <3>2
    <3>4. PICK d \in Digits : d = DigitChars[(b % 10) + 1]
      BY <2>2, Tenth, DigitsAre
    <3>5. Len(Append(s, d)) = Len(s) + 1 /\ Len(s) \in Nat
      BY AppendProperties
    <3>6. QED
      BY <3>2, <3>3, <3>4, <3>5
  <2>3. QED
    BY <2>1, <2>2
<1>5. Number(a) = Append(Number(b), DigitChars[(a % 10) + 1])
  BY <1>2, NumberIs
<1>6. QED
  BY <1>2, <1>3, <1>4, <1>5

LEMMA NumbersDiffer ==
  \A m, n \in Nat : Number(m) = Number(n) => m = n
<1> DEFINE Bad == {m \in Nat : \E n \in Nat : Number(m) = Number(n) /\ m # n}
<1>1. SUFFICES ASSUME Bad # {}
               PROVE  FALSE
  OBVIOUS
<1>2. PICK m \in Bad : \A y \in Bad : m <= y
  <2>1. Bad \subseteq Nat
    OBVIOUS
  <2> HIDE DEF Bad
  <2>2. QED
    BY <1>1, <2>1, Least
<1>3. m \in Nat
  OBVIOUS
<1>4. PICK n \in Nat : Number(m) = Number(n) /\ m # n
  OBVIOUS
<1>5. CASE m < 10 /\ n < 10
  <2>1. DigitChars[m + 1] = DigitChars[n + 1]
    BY <1>3, <1>4, <1>5, NumberOfOne
  <2>2. m \in 0..9 /\ n \in 0..9
    BY <1>3, <1>5
  <2>3. QED
    BY <1>4, <2>1, <2>2, DigitsAre
<1>6. ASSUME NEW a \in Nat, NEW b \in Nat, a < 10, ~(b < 10)
      PROVE  Number(a) # Number(b)
  <2>1. PICK s \in Seq(Digits), d \in Digits : Number(b) = Append(s, d) /\ Len(s) \in Nat \ {0}
    BY <1>6, NumberOfMore
  <2>2. Len(Append(s, d)) = Len(s) + 1
    OBVIOUS
  <2>3. Len(Number(a)) = 1
    BY <1>6, NumberOfOne
  <2>4. QED
    BY <2>1, <2>2, <2>3
<1>7. CASE ~(m < 10) /\ ~(n < 10)
  <2>1. PICK s \in Seq(Digits), d \in Digits :
          /\ s = Number(m \div 10) /\ d = DigitChars[(m % 10) + 1]
          /\ Number(m) = Append(s, d)
    BY <1>3, <1>7, NumberOfMore
  <2>2. PICK t \in Seq(Digits), e \in Digits :
          /\ t = Number(n \div 10) /\ e = DigitChars[(n % 10) + 1]
          /\ Number(n) = Append(t, e)
    BY <1>7, NumberOfMore
  <2>3. Append(s, d) = Append(t, e)
    BY <1>4, <2>1, <2>2
  <2>4. s = t /\ d = e
    <3>1. /\ Append(s, d) \in Seq(Digits) /\ Len(Append(s, d)) = Len(s) + 1
          /\ Append(s, d)[Len(s) + 1] = d
          /\ \A i \in 1..Len(s) : Append(s, d)[i] = s[i]
      BY AppendProperties
    <3>2. /\ Append(t, e) \in Seq(Digits) /\ Len(Append(t, e)) = Len(t) + 1
          /\ Append(t, e)[Len(t) + 1] = e
          /\ \A i \in 1..Len(t) : Append(t, e)[i] = t[i]
      BY AppendProperties
    <3>3. Len(s) \in Nat /\ Len(t) \in Nat /\ Len(s) = Len(t)
      BY <2>3, <3>1, <3>2
    <3>4. d = e
      BY <2>3, <3>1, <3>2, <3>3
    <3>5. \A i \in 1..Len(s) : s[i] = t[i]
      BY <2>3, <3>1, <3>2, <3>3
    <3>6. s = t
      BY <3>3, <3>5, SeqEqual
    <3>7. QED
      BY <3>4, <3>6
  <2>5. /\ m \div 10 \in 0..m - 1 /\ m % 10 \in 0..9 /\ m = 10 * (m \div 10) + (m % 10)
        /\ n \div 10 \in 0..n - 1 /\ n % 10 \in 0..9 /\ n = 10 * (n \div 10) + (n % 10)
    BY <1>3, <1>7, Tenth
  <2>6. m % 10 = n % 10
    BY <2>1, <2>2, <2>4, <2>5, DigitsAre
  <2>7. m \div 10 = n \div 10
    <3>1. PICK a \in Nat, b \in Nat : a = m \div 10 /\ b = n \div 10 /\ a < m
      BY <1>3, <2>5
    <3>2. Number(a) = Number(b)
      BY <2>1, <2>2, <2>4, <3>1
    <3>3. a \notin Bad
      BY <1>2, <1>3, <3>1
    <3>4. QED
      BY <3>1, <3>2, <3>3
  <2>8. QED
    BY <1>4, <2>5, <2>6, <2>7
<1>8. QED
  BY <1>3, <1>4, <1>5, <1>6, <1>7

-----------------------------------------------------------------------------
(* Places, and their order.                                                *)

Places == Nat \X Nat

LEMMA BeforeIs ==
  /\ \A p \in Places : ~Before(p, p)
  /\ \A p, q \in Places : p = q \/ Before(p, q) \/ Before(q, p)
  /\ \A p, q, o \in Places : Before(p, q) /\ Before(q, o) => Before(p, o)
<1>1. \A p, q \in Places : p = q <=> p[1] = q[1] /\ p[2] = q[2]
  BY DEF Places
<1>2. \A p \in Places : p[1] \in Nat /\ p[2] \in Nat
  BY DEF Places
<1>3. QED
  BY <1>1, <1>2 DEF Before

LEMMA FirstIs ==
  ASSUME NEW roots, DOMAIN roots \subseteq Places,
         NEW p \in DOMAIN roots
  PROVE  /\ FirstWith(roots, roots[p]) \in DOMAIN roots
         /\ roots[FirstWith(roots, roots[p])] = roots[p]
<1>1. PICK r : r = roots[p]
  OBVIOUS
<1>2. PICK W : W = {q \in DOMAIN roots : roots[q] = r}
  OBVIOUS
<1>3. p \in W /\ \A q \in W : q \in Places /\ q[1] \in Nat /\ q[2] \in Nat
  BY <1>1, <1>2 DEF Places
<1>4. PICK a \in {q[1] : q \in W} : \A y \in {q[1] : q \in W} : a <= y
  <2>1. {q[1] : q \in W} \subseteq Nat /\ {q[1] : q \in W} # {}
    BY <1>3
  <2>2. QED
    BY <2>1, Least
<1>5. PICK V : V = {q \in W : q[1] = a}
  OBVIOUS
<1>6. PICK b \in {q[2] : q \in V} : \A y \in {q[2] : q \in V} : b <= y
  <2>1. {q[2] : q \in V} \subseteq Nat /\ {q[2] : q \in V} # {}
    BY <1>3, <1>4, <1>5
  <2>2. QED
    BY <2>1, Least
<1>7. PICK f \in V : f[2] = b
  BY <1>6
<1>8. f \in W /\ f[1] = a /\ a \in Nat /\ b \in Nat
  BY <1>3, <1>4, <1>5, <1>7
<1>9. ASSUME NEW q \in W
      PROVE  q = f \/ Before(f, q)
  <2>1. a <= q[1] /\ q[1] \in Nat /\ q[2] \in Nat
    BY <1>3, <1>4
  <2>2. q[1] = a => b <= q[2]
    BY <1>5, <1>6
  <2>3. q[1] = a /\ q[2] = b => q = f
    BY <1>3, <1>7, <1>8 DEF Places
  <2>4. QED
    BY <1>7, <1>8, <2>1, <2>2, <2>3 DEF Before
<1>10. /\ f \in DOMAIN roots /\ roots[f] = r
       /\ \A q \in DOMAIN roots : roots[q] = r => q = f \/ Before(f, q)
  BY <1>2, <1>8, <1>9
<1>11. QED
  BY <1>1, <1>10 DEF FirstWith

\* What is put in order is the set, each member once.
LEMMA InOrderIs ==
  ASSUME NEW P, P \subseteq Places, IsFiniteSet(P)
  PROVE  /\ Cardinality(P) \in Nat
         /\ DOMAIN InOrder(P) = 1..Cardinality(P)
         /\ \A k \in DOMAIN InOrder(P) : InOrder(P)[k] \in P
         /\ \A p \in P : \E k \in DOMAIN InOrder(P) : InOrder(P)[k] = p
         /\ \A k, m \in DOMAIN InOrder(P) : InOrder(P)[k] = InOrder(P)[m] => k = m
<1>1. \A Q \in SUBSET P : IsFiniteSet(Q) /\ Cardinality(Q) \in Nat
  BY FS_Subset, FS_CardinalityType
<1> DEFINE Upto(i) == {q \in P : q = i \/ Before(q, i)}
           rank    == [i \in P |-> Cardinality(Upto(i))]
           N       == Cardinality(P)
<1>2. N \in Nat
  BY <1>1
<1>3. ASSUME NEW i \in P
      PROVE  rank[i] \in 1..N
  <2>1. i \in Upto(i) /\ Upto(i) \in SUBSET P
    OBVIOUS
  <2>2. Cardinality(Upto(i)) \in Nat /\ Cardinality(Upto(i)) <= N
    <3> HIDE DEF Upto
    <3>1. QED
      BY <1>1, <2>1, FS_Subset
  <2>3. Cardinality(Upto(i)) # 0
    <3> HIDE DEF Upto
    <3>1. QED
      BY <1>1, <2>1, FS_EmptySet
  <2>4. QED
    BY <1>2, <2>2, <2>3
<1>4. ASSUME NEW i \in P, NEW j \in P, Before(i, j)
      PROVE  rank[i] < rank[j]
  <2>1. Upto(i) \in SUBSET Upto(j) /\ Upto(j) \in SUBSET P /\ j \in Upto(j) /\ j \notin Upto(i)
    <3>1. i \in Places /\ j \in Places /\ \A q \in P : q \in Places
      OBVIOUS
    <3>2. \A q \in P : q = i \/ Before(q, i) => Before(q, j)
      BY <1>4, <3>1, BeforeIs
    <3>3. ~(j = i \/ Before(j, i))
      BY <1>4, <3>1, BeforeIs
    <3>4. QED
      BY <3>2, <3>3
  <2> HIDE DEF Upto
  <2>2. /\ Cardinality(Upto(i)) <= Cardinality(Upto(j))
        /\ Cardinality(Upto(i)) # Cardinality(Upto(j))
    BY <1>1, <2>1, FS_Subset
  <2>3. QED
    BY <1>1, <2>1, <2>2
<1>5. \A i, j \in P : rank[i] = rank[j] => i = j
  <2>1. SUFFICES ASSUME NEW i \in P, NEW j \in P, rank[i] = rank[j] PROVE i = j
    OBVIOUS
  <2>2. ~Before(i, j) /\ ~Before(j, i)
    <3> HIDE DEF rank
    <3>1. rank[i] \in Int /\ rank[j] \in Int
      BY <1>3
    <3>2. QED
      BY <1>4, <2>1, <3>1
  <2>3. QED
    BY <2>2, BeforeIs
<1>6. \A k \in 1..N : \E i \in P : rank[i] = k
  <2> HIDE DEF rank
  <2>1. rank \in [P -> 1..N]
    BY <1>3 DEF rank
  <2>2. rank \in Injection(P, 1..N)
    BY <1>5, <2>1 DEF Injection, IsInjective
  <2>3. IsFiniteSet(1..N) /\ Cardinality(1..N) = N
    BY <1>2, FS_Interval
  <2>4. rank \in Surjection(P, 1..N)
    BY <2>2, <2>3, FS_Injection
  <2>5. QED
    BY <2>4 DEF Surjection
<1> DEFINE at(k) == CHOOSE p \in P : Cardinality({q \in P : q = p \/ Before(q, p)}) = k
<1>7. \A k \in 1..N : at(k) \in P /\ rank[at(k)] = k
  <2>1. \A k \in 1..N : \E i \in P : Cardinality({q \in P : q = i \/ Before(q, i)}) = k
    BY <1>6
  <2>2. QED
    BY <2>1
<1>8. \A i \in P : at(rank[i]) = i
  <2> HIDE DEF rank, at
  <2>1. QED
    BY <1>3, <1>5, <1>7
<1>9. InOrder(P) = [k \in 1..N |-> at(k)]
  BY DEF InOrder
<1> HIDE DEF rank, at, N
<1>10. DOMAIN InOrder(P) = 1..N /\ \A k \in 1..N : InOrder(P)[k] = at(k)
  BY <1>9
<1>11. \A k \in DOMAIN InOrder(P) : InOrder(P)[k] \in P /\ rank[InOrder(P)[k]] = k
  BY <1>7, <1>10
<1>12. \A p \in P : \E k \in DOMAIN InOrder(P) : InOrder(P)[k] = p
  BY <1>3, <1>8, <1>10
<1>13. QED
  BY <1>2, <1>10, <1>11, <1>12 DEF N

LEMMA BitsFinite ==
  ASSUME NEW pins, NEW n \in Nat, DOMAIN pins = 1..n, \A i \in 1..n : pins[i].width \in Nat
  PROVE  BitsOfPins(pins) \subseteq Places /\ IsFiniteSet(BitsOfPins(pins))
<1> DEFINE Of1(i) == {i} \X (1..pins[i].width)
           Upto(m) == UNION {Of1(i) : i \in 1..m}
           T == {m \in 0..n : IsFiniteSet(Upto(m))}
<1>1. 0 \in T
  <2>1. Upto(0) = {}
    OBVIOUS
  <2> HIDE DEF Upto
  <2>2. IsFiniteSet(Upto(0))
    BY <2>1, FS_EmptySet
  <2>3. 0 \in 0..n
    OBVIOUS
  <2>4. QED
    BY <2>2, <2>3
<1>2. ASSUME NEW m \in 1..n, m - 1 \in T
      PROVE  m \in T
  <2>1. Upto(m) = Upto(m - 1) \cup Of1(m)
    <3>1. 1..m = 1..(m - 1) \cup {m}
      OBVIOUS
    <3> HIDE DEF Of1
    <3>2. QED
      BY <3>1
  <2>2. IsFiniteSet(Of1(m))
    <3>1. PICK w \in Nat : w = pins[m].width
      OBVIOUS
    <3>2. IsFiniteSet({m})
      BY FS_Singleton
    <3>3. IsFiniteSet(1..w)
      BY FS_Interval
    <3>4. IsFiniteSet({m} \X (1..w))
      BY <3>2, <3>3, FS_Product
    <3>5. QED
      BY <3>1, <3>4
  <2>3. IsFiniteSet(Upto(m - 1)) /\ m \in 0..n
    BY <1>2
  <2>4. IsFiniteSet(Upto(m))
    <3> HIDE DEF Of1, Upto
    <3>1. PICK A : A = Upto(m - 1)
      OBVIOUS
    <3>2. PICK B : B = Of1(m)
      OBVIOUS
    <3>3. IsFiniteSet(A) /\ IsFiniteSet(B)
      BY <2>2, <2>3, <3>1, <3>2
    <3>4. IsFiniteSet(A \cup B)
      BY <3>3, FS_Union
    <3>5. QED
      BY <2>1, <3>1, <3>2, <3>4
  <2>5. QED
    BY <2>3, <2>4
<1>3. \A m \in 0..n : m \in T
  <2> HIDE DEF T
  <2>1. QED
    BY <1>1, <1>2, Induction
<1>4. IsFiniteSet(Upto(n))
  <2> HIDE DEF Upto
  <2>1. n \in 0..n
    OBVIOUS
  <2>2. n \in T
    BY <1>3, <2>1
  <2>3. QED
    BY <2>2
<1>5. Upto(n) = BitsOfPins(pins)
  BY DEF BitsOfPins
<1>6. BitsOfPins(pins) \subseteq Places
  BY DEF BitsOfPins, Places
<1>7. QED
  BY <1>4, <1>5, <1>6

-----------------------------------------------------------------------------
(* The texts of the ports.                                                 *)

PortText == <<"p", "o", "r", "t">>

\* The characters of texts that are built from names with these.
Spelling(C) == Digits \cup {"_", "p", "o", "r", "t"} \subseteq C

LEMMA Cancelled ==
  ASSUME NEW S, NEW s \in Seq(S), NEW t \in Seq(S), NEW u \in Seq(S), s \o t = s \o u
  PROVE  t = u
<1>1. /\ Len(s \o t) = Len(s) + Len(t)
      /\ \A i \in 1..Len(s) + Len(t) :
           (s \o t)[i] = IF i <= Len(s) THEN s[i] ELSE t[i - Len(s)]
  BY ConcatProperties
<1>2. /\ Len(s \o u) = Len(s) + Len(u)
      /\ \A i \in 1..Len(s) + Len(u) :
           (s \o u)[i] = IF i <= Len(s) THEN s[i] ELSE u[i - Len(s)]
  BY ConcatProperties
<1>3. PICK a \in Nat, b \in Nat, c \in Nat : a = Len(s) /\ b = Len(t) /\ c = Len(u)
  OBVIOUS
<1>4. b = c
  <2>1. a + b = a + c
    BY <1>1, <1>2, <1>3
  <2>2. QED
    BY <2>1
<1>5. ASSUME NEW i \in 1..b
      PROVE  t[i] = u[i]
  <2>1. a + i \in 1..a + b /\ ~(a + i <= a) /\ a + i - a = i
    OBVIOUS
  <2>2. (s \o t)[a + i] = t[i]
    BY <1>1, <1>3, <2>1
  <2>3. (s \o u)[a + i] = u[i]
    BY <1>2, <1>3, <1>4, <2>1
  <2>4. QED
    BY <2>2, <2>3
<1>6. QED
  BY <1>3, <1>4, <1>5, SeqEqual

LEMMA SuffixesDiffer ==
  ASSUME NEW C, Spelling(C), NEW name \in Seq(C), NEW m \in Nat
  PROVE  /\ WithSuffix(name, m) \in Seq(C)
         /\ \A n \in Nat : WithSuffix(name, m) = WithSuffix(name, n) => m = n
<1>1. PICK stem : stem = name \o <<"_">>
  OBVIOUS
<1>2. stem \in Seq(C)
  <2>1. "_" \in C
    BY DEF Spelling
  <2>2. \A x \in C : <<x>> \in Seq(C)
    OBVIOUS
  <2>3. <<"_">> \in Seq(C)
    BY <2>1, <2>2
  <2>4. QED
    BY <1>1, <2>3, ConcatProperties
<1>3. \A k \in Nat : Number(k) \in Seq(C)
  <2>1. Digits \subseteq C
    BY DEF Spelling
  <2>2. \A s \in Seq(Digits) : s \in Seq(C)
    BY <2>1
  <2>3. QED
    BY <2>2, NumberIs
<1>4. \A k \in Nat : WithSuffix(name, k) = stem \o Number(k)
  BY <1>1 DEF WithSuffix
<1>5. stem \o Number(m) \in Seq(C)
  BY <1>2, <1>3, ConcatProperties
<1>6. ASSUME NEW n \in Nat, stem \o Number(m) = stem \o Number(n)
      PROVE  m = n
  <2>1. Number(m) \in Seq(C) /\ Number(n) \in Seq(C)
    BY <1>3
  <2>2. Number(m) = Number(n)
    BY <1>2, <1>6, <2>1, Cancelled
  <2>3. QED
    BY <2>2, NumbersDiffer
<1>7. QED
  BY <1>4, <1>5, <1>6

\* unique_name gives a name that is not used yet.
LEMMA UniqueNameIs ==
  ASSUME NEW C, Spelling(C), NEW base \in Seq(C), NEW used, IsFiniteSet(used)
  PROVE  UniqueName(used, base) \in Seq(C) /\ UniqueName(used, base) \notin used
<1>1. PICK name : name = IF base = <<>> THEN PortText ELSE base
  OBVIOUS
<1>2. name \in Seq(C)
  <2>1. "p" \in C /\ "o" \in C /\ "r" \in C /\ "t" \in C
    BY DEF Spelling
  <2>2. PortText \in Seq(C)
    BY <2>1 DEF PortText
  <2>3. QED
    BY <1>1, <2>2
<1>3. PICK c \in Nat : c = Cardinality(used)
  BY FS_CardinalityType
<1> DEFINE Free(n) == /\ WithSuffix(name, n) \notin used
                      /\ \A m \in 2..n - 1 : WithSuffix(name, m) \in used
           Spare == {n \in 2..c + 2 : WithSuffix(name, n) \notin used}
<1>4. Spare # {}
  <2>1. SUFFICES ASSUME \A n \in 2..c + 2 : WithSuffix(name, n) \in used
                 PROVE  FALSE
    OBVIOUS
  <2>2. PICK f : f = [n \in 2..c + 2 |-> WithSuffix(name, n)]
    OBVIOUS
  <2>3. f \in [2..c + 2 -> used]
    BY <2>1, <2>2
  <2>4. IsFiniteSet(2..c + 2) /\ Cardinality(2..c + 2) = c + 1
    BY FS_Interval
  <2>5. \A m, n \in 2..c + 2 : f[m] = f[n] => m = n
    <3>1. \A n \in 2..c + 2 : n \in Nat /\ f[n] = WithSuffix(name, n)
      BY <2>2
    <3>2. QED
      BY <1>2, <3>1, SuffixesDiffer
  <2>6. c < c + 1
    OBVIOUS
  <2>7. QED
    BY <1>3, <2>3, <2>4, <2>5, <2>6, FS_PigeonHole
<1>5. PICK n \in Spare : \A m \in Spare : n <= m
  <2>1. Spare \subseteq Nat
    OBVIOUS
  <2> HIDE DEF Spare
  <2>2. QED
    BY <1>4, <2>1, Least
<1>6. n \in 2..c + 2 /\ Free(n)
  <2>1. n \in 2..c + 2 /\ WithSuffix(name, n) \notin used
    OBVIOUS
  <2>2. \A m \in 2..n - 1 : m \in 2..c + 2 /\ ~(n <= m)
    BY <2>1
  <2>3. \A m \in 2..n - 1 : WithSuffix(name, m) \in used
    BY <1>5, <2>2
  <2>4. QED
    BY <2>1, <2>3
<1>7. PICK k : k = CHOOSE i \in 2..c + 2 : Free(i)
  OBVIOUS
<1>8. k \in 2..c + 2 /\ Free(k)
  <2> HIDE DEF Free
  <2>1. QED
    BY <1>6, <1>7
<1>9. UniqueName(used, base) = IF name \notin used THEN name ELSE WithSuffix(name, k)
  BY <1>1, <1>3, <1>7 DEF UniqueName, PortText
<1>10. k \in Nat
  BY <1>8
<1>11. WithSuffix(name, k) \in Seq(C) /\ WithSuffix(name, k) \notin used
  BY <1>2, <1>8, <1>10, SuffixesDiffer
<1>12. QED
  BY <1>2, <1>9, <1>11

LEMMA FiniteSeq ==
  ASSUME NEW S, NEW s \in Seq(S)
  PROVE  IsFiniteSet(ToSet(s)) /\ ToSet(s) \subseteq S
<1>1. PICK n \in Nat : DOMAIN s = 1..n /\ s \in [1..n -> S]
  OBVIOUS
<1>2. ToSet(s) \subseteq S
  BY <1>1 DEF ToSet
<1>3. s \in Surjection(1..n, ToSet(s))
  BY <1>1 DEF Surjection, ToSet
<1>4. IsFiniteSet(1..n)
  BY FS_Interval
<1>5. QED
  BY <1>2, <1>3, <1>4, FS_Surjection

\* The texts given to the first i ports.
GivenTo(s, C, i) ==
  s \in Seq(Seq(C)) /\ Len(s) = i /\ \A j, k \in 1..i : s[j] = s[k] => j = k

LEMMA GivesOneMore ==
  ASSUME NEW C, Spelling(C), NEW i \in Nat, NEW s, GivenTo(s, C, i), NEW base \in Seq(C)
  PROVE  GivenTo(Append(s, UniqueName(ToSet(s), base)), C, i + 1)
<1>1. s \in Seq(Seq(C)) /\ Len(s) = i /\ DOMAIN s = 1..i
  BY DEF GivenTo
<1>2. PICK more : more = UniqueName(ToSet(s), base)
  OBVIOUS
<1>3. more \in Seq(C) /\ more \notin ToSet(s)
  <2>1. IsFiniteSet(ToSet(s))
    BY <1>1, FiniteSeq
  <2>2. QED
    BY <1>2, <2>1, UniqueNameIs
<1>4. PICK t : t = Append(s, more)
  OBVIOUS
<1>5. /\ t \in Seq(Seq(C)) /\ Len(t) = i + 1 /\ t[i + 1] = more
      /\ \A j \in 1..i : t[j] = s[j]
  BY <1>1, <1>3, <1>4, AppendProperties
<1>6. \A j \in 1..i : t[j] # more
  <2>1. \A j \in 1..i : s[j] \in ToSet(s)
    BY <1>1 DEF ToSet
  <2>2. QED
    BY <1>3, <1>5, <2>1
<1>7. ASSUME NEW j \in 1..i + 1, NEW k \in 1..i + 1, t[j] = t[k]
      PROVE  j = k
  <2>1. (j \in 1..i \/ j = i + 1) /\ (k \in 1..i \/ k = i + 1)
    OBVIOUS
  <2>2. CASE j \in 1..i /\ k \in 1..i
    BY <1>5, <1>7, <2>2 DEF GivenTo
  <2>3. QED
    BY <1>5, <1>6, <1>7, <2>1, <2>2
<1>8. QED
  BY <1>2, <1>4, <1>5, <1>7 DEF GivenTo

\* Ports have different texts, whatever the pins are called.
LEMMA TextsDiffer ==
  ASSUME NEW C, Spelling(C), NEW n \in Nat, NEW pins, Len(pins) = n, DOMAIN pins = 1..n,
         \A i \in 1..n : pins[i].name \in Seq(C)
  PROVE  GivenTo(PortTexts(pins), C, n)
<1> DEFINE S == Seq(Seq(C))
           More(s, i) == Append(s, UniqueName(ToSet(s), pins[i].name))
           step == [i \in 1..n |-> [s \in S |-> More(s, i)]]
           Is(g) == g = [i \in 0..n |-> IF i = 0 THEN <<>>
                                        ELSE Append(g[i - 1], UniqueName(ToSet(g[i - 1]), pins[i].name))]
<1>1. \A i \in 1..n : \A s \in S : More(s, i) \in S
  <2> SUFFICES ASSUME NEW i \in 1..n, NEW s \in S
               PROVE  More(s, i) \in S
    OBVIOUS
  <2>1. PICK more : more = UniqueName(ToSet(s), pins[i].name)
    OBVIOUS
  <2>2. IsFiniteSet(ToSet(s))
    BY FiniteSeq
  <2>3. PICK base \in Seq(C) : base = pins[i].name
    OBVIOUS
  <2>4. more \in Seq(C)
    BY <2>1, <2>2, <2>3, UniqueNameIs
  <2>5. Append(s, more) \in S
    BY <2>4, AppendProperties
  <2>6. QED
    BY <2>1, <2>5
<1>2. \E g : Is(g)
  <2>1. <<>> \in S
    OBVIOUS
  <2>2. Recursive(n, S, <<>>, step)
    <3> HIDE DEF S, More
    <3>1. step \in [1..n -> [S -> S]]
      BY <1>1
    <3>2. QED
      BY <2>1, <3>1 DEF Recursive
  <2>3. PICK f \in [0..n -> S] : Follows(f, n, <<>>, step)
    <3> HIDE DEF S, step
    <3>1. QED
      BY <2>2, Recursion DEF HasSolution
  <2>4. \A i \in 1..n : f[i] = More(f[i - 1], i)
    <3> SUFFICES ASSUME NEW i \in 1..n
                 PROVE  f[i] = More(f[i - 1], i)
      OBVIOUS
    <3>1. i - 1 \in 0..n
      OBVIOUS
    <3>2. f[i - 1] \in S
      BY <3>1
    <3>3. f[i] = step[i][f[i - 1]]
      BY <2>3 DEF Follows
    <3> HIDE DEF S, More
    <3>4. QED
      BY <3>2, <3>3
  <2>5. f[0] = <<>>
    BY <2>3 DEF Follows
  <2>6. \A i \in 0..n : i # 0 => i \in 1..n
    OBVIOUS
  <2>7. \A i \in 0..n : f[i] = IF i = 0 THEN <<>> ELSE More(f[i - 1], i)
    <3> HIDE DEF More
    <3>1. QED
      BY <2>4, <2>5, <2>6
  <2>8. f = [i \in 0..n |-> IF i = 0 THEN <<>> ELSE More(f[i - 1], i)]
    <3> HIDE DEF More, S
    <3>1. QED
      BY <2>7
  <2>9. Is(f)
    BY <2>8
  <2>10. QED
    BY <2>9
<1>3. PICK g : g = (CHOOSE h : Is(h)) /\ Is(g)
  BY <1>2
<1>4. PortTexts(pins) = g[n]
  BY <1>3 DEF PortTexts
<1>5. g[0] = <<>> /\ \A i \in 1..n : g[i] = Append(g[i - 1], UniqueName(ToSet(g[i - 1]), pins[i].name))
  <2>1. 0 \in 0..n /\ \A i \in 1..n : i \in 0..n /\ i # 0
    OBVIOUS
  <2>2. QED
    BY <1>3, <2>1
<1> HIDE DEF Is
<1> DEFINE T == {i \in 0..n : GivenTo(g[i], C, i)}
<1>6. 0 \in T
  <2>1. GivenTo(<<>>, C, 0)
    BY DEF GivenTo
  <2>2. 0 \in 0..n
    OBVIOUS
  <2>3. QED
    BY <1>5, <2>1, <2>2
<1>7. ASSUME NEW i \in 1..n, i - 1 \in T
      PROVE  i \in T
  <2>1. PICK k \in Nat : k = i - 1 /\ k + 1 = i
    OBVIOUS
  <2>2. PICK s : s = g[k]
    OBVIOUS
  <2>3. PICK base \in Seq(C) : base = pins[i].name
    OBVIOUS
  <2>4. GivenTo(s, C, k)
    BY <1>7, <2>1, <2>2
  <2>5. GivenTo(Append(s, UniqueName(ToSet(s), base)), C, k + 1)
    BY <2>4, GivesOneMore
  <2>6. g[i] = Append(s, UniqueName(ToSet(s), base))
    BY <1>5, <2>1, <2>2, <2>3
  <2>7. i \in 0..n
    OBVIOUS
  <2>8. QED
    BY <2>1, <2>5, <2>6, <2>7
<1>8. \A i \in 0..n : i \in T
  <2> HIDE DEF T
  <2>1. QED
    BY <1>6, <1>7, Induction
<1>9. n \in 0..n
  OBVIOUS
<1>10. QED
  BY <1>4, <1>8, <1>9

-----------------------------------------------------------------------------
(* The home of a root is in a pin or in a net of its own, and tells the    *)
(* root.                                                                   *)

\* The roots of the bits of n pins, and of the ends of m gates.
Rooted(pins, bits, ends, n, m) ==
  /\ n \in Nat /\ m \in Nat /\ Len(pins) = n /\ DOMAIN pins = 1..n
  /\ \A i \in 1..n : pins[i].width \in Nat
  /\ DOMAIN bits = BitsOfPins(pins) /\ DOMAIN ends = (1..m) \X (1..3)

InPins(home, r, bits, n) ==
  /\ home.net \in 0..n - 1 /\ home.bit \in Nat
  /\ <<home.net + 1, home.bit + 1>> \in DOMAIN bits
  /\ bits[<<home.net + 1, home.bit + 1>>] = r
  /\ FirstWith(bits, r) = <<home.net + 1, home.bit + 1>>

InGates(home, r, bits, ends, n) ==
  /\ home.bit = 0 /\ home.net \in Nat /\ ~(home.net < n)
  /\ home.net - n + 1 \in DOMAIN Internal(bits, ends)
  /\ ends[Internal(bits, ends)[home.net - n + 1]] = r

LEMMA InternalIs ==
  ASSUME NEW pins, NEW bits, NEW ends, NEW n, NEW m, Rooted(pins, bits, ends, n, m)
  PROVE  /\ \E c \in Nat : DOMAIN Internal(bits, ends) = 1..c
         /\ \A e \in DOMAIN ends : (\A p \in DOMAIN bits : bits[p] # ends[e]) =>
              \E k \in DOMAIN Internal(bits, ends) : ends[Internal(bits, ends)[k]] = ends[e]
<1>1. DOMAIN ends = (1..m) \X (1..3) /\ m \in Nat
  BY DEF Rooted
<1>2. PICK P : P = {e \in DOMAIN ends : /\ \A p \in DOMAIN bits : bits[p] # ends[e]
                                        /\ FirstWith(ends, ends[e]) = e}
  OBVIOUS
<1>3. Internal(bits, ends) = InOrder(P)
  BY <1>2 DEF Internal
<1>4. DOMAIN ends \subseteq Places
  BY <1>1 DEF Places
<1>5. P \subseteq Places /\ IsFiniteSet(P)
  <2>1. IsFiniteSet(1..m)
    BY <1>1, FS_Interval
  <2>2. \A k \in Nat : IsFiniteSet(1..k)
    BY FS_Interval
  <2>3. IsFiniteSet(DOMAIN ends)
    <3>1. PICK A, B : A = 1..m /\ B = 1..3
      OBVIOUS
    <3>2. 3 \in Nat
      OBVIOUS
    <3>3. IsFiniteSet(A) /\ IsFiniteSet(B)
      BY <2>1, <2>2, <3>1, <3>2
    <3>4. IsFiniteSet(A \X B)
      BY <3>3, FS_Product
    <3>5. QED
      BY <1>1, <3>1, <3>4
  <2>4. P \in SUBSET DOMAIN ends
    BY <1>2
  <2>5. QED
    BY <1>4, <2>3, <2>4, FS_Subset
<1>6. /\ DOMAIN InOrder(P) = 1..Cardinality(P) /\ Cardinality(P) \in Nat
      /\ \A p \in P : \E k \in DOMAIN InOrder(P) : InOrder(P)[k] = p
  BY <1>5, InOrderIs
<1>7. ASSUME NEW e \in DOMAIN ends, \A p \in DOMAIN bits : bits[p] # ends[e]
      PROVE  \E k \in DOMAIN InOrder(P) : ends[InOrder(P)[k]] = ends[e]
  <2>1. PICK f : f = FirstWith(ends, ends[e])
    OBVIOUS
  <2>2. f \in DOMAIN ends /\ ends[f] = ends[e]
    BY <1>4, <2>1, FirstIs
  <2>3. f \in P
    BY <1>2, <1>7, <2>1, <2>2
  <2>4. QED
    BY <1>6, <2>2, <2>3
<1>8. QED
  BY <1>3, <1>6, <1>7

LEMMA HomeIs ==
  ASSUME NEW pins, NEW bits, NEW ends, NEW n, NEW m, Rooted(pins, bits, ends, n, m),
         NEW r
  PROVE  /\ (\E p \in DOMAIN bits : bits[p] = r) => InPins(Home(bits, ends, pins, r), r, bits, n)
         /\ (\E e \in DOMAIN ends : ends[e] = r) =>
              \/ InPins(Home(bits, ends, pins, r), r, bits, n)
              \/ InGates(Home(bits, ends, pins, r), r, bits, ends, n)
<1>1. /\ n \in Nat /\ Len(pins) = n /\ DOMAIN pins = 1..n
      /\ \A i \in 1..n : pins[i].width \in Nat
      /\ DOMAIN bits = BitsOfPins(pins)
  BY DEF Rooted
<1>2. ASSUME NEW p \in DOMAIN bits, bits[p] = r
      PROVE  InPins(Home(bits, ends, pins, r), r, bits, n)
  <2>1. DOMAIN bits \subseteq Places
    BY <1>1, BitsFinite
  <2>2. PICK f : f = FirstWith(bits, r)
    OBVIOUS
  <2>3. f \in DOMAIN bits /\ bits[f] = r
    BY <1>2, <2>1, <2>2, FirstIs
  <2>4. PICK i \in 1..n, b \in Nat \ {0} : f = <<i, b>>
    BY <1>1, <2>3 DEF BitsOfPins
  <2>5. PICK home : home = [net |-> i - 1, bit |-> b - 1]
    OBVIOUS
  <2>6. Home(bits, ends, pins, r) = home
    BY <1>2, <2>2, <2>4, <2>5 DEF Home
  <2>7. home.net = i - 1 /\ home.bit = b - 1 /\ i - 1 \in 0..n - 1 /\ b - 1 \in Nat
    BY <1>1, <2>5
  <2>8. home.net + 1 = i /\ home.bit + 1 = b
    BY <2>7
  <2>9. QED
    BY <2>2, <2>3, <2>4, <2>6, <2>7, <2>8 DEF InPins
<1>3. ASSUME NEW e \in DOMAIN ends, ends[e] = r, \A p \in DOMAIN bits : bits[p] # r
      PROVE  InGates(Home(bits, ends, pins, r), r, bits, ends, n)
  <2>1. PICK internal : internal = Internal(bits, ends)
    OBVIOUS
  <2>2. PICK c \in Nat : DOMAIN internal = 1..c
    BY <2>1, InternalIs
  <2>3. \E k \in DOMAIN internal : ends[internal[k]] = r
    BY <1>3, <2>1, InternalIs
  <2>4. PICK k : k = CHOOSE i \in DOMAIN internal : ends[internal[i]] = r
    OBVIOUS
  <2>5. k \in DOMAIN internal /\ ends[internal[k]] = r
    BY <2>3, <2>4
  <2>6. PICK home : home = [net |-> n - 1 + k, bit |-> 0]
    OBVIOUS
  <2>7. Home(bits, ends, pins, r) = home
    BY <1>1, <1>3, <2>1, <2>4, <2>6 DEF Home
  <2>8. home.net = n - 1 + k /\ home.bit = 0
    BY <2>6
  <2>9. k \in Nat \ {0}
    BY <2>2, <2>5
  <2>10. home.net \in Nat /\ ~(home.net < n) /\ home.net - n + 1 = k
    BY <1>1, <2>8, <2>9
  <2>11. QED
    BY <2>1, <2>5, <2>7, <2>8, <2>10 DEF InGates
<1>4. QED
  BY <1>2, <1>3

-----------------------------------------------------------------------------
(* What the kernel reports of a document that has the shape of those that  *)
(* lower gives.                                                            *)

UserErrors ==
  {"NET_NO_DRIVER", "GRAPH_COMBINATIONAL_CYCLE", "NAME_EMPTY", "NAME_INVALID",
   "WIDTH_EXCEEDS_LIMIT", "LIMIT_PORTS", "LIMIT_NETS", "LIMIT_COMPONENTS",
   "LIMIT_STRING_LENGTH"}

\* A connection to one bit.
Covers(connection, place, widths) ==
  /\ place.net \in Nat /\ place.net + 1 \in DOMAIN widths
  /\ place.bit \in Nat /\ place.bit < widths[place.net + 1]
  /\ connection = ConnectionTo(place, widths)

\* A gate or a buffer with all its connections.
IsWired(c, widths) ==
  /\ c.type \in {"NAND", "BUFFER"} /\ c.width = 1 /\ c.parameters = <<>>
  /\ DOMAIN c.connections = LogicalPorts(c)
  /\ \A port \in LogicalPorts(c) : \E place : Covers(c.connections[port], place, widths)

\* Ports stand for the first nets.
PortsStand(doc, widths, inputs) ==
  /\ DOMAIN doc.ports \subseteq DOMAIN widths
  /\ \A i \in DOMAIN doc.ports :
       /\ doc.ports[i].id = i /\ doc.ports[i].net = i - 1
       /\ doc.ports[i].width = widths[i]
       /\ doc.ports[i].dir = IF i <= inputs THEN "input" ELSE "output"
  /\ \A i, j \in DOMAIN doc.ports : doc.ports[i].name = doc.ports[j].name => i = j

\* No bit is driven by two components, or by a component and an input.
DrivenApart(doc, widths, inputs, out) ==
  /\ \A k \in DOMAIN doc.components :
       /\ Covers(doc.components[k].connections["Y"], out[k], widths)
       /\ ~(out[k].net < inputs)
  /\ \A k, m \in DOMAIN doc.components :
       out[k].net = out[m].net /\ out[k].bit = out[m].bit => k = m

IsLowered(doc, widths, inputs, out) ==
  /\ doc.schema = "1.1" /\ inputs \in Nat
  /\ \E n \in Nat : DOMAIN widths = 1..n
  /\ \A i \in DOMAIN widths : widths[i] \in Nat \ {0}
  /\ DOMAIN doc.nets = DOMAIN widths
  /\ \A i \in DOMAIN widths : doc.nets[i].id = i - 1 /\ doc.nets[i].width = widths[i]
  /\ PortsStand(doc, widths, inputs)
  /\ \A k \in DOMAIN doc.components : IsWired(doc.components[k], widths)
  /\ \A k, m \in DOMAIN doc.components :
       doc.components[k].id = doc.components[m].id => k = m
  /\ DrivenApart(doc, widths, inputs, out)

LEMMA Unrepeated ==
  ASSUME NEW items, \A i, j \in DOMAIN items : items[i].id = items[j].id => i = j
  PROVE  Repeated(items) = {}
BY DEF Repeated

LEMMA WhenIs ==
  ASSUME NEW condition, NEW code
  PROVE  /\ When(condition, code) \subseteq {code}
         /\ ~condition => When(condition, code) = {}
BY DEF When

LEMMA CoversBit ==
  ASSUME NEW widths, \A i \in DOMAIN widths : widths[i] \in Nat \ {0},
         NEW connection, NEW place, Covers(connection, place, widths)
  PROVE  /\ connection.net = place.net
         /\ BitsOf(connection, widths[place.net + 1]) = {place.bit}
         /\ connection.sliced \in BOOLEAN
<1>1. PICK w \in Nat \ {0} : w = widths[place.net + 1]
  BY DEF Covers
<1>2. PICK b \in Nat : b = place.bit /\ b < w
  BY <1>1 DEF Covers
<1>3. connection = [net |-> place.net, sliced |-> w # 1,
                    msb |-> IF w # 1 THEN b ELSE 0, lsb |-> IF w # 1 THEN b ELSE 0]
  BY <1>1, <1>2 DEF Covers, ConnectionTo
<1>4. /\ connection.net = place.net /\ connection.sliced = (w # 1)
      /\ w # 1 => connection.msb = b /\ connection.lsb = b
  BY <1>3
<1>5. CASE w = 1
  <2>1. b = 0 /\ 0..w - 1 = {0}
    BY <1>2, <1>5
  <2>2. BitsOf(connection, w) = {b}
    BY <1>4, <1>5, <2>1 DEF BitsOf
  <2>3. QED
    BY <1>1, <1>2, <1>4, <2>2
<1>6. CASE w # 1
  <2>1. ~(b > b) /\ ~(b >= w) /\ b..b = {b}
    BY <1>2
  <2>2. BitsOf(connection, w) = {b}
    BY <1>4, <1>6, <2>1 DEF BitsOf
  <2>3. QED
    BY <1>1, <1>2, <1>4, <2>2
<1>7. QED
  BY <1>5, <1>6

\* The nets are told apart by their ids.
LEMMA NetsAre ==
  ASSUME NEW doc, NEW widths, NEW inputs, NEW out, IsLowered(doc, widths, inputs, out)
  PROVE  /\ Repeated(doc.nets) = {} /\ UniqueNets(doc) = ToSet(doc.nets)
         /\ \A i \in DOMAIN widths :
              /\ i - 1 \in NetIds(doc) /\ IsUnique(doc, i - 1)
              /\ NetOf(doc, i - 1) = doc.nets[i]
<1>1. PICK n \in Nat : DOMAIN widths = 1..n
  BY DEF IsLowered
<1>2. /\ DOMAIN doc.nets = 1..n
      /\ \A i \in 1..n : doc.nets[i].id = i - 1
  BY <1>1 DEF IsLowered
<1>3. \A i, j \in 1..n : doc.nets[i].id = doc.nets[j].id => i = j
  <2>1. \A i, j \in 1..n : i - 1 = j - 1 => i = j
    OBVIOUS
  <2>2. QED
    BY <1>2, <2>1
<1>4. Repeated(doc.nets) = {}
  BY <1>2, <1>3, Unrepeated
<1>5. UniqueNets(doc) = ToSet(doc.nets)
  BY <1>4 DEF UniqueNets
<1>6. ToSet(doc.nets) = {doc.nets[i] : i \in 1..n}
  BY <1>2 DEF ToSet
<1>7. ASSUME NEW i \in 1..n
      PROVE  /\ i - 1 \in NetIds(doc) /\ IsUnique(doc, i - 1)
             /\ NetOf(doc, i - 1) = doc.nets[i]
  <2>1. PICK id : id = i - 1
    OBVIOUS
  <2>2. doc.nets[i] \in ToSet(doc.nets) /\ doc.nets[i].id = id
    BY <1>2, <1>6, <2>1
  <2>3. \A net \in ToSet(doc.nets) : net.id = id => net = doc.nets[i]
    BY <1>3, <1>6, <2>2
  <2>4. id \in NetIds(doc)
    BY <2>2 DEF NetIds
  <2>5. IsUnique(doc, id) /\ NetOf(doc, id) = doc.nets[i]
    BY <1>5, <2>2, <2>3 DEF IsUnique, NetOf
  <2>6. QED
    BY <2>1, <2>4, <2>5
<1>8. QED
  BY <1>1, <1>4, <1>5, <1>7

LEMMA PreflightIs ==
  ASSUME NEW doc, NEW widths, NEW inputs, NEW out, IsLowered(doc, widths, inputs, out)
  PROVE  Preflight(doc) \subseteq UserErrors
<1>1. \A c \in ToSet(doc.components) : ~(Cardinality(DOMAIN c.parameters) > Limits.parameters)
  <2> SUFFICES ASSUME NEW c \in ToSet(doc.components)
               PROVE  ~(Cardinality(DOMAIN c.parameters) > Limits.parameters)
    OBVIOUS
  <2>1. c.parameters = <<>>
    BY DEF ToSet, IsLowered, IsWired
  <2>2. DOMAIN c.parameters = {}
    BY <2>1
  <2>3. Cardinality(DOMAIN c.parameters) = 0
    BY <2>2, FS_EmptySet
  <2>4. Limits.parameters \in Nat
    BY ValidationAssumption DEF LimitNames
  <2>5. QED
    BY <2>3, <2>4
<1>2. doc.schema \in {"1.0", "1.1"}
  BY DEF IsLowered
<1>3. QED
  BY <1>1, <1>2 DEF Preflight, When, UserErrors

LEMMA IdentityIs ==
  ASSUME NEW doc, NEW widths, NEW inputs, NEW out, IsLowered(doc, widths, inputs, out)
  PROVE  /\ Repeated(doc.components) = {} /\ Repeated(doc.ports) = {}
         /\ Identity(doc) = {}
<1>1. Repeated(doc.components) = {}
  BY Unrepeated DEF IsLowered
<1>2. Repeated(doc.ports) = {}
  <2>1. \A i, j \in DOMAIN doc.ports : doc.ports[i].id = doc.ports[j].id => i = j
    BY DEF IsLowered, PortsStand
  <2>2. QED
    BY <2>1, Unrepeated
<1>3. Repeated(doc.nets) = {}
  BY NetsAre
<1>4. ~\E i, j \in DOMAIN doc.ports : i # j /\ doc.ports[i].name = doc.ports[j].name
  BY DEF IsLowered, PortsStand
<1>5. QED
  BY <1>1, <1>2, <1>3, <1>4 DEF Identity, When

LEMMA NamesAreUsers ==
  ASSUME NEW doc
  PROVE  Names(doc) \subseteq UserErrors \cup Warnings
<1>1. \A name : NameErrors(name) \subseteq UserErrors \cup Warnings
  BY DEF NameErrors, When, UserErrors, Warnings
<1>2. \A condition : When(condition, "NAME_SANITIZATION_COLLISION") \subseteq Warnings
  BY DEF When, Warnings
<1>3. QED
  BY <1>1, <1>2 DEF Names

LEMMA WidthsAre ==
  ASSUME NEW doc, NEW widths, NEW inputs, NEW out, IsLowered(doc, widths, inputs, out)
  PROVE  Widths(doc) \subseteq UserErrors
<1>1. \A item \in ToSet(doc.ports) \cup ToSet(doc.components) \cup ToSet(doc.nets) :
        item.width # 0
  <2>1. \A item \in ToSet(doc.ports) : item.width # 0
    BY DEF ToSet, IsLowered, PortsStand
  <2>2. \A item \in ToSet(doc.components) : item.width # 0
    BY DEF ToSet, IsLowered, IsWired
  <2>3. \A item \in ToSet(doc.nets) : item.width # 0
    BY DEF ToSet, IsLowered
  <2>4. QED
    BY <2>1, <2>2, <2>3
<1>2. \A item : When(item.width > Limits.width, "WIDTH_EXCEEDS_LIMIT") \subseteq UserErrors
  BY DEF When, UserErrors
<1>3. QED
  BY <1>1, <1>2, WhenIs DEF Widths

LEMMA ReferencesAre ==
  ASSUME NEW doc, NEW widths, NEW inputs, NEW out, IsLowered(doc, widths, inputs, out)
  PROVE  ReferencesAndCatalog(doc) = {}
<1>1. ASSUME NEW p \in ToSet(doc.ports)
      PROVE  PortErrors(doc, p) = {}
  <2>1. PICK i \in DOMAIN doc.ports : p = doc.ports[i]
    BY DEF ToSet
  <2>2. i \in DOMAIN widths /\ p.net = i - 1 /\ p.width = widths[i]
    BY <2>1 DEF IsLowered, PortsStand
  <2>3. PICK net : net = i - 1
    OBVIOUS
  <2>4. p.net = net /\ net \in NetIds(doc) /\ NetOf(doc, net) = doc.nets[i]
    BY <2>2, <2>3, NetsAre
  <2>5. doc.nets[i].width = p.width
    BY <2>2 DEF IsLowered
  <2>6. QED
    BY <2>4, <2>5, WhenIs DEF PortErrors
<1>2. ASSUME NEW c \in ToSet(doc.components)
      PROVE  ComponentErrors(doc, c) = {}
  <2>1. IsWired(c, widths)
    BY DEF ToSet, IsLowered
  <2>2. InCatalog(c) /\ c.type # "CONST"
    BY <2>1 DEF IsWired, InCatalog, Binary, Unary
  <2>3. ASSUME NEW port \in LogicalPorts(c)
        PROVE  ConnectionErrors(doc, c, port) = {}
    <3>1. PICK connection : connection = c.connections[port]
      OBVIOUS
    <3>2. PICK place : Covers(connection, place, widths)
      BY <2>1, <3>1 DEF IsWired
    <3>3. \A i \in DOMAIN widths : widths[i] \in Nat \ {0}
      BY DEF IsLowered
    <3>4. /\ connection.net = place.net
          /\ BitsOf(connection, widths[place.net + 1]) = {place.bit}
      BY <3>2, <3>3, CoversBit
    <3>5. PICK i \in DOMAIN widths : i = place.net + 1 /\ i - 1 = place.net
      BY <3>2 DEF Covers
    <3>6. PICK net : net = NetOf(doc, place.net)
      OBVIOUS
    <3>7. place.net \in NetIds(doc) /\ net = doc.nets[i]
      BY <3>5, <3>6, NetsAre
    <3>8. net.width = widths[i]
      BY <3>7 DEF IsLowered
    <3>9. ConnectionWidth(c, connection, net) = {}
      <4>1. BitsOf(connection, net.width) = {place.bit}
        BY <3>4, <3>5, <3>8
      <4>2. Cardinality({place.bit}) = 1
        BY FS_Singleton
      <4>3. c.width = 1
        BY <2>1 DEF IsWired
      <4>4. QED
        BY <4>1, <4>2, <4>3, WhenIs DEF ConnectionWidth
    <3>10. ConnectedErrors(doc, c, connection) = {}
      <4>1. doc.schema = "1.1"
        BY DEF IsLowered
      <4>2. QED
        BY <3>4, <3>6, <3>7, <3>9, <4>1, WhenIs DEF ConnectedErrors
    <3>11. port \in DOMAIN c.connections
      BY <2>1 DEF IsWired
    <3>12. QED
      BY <3>1, <3>10, <3>11 DEF ConnectionErrors
  <2>4. DOMAIN c.connections = LogicalPorts(c)
    BY <2>1 DEF IsWired
  <2>5. Required(c) = {}
    BY <2>2 DEF Required
  <2>6. DOMAIN c.parameters = {}
    BY <2>1 DEF IsWired
  <2>7. ConstErrors(c) = {}
    BY <2>2 DEF ConstErrors
  <2>8. UNION {ConnectionErrors(doc, c, port) : port \in LogicalPorts(c)} = {}
    BY <2>3
  <2>9. QED
    BY <2>2, <2>4, <2>5, <2>6, <2>7, <2>8 DEF ComponentErrors, When
<1>3. QED
  BY <1>1, <1>2 DEF ReferencesAndCatalog

\* No bit of a net has two drivers.
LEMMA Uncontested ==
  ASSUME NEW doc, NEW widths, NEW inputs, NEW out, IsLowered(doc, widths, inputs, out),
         NEW n \in DOMAIN widths
  PROVE  ~Contested(doc, doc.nets[n])
<1>1. PICK net : net = doc.nets[n]
  OBVIOUS
<1>2. n \in Nat /\ net.id = n - 1 /\ net.width = widths[n]
  BY <1>1 DEF IsLowered
<1>3. \A i \in DOMAIN widths : widths[i] \in Nat \ {0}
  BY DEF IsLowered
<1>4. ASSUME NEW e \in PortEnds(doc, net, {"input"})
      PROVE  \E i \in DOMAIN doc.ports :
               e = [at |-> <<"port", i>>, bits |-> 0..net.width - 1] /\ i = n /\ n - 1 < inputs
  <2>1. PICK i \in DOMAIN doc.ports :
          /\ e = [at |-> <<"port", i>>, bits |-> 0..net.width - 1]
          /\ doc.ports[i].dir = "input" /\ doc.ports[i].net = net.id
    BY DEF PortEnds
  <2>2. i \in DOMAIN widths /\ i - 1 = n - 1 /\ i <= inputs
    BY <1>2, <2>1 DEF IsLowered, PortsStand
  <2>3. i \in Nat /\ inputs \in Nat
    BY <2>2 DEF IsLowered
  <2>4. i = n /\ n - 1 < inputs
    BY <1>2, <2>2, <2>3
  <2>5. QED
    BY <2>1, <2>4
<1>5. ASSUME NEW e \in ComponentEnds(doc, net, {"Y"})
      PROVE  \E k \in DOMAIN doc.components :
               /\ e = [at |-> <<"Y", k>>, bits |-> {out[k].bit}]
               /\ out[k].net = n - 1
  <2>1. PICK k \in DOMAIN doc.components :
          /\ e = [at |-> <<"Y", k>>,
                  bits |-> BitsOf(doc.components[k].connections["Y"], net.width)]
          /\ Touches(doc, net, k, "Y")
    <3>1. PICK x \in {"Y"} \X DOMAIN doc.components :
            /\ e = [at |-> x,
                    bits |-> BitsOf(doc.components[x[2]].connections[x[1]], net.width)]
            /\ Touches(doc, net, x[2], x[1])
      BY DEF ComponentEnds
    <3>2. x = <<"Y", x[2]>> /\ x[1] = "Y" /\ x[2] \in DOMAIN doc.components
      OBVIOUS
    <3>3. QED
      BY <3>1, <3>2
  <2>2. PICK connection : connection = doc.components[k].connections["Y"]
    OBVIOUS
  <2>3. connection.net = n - 1
    BY <1>2, <2>1, <2>2 DEF Touches
  <2>4. Covers(connection, out[k], widths)
    BY <2>2 DEF IsLowered, DrivenApart
  <2>5. PICK place : place = out[k]
    OBVIOUS
  <2>6. connection.net = place.net /\ BitsOf(connection, widths[place.net + 1]) = {place.bit}
    BY <1>3, <2>4, <2>5, CoversBit
  <2>7. place.net + 1 = n
    BY <1>2, <2>3, <2>6
  <2>8. QED
    BY <1>2, <2>1, <2>2, <2>3, <2>5, <2>6, <2>7
<1>6. ASSUME NEW e \in Drivers(doc, net), NEW f \in Drivers(doc, net), e.bits \cap f.bits # {}
      PROVE  e = f
  <2>1. \A d \in Drivers(doc, net) :
          d \in PortEnds(doc, net, {"input"}) \/ d \in ComponentEnds(doc, net, {"Y"})
    BY DEF Drivers
  <2>2. CASE e \in PortEnds(doc, net, {"input"}) /\ f \in PortEnds(doc, net, {"input"})
    BY <1>4, <2>2
  <2>3. ASSUME NEW d \in PortEnds(doc, net, {"input"}), NEW g \in ComponentEnds(doc, net, {"Y"})
        PROVE  FALSE
    <3>1. n - 1 < inputs
      BY <1>4
    <3>2. PICK k \in DOMAIN doc.components : out[k].net = n - 1
      BY <1>5
    <3>3. ~(out[k].net < inputs)
      BY DEF IsLowered, DrivenApart
    <3>4. QED
      BY <3>1, <3>2, <3>3
  <2>4. CASE e \in ComponentEnds(doc, net, {"Y"}) /\ f \in ComponentEnds(doc, net, {"Y"})
    <3>1. PICK k \in DOMAIN doc.components :
            e = [at |-> <<"Y", k>>, bits |-> {out[k].bit}] /\ out[k].net = n - 1
      BY <1>5, <2>4
    <3>2. PICK m \in DOMAIN doc.components :
            f = [at |-> <<"Y", m>>, bits |-> {out[m].bit}] /\ out[m].net = n - 1
      BY <1>5, <2>4
    <3>3. out[k].bit = out[m].bit
      BY <1>6, <3>1, <3>2
    <3>4. k = m
      BY <3>1, <3>2, <3>3 DEF IsLowered, DrivenApart
    <3>5. QED
      BY <3>1, <3>2, <3>4
  <2>5. QED
    BY <2>1, <2>2, <2>3, <2>4
<1>7. QED
  BY <1>1, <1>6 DEF Contested

LEMMA ReportIs ==
  ASSUME NEW doc, NEW widths, NEW inputs, NEW out, IsLowered(doc, widths, inputs, out)
  PROVE  Report(doc) \subseteq UserErrors \cup Warnings
<1>1. Connectivity(doc) \subseteq UserErrors \cup Warnings
  <2>1. \A net \in UniqueNets(doc) : ~Contested(doc, net)
    <3>1. \A net \in UniqueNets(doc) : \E n \in DOMAIN widths : net = doc.nets[n]
      BY NetsAre DEF ToSet, IsLowered
    <3>2. QED
      BY <3>1, Uncontested
  <2>2. \A condition : /\ When(condition, "NET_NO_DRIVER") \subseteq UserErrors
                       /\ When(condition, "NET_UNUSED") \subseteq Warnings
                       /\ When(condition, "NET_NO_CONSUMERS") \subseteq Warnings
    BY DEF When, UserErrors, Warnings
  <2>3. ASSUME NEW code \in Connectivity(doc)
        PROVE  code \in UserErrors \cup Warnings
    <3>1. PICK net \in UniqueNets(doc) :
            \/ code \in When(Contested(doc, net), "NET_MULTIPLE_DRIVERS")
            \/ \E condition : \/ code \in When(condition, "NET_NO_DRIVER")
                              \/ code \in When(condition, "NET_UNUSED")
                              \/ code \in When(condition, "NET_NO_CONSUMERS")
      BY DEF Connectivity
    <3>2. When(Contested(doc, net), "NET_MULTIPLE_DRIVERS") = {}
      BY <2>1, WhenIs
    <3>3. QED
      BY <2>2, <3>1, <3>2
  <2>4. QED
    BY <2>3
<1>2. Cycles(doc) \subseteq UserErrors
  <2>1. \A condition : When(condition, "GRAPH_COMBINATIONAL_CYCLE") \subseteq UserErrors
    BY DEF When, UserErrors
  <2>2. QED
    BY <2>1 DEF Cycles
<1>3. Identity(doc) = {}
  BY IdentityIs
<1>4. Preflight(doc) \subseteq UserErrors /\ Widths(doc) \subseteq UserErrors
  BY PreflightIs, WidthsAre
<1>5. Names(doc) \subseteq UserErrors \cup Warnings
  BY NamesAreUsers
<1>6. ReferencesAndCatalog(doc) = {}
  BY ReferencesAre
<1>7. QED
  BY <1>1, <1>2, <1>3, <1>4, <1>5, <1>6 DEF Report

-----------------------------------------------------------------------------
(* The net assignment of a chip whose drivers are not shorted.             *)

LEMMA Chained ==
  ASSUME NEW p \in Nat, NEW q \in Nat, NEW s, NEW t,
         s = [i \in 1..p |-> s[i]], t = [i \in 1..q |-> t[i]]
  PROVE  /\ Len(s) = p /\ Len(t) = q /\ Len(s \o t) = p + q
         /\ DOMAIN (s \o t) = 1..p + q
         /\ \A i \in 1..p + q : (s \o t)[i] = IF i <= p THEN s[i] ELSE t[i - p]
<1>1. PICK S : S = {s[i] : i \in 1..p} \cup {t[i] : i \in 1..q}
  OBVIOUS
<1>2. s \in Seq(S) /\ t \in Seq(S) /\ Len(s) = p /\ Len(t) = q
  <2>1. s \in [1..p -> S] /\ t \in [1..q -> S]
    BY <1>1
  <2>2. QED
    BY <2>1
<1>3. PICK st : st = s \o t
  OBVIOUS
<1>4. /\ st \in Seq(S) /\ Len(st) = p + q
      /\ \A i \in 1..p + q : st[i] = IF i <= p THEN s[i] ELSE t[i - p]
  <2>1. s \o t \in Seq(S) /\ Len(s \o t) = p + q
    BY <1>2
  <2>2. \A i \in 1..p + q : (s \o t)[i] = IF i <= p THEN s[i] ELSE t[i - p]
    BY <1>2
  <2>3. QED
    BY <1>3, <2>1, <2>2
<1>5. DOMAIN st = 1..p + q
  BY <1>4
<1>6. QED
  BY <1>2, <1>3, <1>4, <1>5

\* The pins of a chip, with the roots of their bits and of its gates.
Flattened(tree, ins, outs, nands, pins, bits, ends, a, n, m) ==
  /\ pins = ins \o outs /\ bits = PinRoots(tree, pins) /\ ends = GateRoots(tree, nands)
  /\ Rooted(pins, bits, ends, n, m)
  /\ a \in Nat /\ a <= n /\ Len(ins) = a /\ DOMAIN ins = 1..a /\ DOMAIN nands = 1..m
  /\ \A i \in 1..n : pins[i].width # 0
  /\ \A i \in 1..a : pins[i] = ins[i]

IsRoot(r, bits, ends) ==
  (\E p \in DOMAIN bits : bits[p] = r) \/ (\E e \in DOMAIN ends : ends[e] = r)

\* Every net has a width: that of its pin, or one bit.
WidthsOf(widths, pins, bits, ends, n) ==
  \E c \in Nat :
    /\ DOMAIN Internal(bits, ends) = 1..c
    /\ DOMAIN widths = 1..n + c
    /\ \A i \in 1..n + c : widths[i] = IF i <= n THEN pins[i].width ELSE 1

LEMMA WidthsFit ==
  ASSUME NEW tree, NEW ins, NEW outs, NEW nands, NEW pins, NEW bits, NEW ends,
         NEW a, NEW n, NEW m, Flattened(tree, ins, outs, nands, pins, bits, ends, a, n, m)
  PROVE  WidthsOf(Assignment(tree, ins, outs, nands).widths, pins, bits, ends, n)
<1>1. PICK c \in Nat : DOMAIN Internal(bits, ends) = 1..c
  BY InternalIs DEF Flattened
<1>2. n \in Nat /\ DOMAIN pins = 1..n
  BY DEF Flattened, Rooted
<1>3. PICK s, t : /\ s = [i \in DOMAIN pins |-> pins[i].width]
                  /\ t = [i \in DOMAIN Internal(bits, ends) |-> 1]
  OBVIOUS
<1>4. s = [i \in 1..n |-> s[i]] /\ t = [i \in 1..c |-> t[i]]
  BY <1>1, <1>2, <1>3
<1>5. /\ DOMAIN (s \o t) = 1..n + c
      /\ \A i \in 1..n + c : (s \o t)[i] = IF i <= n THEN s[i] ELSE t[i - n]
  BY <1>2, <1>4, Chained
<1>6. Assignment(tree, ins, outs, nands).widths = s \o t
  BY <1>3 DEF Assignment, Flattened
<1>7. ASSUME NEW i \in 1..n + c
      PROVE  (s \o t)[i] = IF i <= n THEN pins[i].width ELSE 1
  <2>1. CASE i <= n
    <3>1. i \in 1..n
      BY <1>2, <2>1
    <3>2. QED
      BY <1>2, <1>3, <1>5, <2>1, <3>1
  <2>2. CASE ~(i <= n)
    <3>1. i - n \in 1..c
      BY <1>2, <2>2
    <3>2. QED
      BY <1>1, <1>3, <1>5, <2>2, <3>1
  <2>3. QED
    BY <2>1, <2>2
<1>8. QED
  BY <1>1, <1>5, <1>6, <1>7 DEF WidthsOf

LEMMA BitIs ==
  ASSUME NEW pins, NEW i, NEW b
  PROVE  <<i, b>> \in BitsOfPins(pins) <=> i \in DOMAIN pins /\ b \in 1..pins[i].width
BY DEF BitsOfPins

\* A home is a bit of a net.
LEMMA HomeFits ==
  ASSUME NEW tree, NEW ins, NEW outs, NEW nands, NEW pins, NEW bits, NEW ends,
         NEW a, NEW n, NEW m, Flattened(tree, ins, outs, nands, pins, bits, ends, a, n, m),
         NEW widths, WidthsOf(widths, pins, bits, ends, n), NEW r, IsRoot(r, bits, ends)
  PROVE  LET home == Home(bits, ends, pins, r) IN
         /\ InPins(home, r, bits, n) \/ InGates(home, r, bits, ends, n)
         /\ home.net \in Nat /\ home.net + 1 \in DOMAIN widths
         /\ home.bit \in Nat /\ home.bit < widths[home.net + 1]
<1>1. PICK home : home = Home(bits, ends, pins, r)
  OBVIOUS
<1>2. InPins(home, r, bits, n) \/ InGates(home, r, bits, ends, n)
  BY <1>1, HomeIs DEF Flattened, IsRoot
<1>3. PICK c \in Nat :
        /\ DOMAIN Internal(bits, ends) = 1..c
        /\ DOMAIN widths = 1..n + c
        /\ \A i \in 1..n + c : widths[i] = IF i <= n THEN pins[i].width ELSE 1
  BY DEF WidthsOf
<1>4. /\ n \in Nat /\ DOMAIN pins = 1..n /\ DOMAIN bits = BitsOfPins(pins)
      /\ \A i \in 1..n : pins[i].width \in Nat
  BY DEF Flattened, Rooted
<1>5. CASE InPins(home, r, bits, n)
  <2>1. /\ home.net \in 0..n - 1 /\ home.bit \in Nat
        /\ <<home.net + 1, home.bit + 1>> \in BitsOfPins(pins)
    BY <1>4, <1>5 DEF InPins
  <2>2. PICK x \in 0..n - 1, b \in Nat :
          home.net = x /\ home.bit = b /\ <<x + 1, b + 1>> \in BitsOfPins(pins)
    BY <2>1
  <2>3. x + 1 \in 1..n /\ b + 1 \in 1..pins[x + 1].width
    BY <1>4, <2>2, BitIs
  <2>4. PICK w \in Nat : w = pins[x + 1].width
    BY <1>4, <2>3
  <2>5. x + 1 \in 1..n + c /\ x + 1 <= n /\ b < w /\ x \in Nat
    BY <1>4, <2>2, <2>3, <2>4
  <2>6. widths[x + 1] = w
    BY <1>3, <2>4, <2>5
  <2>7. QED
    BY <1>1, <1>2, <1>3, <2>2, <2>5, <2>6
<1>6. CASE InGates(home, r, bits, ends, n)
  <2>1. PICK x \in Nat : home.net = x /\ ~(x < n) /\ x - n + 1 \in 1..c /\ home.bit = 0
    BY <1>3, <1>6 DEF InGates
  <2>2. x + 1 \in 1..n + c /\ ~(x + 1 <= n)
    BY <1>4, <2>1
  <2>3. widths[x + 1] = 1
    BY <1>3, <2>2
  <2>4. QED
    BY <1>1, <1>2, <1>3, <2>1, <2>2, <2>3
<1>7. QED
  BY <1>2, <1>5, <1>6

\* Two roots are not at home in one bit.
LEMMA HomesDiffer ==
  ASSUME NEW bits, NEW ends, NEW n, NEW r, NEW q, NEW home, NEW other,
         InPins(home, r, bits, n) \/ InGates(home, r, bits, ends, n),
         InPins(other, q, bits, n) \/ InGates(other, q, bits, ends, n),
         n \in Nat, home.net = other.net, home.bit = other.bit
  PROVE  r = q
<1>1. InPins(home, r, bits, n) => home.net < n
  BY DEF InPins
<1>2. InPins(other, q, bits, n) => other.net < n
  BY DEF InPins
<1>3. InGates(home, r, bits, ends, n) => ~(home.net < n)
  BY DEF InGates
<1>4. InGates(other, q, bits, ends, n) => ~(other.net < n)
  BY DEF InGates
<1>5. CASE InPins(home, r, bits, n) /\ InPins(other, q, bits, n)
  BY <1>5 DEF InPins
<1>6. CASE InGates(home, r, bits, ends, n) /\ InGates(other, q, bits, ends, n)
  BY <1>6 DEF InGates
<1>7. QED
  BY <1>1, <1>2, <1>3, <1>4, <1>5, <1>6

\* The root of what a gate drives.
LEMMA OutputRoot ==
  ASSUME NEW tree, NEW nands, NEW k \in DOMAIN nands
  PROVE  GateRoots(tree, nands)[<<k, 3>>] = Find(tree, nands[k].y).root
<1>1. PICK gate : gate = nands[k]
  OBVIOUS
<1>2. <<gate.a, gate.b, gate.y>>[3] = gate.y
  OBVIOUS
<1>3. <<k, 3>>[1] = k /\ <<k, 3>>[2] = 3
  OBVIOUS
<1>4. <<k, 3>> \in (DOMAIN nands) \X (1..3)
  OBVIOUS
<1>5. GateRoots(tree, nands)[<<k, 3>>] = Find(tree, <<gate.a, gate.b, gate.y>>[3]).root
  BY <1>1, <1>3, <1>4 DEF GateRoots
<1>6. QED
  BY <1>1, <1>2, <1>5

\* A gate drives no bit of an input.
LEMMA OffInputs ==
  ASSUME NEW tree, NEW ins, NEW outs, NEW nands, NEW pins, NEW bits, NEW ends,
         NEW a, NEW n, NEW m, Flattened(tree, ins, outs, nands, pins, bits, ends, a, n, m),
         ~Shorted(tree, ins, nands), NEW k \in 1..m, NEW home,
         InPins(home, ends[<<k, 3>>], bits, n)
  PROVE  ~(home.net < a)
<1>1. SUFFICES ASSUME home.net < a
               PROVE  FALSE
  OBVIOUS
<1>2. PICK r : r = ends[<<k, 3>>] /\ r = Find(tree, nands[k].y).root
  <2>1. ends = GateRoots(tree, nands) /\ k \in DOMAIN nands
    BY DEF Flattened
  <2>2. ends[<<k, 3>>] = Find(tree, nands[k].y).root
    BY <2>1, OutputRoot
  <2>3. QED
    BY <2>2
<1>3. /\ home.net \in 0..n - 1 /\ home.bit \in Nat
      /\ <<home.net + 1, home.bit + 1>> \in DOMAIN bits
      /\ bits[<<home.net + 1, home.bit + 1>>] = r
  BY <1>2 DEF InPins
<1>4. PICK i, b : i = home.net + 1 /\ b = home.bit + 1
  OBVIOUS
<1>5. /\ a \in Nat /\ a <= n /\ n \in Nat /\ DOMAIN ins = 1..a /\ DOMAIN nands = 1..m
      /\ \A j \in 1..a : pins[j] = ins[j]
      /\ bits = PinRoots(tree, pins) /\ DOMAIN bits = BitsOfPins(pins)
  BY DEF Flattened, Rooted
<1>6. i \in 1..a
  BY <1>1, <1>3, <1>4, <1>5
<1>7. <<i, b>> \in BitsOfPins(pins) /\ bits[<<i, b>>] = r
  BY <1>3, <1>4, <1>5
<1>8. <<i, b>> \in BitsOfPins(ins)
  BY <1>5, <1>6, <1>7, BitIs
<1>9. Find(tree, ins[i].nodes[b]).root = r
  <2>1. PICK p : p = <<i, b>>
    OBVIOUS
  <2>2. p[1] = i /\ p[2] = b
    BY <2>1
  <2>3. PinRoots(tree, pins)[p] = Find(tree, pins[p[1]].nodes[p[2]]).root
    BY <1>7, <2>1, <2>2 DEF PinRoots
  <2>4. QED
    BY <1>5, <1>6, <1>7, <2>1, <2>2, <2>3
<1>10. PICK d : d = [from |-> <<"input", i>>, bit |-> b, node |-> ins[i].nodes[b]]
  OBVIOUS
<1>11. PICK e : e = [from |-> <<"nand", k>>, bit |-> 1, node |-> nands[k].y]
  OBVIOUS
<1>12. d \in Driving(ins, nands)
  <2>1. PICK p : p = <<i, b>>
    OBVIOUS
  <2>2. p[1] = i /\ p[2] = b
    BY <2>1
  <2>3. p \in BitsOfPins(ins)
    BY <1>8, <2>1
  <2>4. d = [from |-> <<"input", p[1]>>, bit |-> p[2], node |-> ins[p[1]].nodes[p[2]]]
    BY <1>10, <2>2
  <2>5. QED
    BY <2>3, <2>4 DEF Driving
<1>13. e \in Driving(ins, nands)
  BY <1>5, <1>11 DEF Driving
<1>14. d # e
  <2>1. d.from = <<"input", i>> /\ e.from = <<"nand", k>>
    BY <1>10, <1>11
  <2>2. <<"input", i>>[1] = "input" /\ <<"nand", k>>[1] = "nand"
    OBVIOUS
  <2>3. QED
    BY <2>1, <2>2
<1>15. d.node = ins[i].nodes[b] /\ e.node = nands[k].y
  BY <1>10, <1>11
<1>16. QED
  BY <1>2, <1>9, <1>12, <1>13, <1>14, <1>15 DEF Shorted

\* Two gates do not drive one root.
LEMMA GatesApart ==
  ASSUME NEW tree, NEW ins, NEW outs, NEW nands, NEW pins, NEW bits, NEW ends,
         NEW a, NEW n, NEW m, Flattened(tree, ins, outs, nands, pins, bits, ends, a, n, m),
         ~Shorted(tree, ins, nands), NEW k \in 1..m, NEW l \in 1..m,
         ends[<<k, 3>>] = ends[<<l, 3>>]
  PROVE  k = l
<1>1. SUFFICES ASSUME k # l
               PROVE  FALSE
  OBVIOUS
<1>2. Find(tree, nands[k].y).root = Find(tree, nands[l].y).root
  <2>1. ends = GateRoots(tree, nands) /\ k \in DOMAIN nands /\ l \in DOMAIN nands
    BY DEF Flattened
  <2>2. QED
    BY <2>1, OutputRoot
<1>3. PICK d, e : /\ d = [from |-> <<"nand", k>>, bit |-> 1, node |-> nands[k].y]
                  /\ e = [from |-> <<"nand", l>>, bit |-> 1, node |-> nands[l].y]
  OBVIOUS
<1>4. DOMAIN nands = 1..m
  BY DEF Flattened
<1>5. d \in Driving(ins, nands) /\ e \in Driving(ins, nands)
  BY <1>3, <1>4 DEF Driving
<1>6. d # e
  <2>1. d.from = <<"nand", k>> /\ e.from = <<"nand", l>>
    BY <1>3
  <2>2. <<"nand", k>>[2] = k /\ <<"nand", l>>[2] = l
    OBVIOUS
  <2>3. QED
    BY <1>1, <2>1, <2>2
<1>7. d.node = nands[k].y /\ e.node = nands[l].y
  BY <1>3
<1>8. QED
  BY <1>2, <1>5, <1>6, <1>7 DEF Shorted

\* The bits that are copied: of outputs, no home of their root, and each once.
LEMMA CopiedIs ==
  ASSUME NEW tree, NEW ins, NEW outs, NEW nands, NEW pins, NEW bits, NEW ends,
         NEW a, NEW n, NEW m, Flattened(tree, ins, outs, nands, pins, bits, ends, a, n, m)
  PROVE  /\ \E q \in Nat : DOMAIN Copied(bits, ins) = 1..q
         /\ \A k \in DOMAIN Copied(bits, ins) :
              LET p == Copied(bits, ins)[k] IN
              /\ p \in DOMAIN bits /\ p = <<p[1], p[2]>> /\ p[1] \in 1..n /\ a < p[1]
              /\ p[2] \in 1..pins[p[1]].width
              /\ FirstWith(bits, bits[p]) # p
         /\ \A k, l \in DOMAIN Copied(bits, ins) :
              Copied(bits, ins)[k] = Copied(bits, ins)[l] => k = l
<1>1. /\ n \in Nat /\ DOMAIN pins = 1..n /\ \A i \in 1..n : pins[i].width \in Nat
      /\ DOMAIN bits = BitsOfPins(pins) /\ Len(ins) = a /\ a \in Nat
  BY DEF Flattened, Rooted
<1>2. PICK P : P = {p \in DOMAIN bits : p[1] > Len(ins) /\ FirstWith(bits, bits[p]) # p}
  OBVIOUS
<1>3. Copied(bits, ins) = InOrder(P)
  BY <1>2 DEF Copied
<1>4. DOMAIN bits \subseteq Places /\ IsFiniteSet(DOMAIN bits)
  BY <1>1, BitsFinite
<1>5. P \subseteq Places /\ IsFiniteSet(P)
  <2>1. P \in SUBSET DOMAIN bits
    BY <1>2
  <2>2. QED
    BY <1>4, <2>1, FS_Subset
<1>6. /\ DOMAIN InOrder(P) = 1..Cardinality(P) /\ Cardinality(P) \in Nat
      /\ \A k \in DOMAIN InOrder(P) : InOrder(P)[k] \in P
      /\ \A k, l \in DOMAIN InOrder(P) : InOrder(P)[k] = InOrder(P)[l] => k = l
  BY <1>5, InOrderIs
<1>7. ASSUME NEW p \in P
      PROVE  /\ p \in DOMAIN bits /\ p = <<p[1], p[2]>> /\ p[1] \in 1..n /\ a < p[1]
             /\ p[2] \in 1..pins[p[1]].width /\ FirstWith(bits, bits[p]) # p
  <2>1. p \in DOMAIN bits /\ p[1] > a /\ FirstWith(bits, bits[p]) # p
    BY <1>1, <1>2
  <2>2. p \in Places
    BY <1>5
  <2>3. p = <<p[1], p[2]>> /\ p[1] \in Nat
    BY <2>2 DEF Places
  <2>4. p[1] \in 1..n /\ p[2] \in 1..pins[p[1]].width
    BY <1>1, <2>1, <2>3, BitIs
  <2>5. QED
    BY <1>1, <2>1, <2>3, <2>4
<1>8. QED
  BY <1>3, <1>6, <1>7

-----------------------------------------------------------------------------
(* The document of a chip.                                                 *)

Fits(place, widths) ==
  /\ place.net \in Nat /\ place.net + 1 \in DOMAIN widths
  /\ place.bit \in Nat /\ place.bit < widths[place.net + 1]

LEMMA WiredGate ==
  ASSUME NEW widths, NEW x, NEW y, NEW z,
         Fits(x, widths), Fits(y, widths), Fits(z, widths), NEW id, NEW name, NEW c,
         c = [id |-> id, name |-> name, type |-> "NAND", width |-> 1,
              connections |-> [A |-> ConnectionTo(x, widths), B |-> ConnectionTo(y, widths),
                               Y |-> ConnectionTo(z, widths)],
              parameters |-> <<>>]
  PROVE  c.id = id /\ IsWired(c, widths) /\ Covers(c.connections["Y"], z, widths)
<1>1. PICK f, g, h : /\ f = ConnectionTo(x, widths) /\ g = ConnectionTo(y, widths)
                     /\ h = ConnectionTo(z, widths)
  OBVIOUS
<1>2. Covers(f, x, widths) /\ Covers(g, y, widths) /\ Covers(h, z, widths)
  BY <1>1 DEF Fits, Covers
<1>3. c = [id |-> id, name |-> name, type |-> "NAND", width |-> 1,
           connections |-> [A |-> f, B |-> g, Y |-> h], parameters |-> <<>>]
  BY <1>1
<1>4. /\ c.id = id /\ c.type = "NAND" /\ c.width = 1 /\ c.parameters = <<>>
      /\ DOMAIN c.connections = {"A", "B", "Y"}
      /\ c.connections["A"] = f /\ c.connections["B"] = g /\ c.connections["Y"] = h
  BY <1>3
<1>5. LogicalPorts(c) = {"A", "B", "Y"}
  BY <1>4 DEF LogicalPorts, Inputs, Binary, Unary
<1>6. QED
  BY <1>2, <1>4, <1>5 DEF IsWired

LEMMA WiredBuffer ==
  ASSUME NEW widths, NEW x, NEW z, Fits(x, widths), Fits(z, widths), NEW id, NEW name, NEW c,
         c = [id |-> id, name |-> name, type |-> "BUFFER", width |-> 1,
              connections |-> [A |-> ConnectionTo(x, widths), Y |-> ConnectionTo(z, widths)],
              parameters |-> <<>>]
  PROVE  c.id = id /\ IsWired(c, widths) /\ Covers(c.connections["Y"], z, widths)
<1>1. PICK f, h : f = ConnectionTo(x, widths) /\ h = ConnectionTo(z, widths)
  OBVIOUS
<1>2. Covers(f, x, widths) /\ Covers(h, z, widths)
  BY <1>1 DEF Fits, Covers
<1>3. c = [id |-> id, name |-> name, type |-> "BUFFER", width |-> 1,
           connections |-> [A |-> f, Y |-> h], parameters |-> <<>>]
  BY <1>1
<1>4. /\ c.id = id /\ c.type = "BUFFER" /\ c.width = 1 /\ c.parameters = <<>>
      /\ DOMAIN c.connections = {"A", "Y"}
      /\ c.connections["A"] = f /\ c.connections["Y"] = h
  BY <1>3
<1>5. LogicalPorts(c) = {"A", "Y"}
  BY <1>4 DEF LogicalPorts, Inputs, Binary, Unary
<1>6. QED
  BY <1>2, <1>4, <1>5 DEF IsWired

\* What the assignment gives: every gate at the homes of its three roots, and
\* every buffer from a home to a bit that is none.
Assigned(flat, pins, bits, ends, a, n, m, q) ==
  LET home(r) == Home(bits, ends, pins, r) IN
  /\ q \in Nat /\ DOMAIN flat.nands = 1..m /\ DOMAIN flat.buffers = 1..q
  /\ Len(flat.buffers) = q
  /\ \A k \in 1..m :
       flat.nands[k] = [a |-> home(ends[<<k, 1>>]), b |-> home(ends[<<k, 2>>]),
                        y |-> home(ends[<<k, 3>>])]
  /\ \A k \in 1..q :
       \E i \in 1..n, b \in Nat \ {0} :
         /\ <<i, b>> \in DOMAIN bits /\ a < i /\ b \in 1..pins[i].width
         /\ FirstWith(bits, bits[<<i, b>>]) # <<i, b>>
         /\ flat.buffers[k] = [from |-> home(bits[<<i, b>>]),
                               to |-> [net |-> i - 1, bit |-> b - 1]]
  /\ \A k, l \in 1..q : flat.buffers[k].to = flat.buffers[l].to => k = l

LEMMA AssignmentIs ==
  ASSUME NEW tree, NEW ins, NEW outs, NEW nands, NEW pins, NEW bits, NEW ends,
         NEW a, NEW n, NEW m, Flattened(tree, ins, outs, nands, pins, bits, ends, a, n, m),
         NEW flat, flat = Assignment(tree, ins, outs, nands)
  PROVE  \E q \in Nat : Assigned(flat, pins, bits, ends, a, n, m, q)
<1> DEFINE home(r) == Home(bits, ends, pins, r)
<1>1. PICK copied : copied = Copied(bits, ins)
  OBVIOUS
<1>2. PICK q \in Nat : DOMAIN copied = 1..q
  BY <1>1, CopiedIs
<1>3. DOMAIN nands = 1..m /\ n \in Nat
  BY DEF Flattened, Rooted
<1>4. /\ flat.nands = [k \in 1..m |->
                         [a |-> home(ends[<<k, 1>>]), b |-> home(ends[<<k, 2>>]),
                          y |-> home(ends[<<k, 3>>])]]
      /\ flat.buffers = [k \in 1..q |->
                           [from |-> home(bits[copied[k]]),
                            to |-> [net |-> copied[k][1] - 1, bit |-> copied[k][2] - 1]]]
  <2> HIDE DEF home
  <2>1. pins = ins \o outs /\ bits = PinRoots(tree, pins) /\ ends = GateRoots(tree, nands)
    BY DEF Flattened
  <2>2. QED
    BY <1>1, <1>2, <1>3, <2>1 DEF Assignment, home
<1> HIDE DEF home
<1>5. ASSUME NEW k \in 1..q
      PROVE  \E i \in 1..n, b \in Nat \ {0} :
               /\ copied[k] = <<i, b>>
               /\ <<i, b>> \in DOMAIN bits /\ a < i /\ b \in 1..pins[i].width
               /\ FirstWith(bits, bits[<<i, b>>]) # <<i, b>>
               /\ flat.buffers[k] = [from |-> home(bits[<<i, b>>]),
                                     to |-> [net |-> i - 1, bit |-> b - 1]]
  <2>1. PICK p : p = copied[k]
    OBVIOUS
  <2>2. /\ p \in DOMAIN bits /\ p = <<p[1], p[2]>> /\ p[1] \in 1..n /\ a < p[1]
        /\ p[2] \in 1..pins[p[1]].width /\ FirstWith(bits, bits[p]) # p
    BY <1>1, <1>2, <2>1, CopiedIs
  <2>3. PICK i \in 1..n : i = p[1]
    BY <2>2
  <2>4. PICK w \in Nat : w = pins[i].width
    BY <2>3 DEF Flattened, Rooted
  <2>5. PICK b \in Nat \ {0} : b = p[2] /\ b \in 1..w
    BY <2>2, <2>3, <2>4
  <2>6. flat.buffers[k] = [from |-> home(bits[p]), to |-> [net |-> i - 1, bit |-> b - 1]]
    BY <1>4, <2>1, <2>3, <2>5
  <2>7. p = <<i, b>>
    BY <2>2, <2>3, <2>5
  <2>8. QED
    BY <2>1, <2>2, <2>3, <2>4, <2>5, <2>6, <2>7
<1>6. ASSUME NEW k \in 1..q, NEW l \in 1..q, flat.buffers[k].to = flat.buffers[l].to
      PROVE  k = l
  <2>1. PICK i \in 1..n, b \in Nat \ {0} :
          /\ copied[k] = <<i, b>>
          /\ flat.buffers[k] = [from |-> home(bits[<<i, b>>]),
                                to |-> [net |-> i - 1, bit |-> b - 1]]
    BY <1>5
  <2>2. PICK j \in 1..n, c \in Nat \ {0} :
          /\ copied[l] = <<j, c>>
          /\ flat.buffers[l] = [from |-> home(bits[<<j, c>>]),
                                to |-> [net |-> j - 1, bit |-> c - 1]]
    BY <1>5
  <2>3. [net |-> i - 1, bit |-> b - 1] = [net |-> j - 1, bit |-> c - 1]
    BY <1>6, <2>1, <2>2
  <2>4. i - 1 = j - 1 /\ b - 1 = c - 1
    BY <2>3
  <2>5. i = j /\ b = c
    BY <2>4
  <2>6. copied[k] = copied[l]
    BY <2>1, <2>2, <2>5
  <2>7. QED
    BY <1>1, <1>2, <2>6, CopiedIs
<1>7. DOMAIN flat.nands = 1..m /\ DOMAIN flat.buffers = 1..q /\ Len(flat.buffers) = q
  BY <1>4
<1>8. \A k \in 1..m :
        flat.nands[k] = [a |-> home(ends[<<k, 1>>]), b |-> home(ends[<<k, 2>>]),
                         y |-> home(ends[<<k, 3>>])]
  BY <1>4
<1>9. \A k \in 1..q :
        \E i \in 1..n, b \in Nat \ {0} :
          /\ <<i, b>> \in DOMAIN bits /\ a < i /\ b \in 1..pins[i].width
          /\ FirstWith(bits, bits[<<i, b>>]) # <<i, b>>
          /\ flat.buffers[k] = [from |-> home(bits[<<i, b>>]),
                                to |-> [net |-> i - 1, bit |-> b - 1]]
  BY <1>5
<1>10. \A k, l \in 1..q : flat.buffers[k].to = flat.buffers[l].to => k = l
  BY <1>6
<1>11. Assigned(flat, pins, bits, ends, a, n, m, q)
  BY <1>7, <1>8, <1>9, <1>10, Zenon DEF Assigned, home
<1>12. QED
  BY <1>11

\* The pins of a chip: some number of each kind, with widths and names.
Pinned(pins, n, C) ==
  /\ n \in Nat /\ pins = [i \in 1..n |-> pins[i]]
  /\ \A i \in 1..n : pins[i].width \in Nat \ {0} /\ pins[i].name \in Seq(C)

ChipOf(tree, ins, outs, nands, pins, a, n, m, C) ==
  /\ Len(ins) = a /\ Pinned(pins, n, C) /\ Len(pins) = n
  /\ Flattened(tree, ins, outs, nands, pins, PinRoots(tree, pins),
               GateRoots(tree, nands), a, n, m)

LEMMA ChipFlattened ==
  ASSUME NEW C, NEW a, NEW b, NEW m \in Nat, NEW ins, NEW outs, NEW nands, NEW tree,
         Pinned(ins, a, C), Pinned(outs, b, C), DOMAIN nands = 1..m
  PROVE  ChipOf(tree, ins, outs, nands, ins \o outs, a, a + b, m, C)
<1>1. a \in Nat /\ b \in Nat /\ ins = [i \in 1..a |-> ins[i]] /\ outs = [i \in 1..b |-> outs[i]]
  BY DEF Pinned
<1>2. PICK n \in Nat : n = a + b
  BY <1>1
<1> PICK pins : pins = ins \o outs
  OBVIOUS
<1>3. /\ Len(ins) = a /\ Len(pins) = n /\ DOMAIN pins = 1..n
      /\ \A i \in 1..n : pins[i] = IF i <= a THEN ins[i] ELSE outs[i - a]
  BY <1>1, <1>2, Chained
<1>4. ASSUME NEW i \in 1..n
      PROVE  pins[i].width \in Nat \ {0} /\ pins[i].name \in Seq(C)
  <2>1. CASE i <= a
    <3>1. i \in 1..a
      BY <1>1, <2>1
    <3>2. QED
      BY <1>3, <2>1, <3>1 DEF Pinned
  <2>2. CASE ~(i <= a)
    <3>1. i - a \in 1..b
      BY <1>1, <1>2, <2>2
    <3>2. QED
      BY <1>3, <2>2, <3>1 DEF Pinned
  <2>3. QED
    BY <2>1, <2>2
<1>5. pins = [i \in 1..n |-> pins[i]]
  <2>1. PICK S : S = {ins[i] : i \in 1..a} \cup {outs[i] : i \in 1..b}
    OBVIOUS
  <2>2. ins \in Seq(S) /\ outs \in Seq(S)
    <3>1. ins \in [1..a -> S] /\ outs \in [1..b -> S]
      BY <1>1, <2>1
    <3>2. QED
      BY <1>1, <3>1
  <2>3. PICK chain : chain = ins \o outs
    OBVIOUS
  <2>4. chain \in Seq(S) /\ Len(chain) = n
    BY <1>3, <2>2, <2>3, ConcatProperties
  <2>5. chain \in [1..n -> S]
    BY <2>4
  <2>6. chain = [i \in 1..n |-> chain[i]]
    BY <2>5
  <2>7. QED
    BY <2>3, <2>6
<1>6. Pinned(pins, n, C)
  BY <1>4, <1>5 DEF Pinned
<1>7. PICK bits, ends : bits = PinRoots(tree, pins) /\ ends = GateRoots(tree, nands)
  OBVIOUS
<1>8. DOMAIN bits = BitsOfPins(pins) /\ DOMAIN ends = (1..m) \X (1..3)
  BY <1>7 DEF PinRoots, GateRoots
<1>9. \A i \in 1..a : i \in 1..n /\ i <= a
  BY <1>1, <1>2
<1>10. a <= n
  BY <1>1, <1>2
<1>11. DOMAIN ins = 1..a
  BY <1>1
<1>12. Rooted(pins, bits, ends, n, m)
  BY <1>3, <1>4, <1>8 DEF Rooted
<1>13. /\ \A i \in 1..n : pins[i].width # 0
       /\ \A i \in 1..a : pins[i] = ins[i]
  BY <1>3, <1>4, <1>9
<1>14. Flattened(tree, ins, outs, nands, pins, bits, ends, a, n, m)
  BY <1>1, <1>3, <1>7, <1>10, <1>11, <1>12, <1>13 DEF Flattened
<1>15. ChipOf(tree, ins, outs, nands, pins, a, n, m, C)
  BY <1>3, <1>6, <1>7, <1>14 DEF ChipOf
<1>16. QED
  BY <1>2, <1>15

\* What drives the bits: gates and buffers, each where no other does.
LEMMA OutputsApart ==
  ASSUME NEW tree, NEW ins, NEW outs, NEW nands, NEW pins, NEW bits, NEW ends,
         NEW a, NEW n, NEW m, Flattened(tree, ins, outs, nands, pins, bits, ends, a, n, m),
         ~Shorted(tree, ins, nands), m \in Nat,
         NEW widths, WidthsOf(widths, pins, bits, ends, n),
         NEW flat, NEW q \in Nat, Assigned(flat, pins, bits, ends, a, n, m, q)
  PROVE  /\ \A k \in 1..m : LET gate == flat.nands[k] IN
              /\ Fits(gate.a, widths) /\ Fits(gate.b, widths) /\ Fits(gate.y, widths)
              /\ ~(gate.y.net < a)
         /\ \A k \in 1..q : LET copy == flat.buffers[k] IN
              Fits(copy.from, widths) /\ Fits(copy.to, widths) /\ ~(copy.to.net < a)
         /\ \A k, l \in 1..m :
              flat.nands[k].y.net = flat.nands[l].y.net /\ flat.nands[k].y.bit = flat.nands[l].y.bit
                => k = l
         /\ \A k, l \in 1..q :
              flat.buffers[k].to.net = flat.buffers[l].to.net
                /\ flat.buffers[k].to.bit = flat.buffers[l].to.bit => k = l
         /\ \A k \in 1..m, l \in 1..q :
              ~(flat.nands[k].y.net = flat.buffers[l].to.net
                  /\ flat.nands[k].y.bit = flat.buffers[l].to.bit)
<1> DEFINE home(r) == Home(bits, ends, pins, r)
           HomeOk(h, r) == InPins(h, r, bits, n) \/ InGates(h, r, bits, ends, n)
<1>1. ASSUME NEW r, IsRoot(r, bits, ends)
      PROVE  Fits(home(r), widths) /\ HomeOk(home(r), r)
  BY <1>1, HomeFits DEF Fits
<1>2. /\ n \in Nat /\ a \in Nat /\ a <= n /\ DOMAIN ends = (1..m) \X (1..3)
      /\ DOMAIN bits = BitsOfPins(pins) /\ DOMAIN pins = 1..n
      /\ \A i \in 1..n : pins[i].width \in Nat
  BY DEF Flattened, Rooted
<1>3. ASSUME NEW k \in 1..m
      PROVE  /\ flat.nands[k] = [a |-> home(ends[<<k, 1>>]), b |-> home(ends[<<k, 2>>]),
                                 y |-> home(ends[<<k, 3>>])]
             /\ IsRoot(ends[<<k, 1>>], bits, ends) /\ IsRoot(ends[<<k, 2>>], bits, ends)
             /\ IsRoot(ends[<<k, 3>>], bits, ends)
  <2>1. <<k, 1>> \in DOMAIN ends /\ <<k, 2>> \in DOMAIN ends /\ <<k, 3>> \in DOMAIN ends
    BY <1>2
  <2>2. QED
    BY <2>1 DEF Assigned, IsRoot
<1>4. ASSUME NEW k \in 1..q
      PROVE  \E i \in 1..n, b \in Nat \ {0} :
               /\ <<i, b>> \in DOMAIN bits /\ a < i /\ b \in 1..pins[i].width
               /\ FirstWith(bits, bits[<<i, b>>]) # <<i, b>>
               /\ flat.buffers[k] = [from |-> home(bits[<<i, b>>]),
                                     to |-> [net |-> i - 1, bit |-> b - 1]]
               /\ IsRoot(bits[<<i, b>>], bits, ends)
  BY DEF Assigned, IsRoot
<1> HIDE DEF home, HomeOk
<1>5. ASSUME NEW k \in 1..m
      PROVE  /\ Fits(flat.nands[k].a, widths) /\ Fits(flat.nands[k].b, widths)
             /\ Fits(flat.nands[k].y, widths) /\ ~(flat.nands[k].y.net < a)
             /\ HomeOk(flat.nands[k].y, ends[<<k, 3>>])
  <2>1. PICK x, y, z : /\ x = home(ends[<<k, 1>>]) /\ y = home(ends[<<k, 2>>])
                       /\ z = home(ends[<<k, 3>>])
    OBVIOUS
  <2>2. /\ flat.nands[k].a = home(ends[<<k, 1>>]) /\ flat.nands[k].b = home(ends[<<k, 2>>])
        /\ flat.nands[k].y = home(ends[<<k, 3>>])
    <3>1. flat.nands[k] = [a |-> x, b |-> y, y |-> z]
      BY <1>3, <2>1
    <3>2. flat.nands[k].a = x /\ flat.nands[k].b = y /\ flat.nands[k].y = z
      BY <3>1
    <3>3. QED
      BY <2>1, <3>2
  <2>3. /\ Fits(flat.nands[k].a, widths) /\ Fits(flat.nands[k].b, widths)
        /\ Fits(flat.nands[k].y, widths) /\ HomeOk(flat.nands[k].y, ends[<<k, 3>>])
    BY <1>1, <1>3, <2>2
  <2>4. PICK h : h = flat.nands[k].y
    OBVIOUS
  <2>5. InPins(h, ends[<<k, 3>>], bits, n) => ~(h.net < a)
    BY OffInputs
  <2>6. InGates(h, ends[<<k, 3>>], bits, ends, n) => ~(h.net < a)
    BY <1>2 DEF InGates
  <2>7. QED
    BY <2>3, <2>4, <2>5, <2>6 DEF HomeOk
<1>6. ASSUME NEW k \in 1..q
      PROVE  /\ Fits(flat.buffers[k].from, widths) /\ Fits(flat.buffers[k].to, widths)
             /\ ~(flat.buffers[k].to.net < a)
  <2>1. PICK i \in 1..n, b \in Nat \ {0} :
          /\ a < i /\ b \in 1..pins[i].width
          /\ flat.buffers[k] = [from |-> home(bits[<<i, b>>]),
                                to |-> [net |-> i - 1, bit |-> b - 1]]
          /\ IsRoot(bits[<<i, b>>], bits, ends)
    BY <1>4
  <2>2. Fits(flat.buffers[k].from, widths)
    BY <1>1, <2>1
  <2>3. flat.buffers[k].to.net = i - 1 /\ flat.buffers[k].to.bit = b - 1
    BY <2>1
  <2>4. PICK c \in Nat :
          /\ DOMAIN widths = 1..n + c
          /\ \A j \in 1..n + c : widths[j] = IF j <= n THEN pins[j].width ELSE 1
    BY DEF WidthsOf
  <2>5. i \in 1..n + c /\ i <= n /\ i - 1 \in Nat /\ i - 1 + 1 = i /\ ~(i - 1 < a)
    BY <1>2, <2>1
  <2>6. PICK w \in Nat : w = pins[i].width
    BY <1>2
  <2>7. widths[i] = w
    BY <2>4, <2>5, <2>6
  <2>8. b - 1 \in Nat /\ b - 1 < w
    BY <2>1, <2>6
  <2>9. QED
    BY <2>2, <2>3, <2>4, <2>5, <2>7, <2>8 DEF Fits
<1>7. ASSUME NEW k \in 1..m, NEW l \in 1..m,
             flat.nands[k].y.net = flat.nands[l].y.net, flat.nands[k].y.bit = flat.nands[l].y.bit
      PROVE  k = l
  <2>1. PICK r, s : r = ends[<<k, 3>>] /\ s = ends[<<l, 3>>]
    OBVIOUS
  <2>2. HomeOk(flat.nands[k].y, r) /\ HomeOk(flat.nands[l].y, s)
    BY <1>5, <2>1
  <2>3. r = s
    BY <1>2, <1>7, <2>2, HomesDiffer DEF HomeOk
  <2>4. ends[<<k, 3>>] = ends[<<l, 3>>]
    BY <2>1, <2>3
  <2>5. QED
    BY <2>4, GatesApart
<1>8. ASSUME NEW k \in 1..q, NEW l \in 1..q,
             flat.buffers[k].to.net = flat.buffers[l].to.net,
             flat.buffers[k].to.bit = flat.buffers[l].to.bit
      PROVE  k = l
  <2>1. ASSUME NEW j \in 1..q
        PROVE  \E x, y : flat.buffers[j].to = [net |-> x, bit |-> y]
    <3>1. PICK i \in 1..n, b \in Nat \ {0} :
            flat.buffers[j] = [from |-> home(bits[<<i, b>>]),
                               to |-> [net |-> i - 1, bit |-> b - 1]]
      BY <1>4
    <3>2. PICK h, x, y : h = home(bits[<<i, b>>]) /\ x = i - 1 /\ y = b - 1
      OBVIOUS
    <3>3. flat.buffers[j] = [from |-> h, to |-> [net |-> x, bit |-> y]]
      BY <3>1, <3>2
    <3>4. flat.buffers[j].to = [net |-> x, bit |-> y]
      BY <3>3
    <3>5. QED
      BY <3>4
  <2>2. PICK x, y : flat.buffers[k].to = [net |-> x, bit |-> y]
    BY <2>1
  <2>3. PICK z, w : flat.buffers[l].to = [net |-> z, bit |-> w]
    BY <2>1
  <2>4. x = z /\ y = w
    BY <1>8, <2>2, <2>3
  <2>5. flat.buffers[k].to = flat.buffers[l].to
    BY <2>2, <2>3, <2>4
  <2>6. QED
    BY <2>5 DEF Assigned
<1>9. ASSUME NEW k \in 1..m, NEW l \in 1..q,
             flat.nands[k].y.net = flat.buffers[l].to.net,
             flat.nands[k].y.bit = flat.buffers[l].to.bit
      PROVE  FALSE
  <2>1. PICK i \in 1..n, b \in Nat \ {0} :
          /\ FirstWith(bits, bits[<<i, b>>]) # <<i, b>>
          /\ flat.buffers[l] = [from |-> home(bits[<<i, b>>]),
                                to |-> [net |-> i - 1, bit |-> b - 1]]
    BY <1>4
  <2>2. PICK h : h = flat.nands[k].y
    OBVIOUS
  <2>3. h.net = i - 1 /\ h.bit = b - 1
    BY <1>9, <2>1, <2>2
  <2>4. h.net + 1 = i /\ h.bit + 1 = b /\ h.net < n
    BY <1>2, <2>3
  <2>5. PICK r : r = ends[<<k, 3>>]
    OBVIOUS
  <2>6. InPins(h, r, bits, n) \/ InGates(h, r, bits, ends, n)
    BY <1>5, <2>2, <2>5 DEF HomeOk
  <2>7. InPins(h, r, bits, n)
    BY <2>4, <2>6 DEF InGates
  <2>8. bits[<<i, b>>] = r /\ FirstWith(bits, r) = <<i, b>>
    BY <2>4, <2>7 DEF InPins
  <2>9. QED
    BY <2>1, <2>8
<1>10. QED
  BY <1>5, <1>6, <1>7, <1>8, <1>9

\* The parts of a document that was lowered, in their order.
Gates(flat, m, q) ==
  [k \in 1..m |->
     [id |-> q + k, name |-> <<"g", "a", "t", "e">> \o Number(k - 1),
      type |-> "NAND", width |-> 1,
      connections |-> [A |-> ConnectionTo(flat.nands[k].a, flat.widths),
                       B |-> ConnectionTo(flat.nands[k].b, flat.widths),
                       Y |-> ConnectionTo(flat.nands[k].y, flat.widths)],
      parameters |-> <<>>]]

Buffers(flat, q) ==
  [k \in 1..q |->
     [id |-> k, name |-> <<"b", "u", "f", "f", "e", "r">> \o Number(k - 1),
      type |-> "BUFFER", width |-> 1,
      connections |-> [A |-> ConnectionTo(flat.buffers[k].from, flat.widths),
                       Y |-> ConnectionTo(flat.buffers[k].to, flat.widths)],
      parameters |-> <<>>]]

Parts(flat, m, q) == Gates(flat, m, q) \o Buffers(flat, q)

DocumentOf(doc, pins, a, flat, m, q) ==
  /\ doc.schema = "1.1"
  /\ doc.ports = [i \in DOMAIN pins |->
                    [id |-> i, name |-> PortTexts(pins)[i], width |-> pins[i].width,
                     dir |-> IF i <= a THEN "input" ELSE "output", net |-> i - 1]]
  /\ doc.nets = [i \in DOMAIN flat.widths |->
                   [id |-> i - 1, name |-> <<"n", "e", "t">> \o Number(i - 1),
                    width |-> flat.widths[i]]]
  /\ doc.components = Parts(flat, m, q)

LEMMA LoweredParts ==
  ASSUME NEW name, NEW tree, NEW ins, NEW outs, NEW nands,
         NEW m, DOMAIN Assignment(tree, ins, outs, nands).nands = 1..m,
         NEW q, DOMAIN Assignment(tree, ins, outs, nands).buffers = 1..q,
         Len(Assignment(tree, ins, outs, nands).buffers) = q
  PROVE  LET pins == ins \o outs
             flat == Assignment(tree, ins, outs, nands)
             doc  == Lower(name, tree, ins, outs, nands)
         IN  DocumentOf(doc, pins, Len(ins), flat, m, q)
<1>1. PICK pins, flat, doc :
        /\ pins = ins \o outs /\ flat = Assignment(tree, ins, outs, nands)
        /\ doc = Lower(name, tree, ins, outs, nands)
  OBVIOUS
<1>2. DOMAIN flat.nands = 1..m /\ DOMAIN flat.buffers = 1..q /\ Len(flat.buffers) = q
  BY <1>1
<1>3. PICK ports, nets, first, second :
        /\ ports = [i \in DOMAIN pins |->
                      [id |-> i, name |-> PortTexts(pins)[i], width |-> pins[i].width,
                       dir |-> IF i <= Len(ins) THEN "input" ELSE "output", net |-> i - 1]]
        /\ nets = [i \in DOMAIN flat.widths |->
                     [id |-> i - 1, name |-> <<"n", "e", "t">> \o Number(i - 1),
                      width |-> flat.widths[i]]]
        /\ first = Gates(flat, m, q) /\ second = Buffers(flat, q)
  OBVIOUS
<1>4. doc = [schema |-> "1.1", name |-> name, ports |-> ports, nets |-> nets,
             components |-> first \o second]
  BY <1>1, <1>2, <1>3, Zenon DEF Lower, Gates, Buffers
<1>5. doc.schema = "1.1" /\ doc.ports = ports /\ doc.nets = nets
      /\ doc.components = first \o second
  BY <1>4
<1>6. QED
  BY <1>1, <1>3, <1>5, Zenon DEF Parts, DocumentOf

\* The gates of a document, and the buffers after them, which differ in their ids.
InPlace(all, flat, m, q) ==
  /\ DOMAIN all = 1..m + q
  /\ \A k \in 1..m : all[k] = Gates(flat, m, q)[k]
  /\ \A k \in m + 1..m + q : k - m \in 1..q /\ all[k] = Buffers(flat, q)[k - m]
  /\ \A k, l \in DOMAIN all : all[k].id = all[l].id => k = l

LEMMA PartsStand ==
  ASSUME NEW flat, NEW m \in Nat, NEW q \in Nat
  PROVE  InPlace(Parts(flat, m, q), flat, m, q)
<1>1. PICK s, t, all : /\ s = Gates(flat, m, q) /\ t = Buffers(flat, q)
                       /\ all = s \o t /\ all = Parts(flat, m, q)
  BY DEF Parts
<1>2. s = [k \in 1..m |-> s[k]] /\ t = [k \in 1..q |-> t[k]]
  <2>1. s = [k \in 1..m |-> Gates(flat, m, q)[k]]
    BY <1>1 DEF Gates
  <2>2. t = [k \in 1..q |-> Buffers(flat, q)[k]]
    BY <1>1 DEF Buffers
  <2>3. QED
    BY <1>1, <2>1, <2>2
<1>3. /\ DOMAIN (s \o t) = 1..m + q
      /\ \A k \in 1..m + q : (s \o t)[k] = IF k <= m THEN s[k] ELSE t[k - m]
  BY <1>2, Chained
<1>4. ASSUME NEW k \in 1..m
      PROVE  s[k].id = q + k
  BY <1>1 DEF Gates
<1>5. ASSUME NEW k \in 1..q
      PROVE  t[k].id = k
  BY <1>1 DEF Buffers
<1>6. ASSUME NEW k \in 1..m
      PROVE  all[k] = s[k] /\ all[k].id = q + k
  <2>1. k \in 1..m + q /\ k <= m
    OBVIOUS
  <2>2. QED
    BY <1>1, <1>3, <1>4, <2>1
<1>7. ASSUME NEW k \in m + 1..m + q
      PROVE  k - m \in 1..q /\ all[k] = t[k - m] /\ all[k].id = k - m
  <2>1. k \in 1..m + q /\ ~(k <= m) /\ k - m \in 1..q
    OBVIOUS
  <2>2. QED
    BY <1>1, <1>3, <1>5, <2>1
<1>8. DOMAIN all = 1..m + q
  BY <1>1, <1>3
<1>9. ASSUME NEW k \in 1..m + q, NEW l \in 1..m + q, all[k].id = all[l].id
      PROVE  k = l
  <2>1. \A j \in 1..m + q :
          \/ j \in 1..m /\ all[j].id = q + j
          \/ j \in m + 1..m + q /\ all[j].id = j - m
    <3> SUFFICES ASSUME NEW j \in 1..m + q
                 PROVE  \/ j \in 1..m /\ all[j].id = q + j
                        \/ j \in m + 1..m + q /\ all[j].id = j - m
      OBVIOUS
    <3>1. j \in 1..m \/ j \in m + 1..m + q
      OBVIOUS
    <3>2. QED
      BY <1>6, <1>7, <3>1
  <2>2. PICK x, y : x = all[k].id /\ y = all[l].id
    OBVIOUS
  <2>3. (k \in 1..m /\ x = q + k) \/ (k \in m + 1..m + q /\ x = k - m)
    BY <2>1, <2>2
  <2>4. (l \in 1..m /\ y = q + l) \/ (l \in m + 1..m + q /\ y = l - m)
    BY <2>1, <2>2
  <2>5. x = y
    BY <1>9, <2>2
  <2>6. QED
    BY <2>3, <2>4, <2>5
<1>10. QED
  BY <1>1, <1>6, <1>7, <1>8, <1>9 DEF InPlace

\* The bits that gates and buffers drive, in the order of the components.
Outs(flat, m, q) ==
  [k \in 1..m + q |-> IF k <= m THEN flat.nands[k].y ELSE flat.buffers[k - m].to]

LEMMA PartsAreWired ==
  ASSUME NEW flat, NEW m \in Nat, NEW q \in Nat, NEW a,
         \A k \in 1..m : LET gate == flat.nands[k] IN
           /\ Fits(gate.a, flat.widths) /\ Fits(gate.b, flat.widths)
           /\ Fits(gate.y, flat.widths) /\ ~(gate.y.net < a),
         \A k \in 1..q : LET copy == flat.buffers[k] IN
           Fits(copy.from, flat.widths) /\ Fits(copy.to, flat.widths) /\ ~(copy.to.net < a)
  PROVE  LET all == Parts(flat, m, q) IN
         \A k \in 1..m + q :
           /\ IsWired(all[k], flat.widths)
           /\ Covers(all[k].connections["Y"], Outs(flat, m, q)[k], flat.widths)
           /\ ~(Outs(flat, m, q)[k].net < a)
<1>1. PICK widths, all : widths = flat.widths /\ all = Parts(flat, m, q)
  OBVIOUS
<1>2. ASSUME NEW k \in 1..m
      PROVE  LET c == Gates(flat, m, q)[k] IN
             IsWired(c, widths) /\ Covers(c.connections["Y"], flat.nands[k].y, widths)
  <2>1. PICK c : c = Gates(flat, m, q)[k]
    OBVIOUS
  <2>2. PICK x, y, z, id, name :
          /\ x = flat.nands[k].a /\ y = flat.nands[k].b /\ z = flat.nands[k].y
          /\ id = q + k /\ name = <<"g", "a", "t", "e">> \o Number(k - 1)
    OBVIOUS
  <2>3. c = [id |-> id, name |-> name, type |-> "NAND", width |-> 1,
             connections |-> [A |-> ConnectionTo(x, widths), B |-> ConnectionTo(y, widths),
                              Y |-> ConnectionTo(z, widths)],
             parameters |-> <<>>]
    BY <1>1, <2>1, <2>2, Zenon DEF Gates
  <2>4. Fits(x, widths) /\ Fits(y, widths) /\ Fits(z, widths)
    BY <1>1, <2>2
  <2>5. IsWired(c, widths) /\ Covers(c.connections["Y"], z, widths)
    BY <2>3, <2>4, WiredGate
  <2>6. QED
    BY <2>1, <2>2, <2>5
<1>3. ASSUME NEW k \in 1..q
      PROVE  LET c == Buffers(flat, q)[k] IN
             IsWired(c, widths) /\ Covers(c.connections["Y"], flat.buffers[k].to, widths)
  <2>1. PICK c : c = Buffers(flat, q)[k]
    OBVIOUS
  <2>2. PICK x, z, id, name :
          /\ x = flat.buffers[k].from /\ z = flat.buffers[k].to
          /\ id = k /\ name = <<"b", "u", "f", "f", "e", "r">> \o Number(k - 1)
    OBVIOUS
  <2>3. c = [id |-> id, name |-> name, type |-> "BUFFER", width |-> 1,
             connections |-> [A |-> ConnectionTo(x, widths), Y |-> ConnectionTo(z, widths)],
             parameters |-> <<>>]
    BY <1>1, <2>1, <2>2, Zenon DEF Buffers
  <2>4. Fits(x, widths) /\ Fits(z, widths)
    BY <1>1, <2>2
  <2>5. IsWired(c, widths) /\ Covers(c.connections["Y"], z, widths)
    BY <2>3, <2>4, WiredBuffer
  <2>6. QED
    BY <2>1, <2>2, <2>5
<1>4. /\ \A k \in 1..m : all[k] = Gates(flat, m, q)[k]
      /\ \A k \in m + 1..m + q : k - m \in 1..q /\ all[k] = Buffers(flat, q)[k - m]
  <2>1. InPlace(all, flat, m, q)
    BY <1>1, PartsStand
  <2>2. QED
    BY <2>1 DEF InPlace
<1>5. ASSUME NEW k \in 1..m + q
      PROVE  /\ IsWired(all[k], widths)
             /\ Covers(all[k].connections["Y"], Outs(flat, m, q)[k], widths)
             /\ ~(Outs(flat, m, q)[k].net < a)
  <2>1. CASE k <= m
    <3>1. k \in 1..m
      BY <2>1
    <3>2. Outs(flat, m, q)[k] = flat.nands[k].y
      BY <2>1 DEF Outs
    <3>3. QED
      BY <1>2, <1>4, <3>1, <3>2
  <2>2. CASE ~(k <= m)
    <3>1. k \in m + 1..m + q
      BY <2>2
    <3>2. Outs(flat, m, q)[k] = flat.buffers[k - m].to
      BY <2>2 DEF Outs
    <3>3. QED
      BY <1>3, <1>4, <3>1, <3>2
  <2>3. QED
    BY <2>1, <2>2
<1>6. QED
  BY <1>1, <1>5

\* Two gates, two buffers, or a gate and a buffer do not drive one bit.
Apart(flat, m, q) ==
  /\ \A k, l \in 1..m :
       flat.nands[k].y.net = flat.nands[l].y.net /\ flat.nands[k].y.bit = flat.nands[l].y.bit
         => k = l
  /\ \A k, l \in 1..q :
       flat.buffers[k].to.net = flat.buffers[l].to.net
         /\ flat.buffers[k].to.bit = flat.buffers[l].to.bit => k = l
  /\ \A k \in 1..m, l \in 1..q :
       ~(flat.nands[k].y.net = flat.buffers[l].to.net
           /\ flat.nands[k].y.bit = flat.buffers[l].to.bit)

LEMMA OutsDiffer ==
  ASSUME NEW flat, NEW m \in Nat, NEW q \in Nat, Apart(flat, m, q),
         NEW k \in 1..m + q, NEW l \in 1..m + q,
         Outs(flat, m, q)[k].net = Outs(flat, m, q)[l].net,
         Outs(flat, m, q)[k].bit = Outs(flat, m, q)[l].bit
  PROVE  k = l
<1> PICK out : out = Outs(flat, m, q)
  OBVIOUS
<1>1. ASSUME NEW j \in 1..m + q
      PROVE  \/ j \in 1..m /\ out[j] = flat.nands[j].y
             \/ ~(j \in 1..m) /\ j - m \in 1..q /\ out[j] = flat.buffers[j - m].to
  <2>1. CASE j <= m
    BY <2>1 DEF Outs
  <2>2. CASE ~(j <= m)
    BY <2>2 DEF Outs
  <2>3. QED
    BY <2>1, <2>2
<1>2. CASE k \in 1..m /\ l \in 1..m
  BY <1>1, <1>2 DEF Apart
<1>3. CASE k \in 1..m /\ ~(l \in 1..m)
  BY <1>1, <1>3 DEF Apart
<1>4. CASE ~(k \in 1..m) /\ l \in 1..m
  BY <1>1, <1>4 DEF Apart
<1>5. CASE ~(k \in 1..m) /\ ~(l \in 1..m)
  <2>1. PICK x \in 1..q, y \in 1..q :
          /\ x = k - m /\ y = l - m
          /\ out[k] = flat.buffers[x].to /\ out[l] = flat.buffers[y].to
    BY <1>1, <1>5
  <2>2. x = y
    BY <2>1 DEF Apart
  <2>3. QED
    BY <2>1, <2>2
<1>6. QED
  BY <1>2, <1>3, <1>4, <1>5

\* The kernel has nothing against a chip that was lowered but what its user did.
LEMMA LowerIs ==
  ASSUME NEW name, NEW tree, NEW C, Spelling(C),
         NEW a, NEW ins, Pinned(ins, a, C), NEW b, NEW outs, Pinned(outs, b, C),
         NEW m \in Nat, NEW nands, DOMAIN nands = 1..m, ~Shorted(tree, ins, nands)
  PROVE  Report(Lower(name, tree, ins, outs, nands)) \subseteq UserErrors \cup Warnings
<1>1. PICK pins, doc, flat :
        /\ pins = ins \o outs /\ doc = Lower(name, tree, ins, outs, nands)
        /\ flat = Assignment(tree, ins, outs, nands)
  OBVIOUS
<1>2. PICK n, bits, ends, widths :
        /\ n = a + b /\ bits = PinRoots(tree, pins) /\ ends = GateRoots(tree, nands)
        /\ widths = flat.widths
  OBVIOUS
<1>3. /\ Len(ins) = a /\ Pinned(pins, n, C) /\ Len(pins) = n
      /\ Flattened(tree, ins, outs, nands, pins, bits, ends, a, n, m)
  <2>1. ChipOf(tree, ins, outs, nands, ins \o outs, a, a + b, m, C)
    BY ChipFlattened
  <2>2. ChipOf(tree, ins, outs, nands, pins, a, n, m, C)
    BY <1>1, <1>2, <2>1
  <2>3. QED
    BY <1>2, <2>2 DEF ChipOf
<1>4. PICK q \in Nat : Assigned(flat, pins, bits, ends, a, n, m, q)
  BY <1>1, <1>3, AssignmentIs
<1>5. WidthsOf(widths, pins, bits, ends, n)
  BY <1>1, <1>2, <1>3, WidthsFit
<1>6. /\ \A k \in 1..m : LET gate == flat.nands[k] IN
           /\ Fits(gate.a, widths) /\ Fits(gate.b, widths) /\ Fits(gate.y, widths)
           /\ ~(gate.y.net < a)
      /\ \A k \in 1..q : LET copy == flat.buffers[k] IN
           Fits(copy.from, widths) /\ Fits(copy.to, widths) /\ ~(copy.to.net < a)
      /\ Apart(flat, m, q)
  BY <1>3, <1>4, <1>5, OutputsApart DEF Apart
<1>7. PICK all, out : all = Parts(flat, m, q) /\ out = Outs(flat, m, q)
  OBVIOUS
<1>8. InPlace(all, flat, m, q)
  BY <1>7, PartsStand
<1>9. /\ n \in Nat /\ DOMAIN pins = 1..n /\ a \in Nat
      /\ DOMAIN flat.nands = 1..m /\ DOMAIN flat.buffers = 1..q /\ Len(flat.buffers) = q
  BY <1>3, <1>4 DEF Flattened, Rooted, Assigned
<1>10. /\ doc.schema = "1.1"
      /\ doc.ports = [i \in 1..n |->
                        [id |-> i, name |-> PortTexts(pins)[i], width |-> pins[i].width,
                         dir |-> IF i <= a THEN "input" ELSE "output", net |-> i - 1]]
      /\ doc.nets = [i \in DOMAIN widths |->
                       [id |-> i - 1, name |-> <<"n", "e", "t">> \o Number(i - 1),
                        width |-> widths[i]]]
      /\ doc.components = all
  <2>1. DocumentOf(doc, pins, Len(ins), flat, m, q)
    BY <1>1, <1>9, LoweredParts
  <2>2. QED
    BY <1>2, <1>3, <1>7, <1>9, <2>1 DEF DocumentOf
<1>11. PICK c \in Nat :
         /\ DOMAIN widths = 1..n + c
         /\ \A i \in 1..n + c : widths[i] = IF i <= n THEN pins[i].width ELSE 1
  BY <1>5 DEF WidthsOf
<1>12. \A i \in DOMAIN widths : widths[i] \in Nat \ {0}
  <2>1. \A i \in 1..n : pins[i].width \in Nat \ {0}
    BY <1>3 DEF Pinned
  <2>2. \A i \in 1..n + c : i <= n => i \in 1..n
    BY <1>9
  <2>3. QED
    BY <1>11, <2>1, <2>2
<1>13. PortsStand(doc, widths, a)
  <2>1. GivenTo(PortTexts(pins), C, n)
    BY <1>3, <1>9, TextsDiffer DEF Pinned
  <2>2. DOMAIN doc.ports = 1..n
    BY <1>10
  <2>3. ASSUME NEW i \in 1..n
        PROVE  /\ i \in DOMAIN widths
               /\ doc.ports[i].id = i /\ doc.ports[i].net = i - 1
               /\ doc.ports[i].width = widths[i]
               /\ doc.ports[i].dir = (IF i <= a THEN "input" ELSE "output")
               /\ doc.ports[i].name = PortTexts(pins)[i]
    <3>1. i \in 1..n + c /\ i <= n
      BY <1>9
    <3>2. widths[i] = pins[i].width
      BY <1>11, <3>1
    <3>3. PICK text, w, dir, net : /\ text = PortTexts(pins)[i] /\ w = pins[i].width
                                   /\ dir = (IF i <= a THEN "input" ELSE "output")
                                   /\ net = i - 1
      OBVIOUS
    <3>4. doc.ports[i] = [id |-> i, name |-> text, width |-> w, dir |-> dir, net |-> net]
      BY <1>10, <3>3
    <3>5. /\ doc.ports[i].id = i /\ doc.ports[i].net = net /\ doc.ports[i].width = w
          /\ doc.ports[i].dir = dir /\ doc.ports[i].name = text
      BY <3>4
    <3>6. QED
      BY <1>11, <3>1, <3>2, <3>3, <3>5
  <2>4. \A i, j \in 1..n : doc.ports[i].name = doc.ports[j].name => i = j
    BY <2>1, <2>3 DEF GivenTo
  <2>5. QED
    BY <2>2, <2>3, <2>4 DEF PortsStand
<1>14. /\ DOMAIN doc.nets = DOMAIN widths
       /\ \A i \in DOMAIN widths : doc.nets[i].id = i - 1 /\ doc.nets[i].width = widths[i]
  BY <1>10
<1>15. /\ \A k \in DOMAIN doc.components : IsWired(doc.components[k], widths)
       /\ DrivenApart(doc, widths, a, out)
  <2>1. /\ \A k \in 1..m : LET gate == flat.nands[k] IN
             /\ Fits(gate.a, flat.widths) /\ Fits(gate.b, flat.widths)
             /\ Fits(gate.y, flat.widths) /\ ~(gate.y.net < a)
        /\ \A k \in 1..q : LET copy == flat.buffers[k] IN
             /\ Fits(copy.from, flat.widths) /\ Fits(copy.to, flat.widths)
             /\ ~(copy.to.net < a)
    BY <1>2, <1>6
  <2>2. \A k \in 1..m + q :
          /\ IsWired(all[k], flat.widths)
          /\ Covers(all[k].connections["Y"], Outs(flat, m, q)[k], flat.widths)
          /\ ~(Outs(flat, m, q)[k].net < a)
    BY <1>7, <2>1, PartsAreWired
  <2>3. DOMAIN all = 1..m + q
    BY <1>8 DEF InPlace
  <2>4. ASSUME NEW k \in 1..m + q, NEW l \in 1..m + q,
               out[k].net = out[l].net, out[k].bit = out[l].bit
        PROVE  k = l
    BY <1>6, <1>7, <2>4, OutsDiffer
  <2>5. QED
    BY <1>2, <1>7, <1>10, <2>2, <2>3, <2>4 DEF DrivenApart
<1>16. \A k, l \in DOMAIN doc.components :
         doc.components[k].id = doc.components[l].id => k = l
  BY <1>8, <1>10 DEF InPlace
<1>17. n + c \in Nat
  BY <1>9
<1>18. IsLowered(doc, widths, a, out)
  BY <1>9, <1>10, <1>11, <1>12, <1>13, <1>14, <1>15, <1>16, <1>17 DEF IsLowered
<1>19. QED
  BY <1>1, <1>18, ReportIs

-----------------------------------------------------------------------------
(* Elaboration as the command uses it.                                     *)

\* A frame stands for a chip of the project with no pin that has no bits.
SizedIn(p, frame) ==
  /\ "chip" \in DOMAIN frame /\ frame.chip \in ToSet(p.listing)
  /\ \A pin \in ToSet(PinsOf(p.file[frame.chip].chip)) : pin.width # 0

FramesIn(p, s) == \E S : s \in Seq(S) /\ \A frame \in S : SizedIn(p, frame)

IsSequence(s) == \E S : s \in Seq(S)

ElaborateInv ==
  IsSequence(gates) /\ FramesIn(project, frames) /\ KernelFindsOnlyUserErrors

LEMMA NoFrame ==
  ASSUME NEW p
  PROVE  FramesIn(p, <<>>) /\ IsSequence(<<>>)
<1>1. PICK S, s : S = {} /\ s = <<>>
  OBVIOUS
<1>2. s \in Seq(S) /\ \A frame \in S : SizedIn(p, frame)
  BY <1>1
<1>3. FramesIn(p, s) /\ IsSequence(s)
  BY <1>2 DEF FramesIn, IsSequence
<1>4. QED
  BY <1>1, <1>3

LEMMA OneFrame ==
  ASSUME NEW p, NEW frame, SizedIn(p, frame)
  PROVE  FramesIn(p, <<frame>>)
<1>1. PICK S, s : S = {frame} /\ s = <<frame>>
  OBVIOUS
<1>2. s \in Seq(S) /\ \A f \in S : SizedIn(p, f)
  BY <1>1
<1>3. FramesIn(p, s)
  BY <1>2 DEF FramesIn
<1>4. QED
  BY <1>1, <1>3

LEMMA FrameUpdated ==
  ASSUME NEW p, NEW s, FramesIn(p, s), NEW frame, "chip" \in DOMAIN s[Len(s)] =>
           "chip" \in DOMAIN frame /\ frame.chip = s[Len(s)].chip
  PROVE  FramesIn(p, [s EXCEPT ![Len(s)] = frame])
<1>1. PICK S : s \in Seq(S) /\ \A f \in S : SizedIn(p, f)
  BY DEF FramesIn
<1>2. PICK n \in Nat : n = Len(s) /\ DOMAIN s = 1..n
  BY <1>1
<1>3. PICK t : t = [s EXCEPT ![n] = frame]
  OBVIOUS
<1>4. CASE n = 0
  <2>1. DOMAIN s = {}
    BY <1>2, <1>4
  <2>2. t = s
    BY <1>1, <1>2, <1>3, <2>1
  <2>3. QED
    BY <1>2, <1>3, <2>2
<1>5. CASE n # 0
  <2>1. n \in 1..n /\ s[n] \in S
    BY <1>1, <1>2, <1>5
  <2>2. SizedIn(p, s[n])
    BY <1>1, <2>1
  <2>3. SizedIn(p, frame)
    BY <1>2, <2>2 DEF SizedIn
  <2>4. PICK T : T = S \cup {frame}
    OBVIOUS
  <2>5. t \in Seq(T)
    <3>1. s \in [1..n -> T] /\ frame \in T
      BY <1>1, <1>2, <2>4
    <3>2. t \in [1..n -> T]
      BY <1>3, <3>1
    <3>3. QED
      BY <3>2
  <2>6. \A f \in T : SizedIn(p, f)
    BY <1>1, <2>3, <2>4
  <2>7. QED
    BY <1>2, <1>3, <2>5, <2>6 DEF FramesIn
<1>6. QED
  BY <1>4, <1>5

LEMMA FrameAdded ==
  ASSUME NEW p, NEW s, FramesIn(p, s), NEW frame, SizedIn(p, frame)
  PROVE  FramesIn(p, Append(s, frame))
<1>1. PICK S : s \in Seq(S) /\ \A f \in S : SizedIn(p, f)
  BY DEF FramesIn
<1>2. PICK T : T = S \cup {frame}
  OBVIOUS
<1>3. s \in Seq(T) /\ frame \in T
  BY <1>1, <1>2
<1>4. Append(s, frame) \in Seq(T)
  BY <1>3, AppendProperties
<1>5. \A f \in T : SizedIn(p, f)
  BY <1>1, <1>2
<1>6. QED
  BY <1>4, <1>5 DEF FramesIn

LEMMA FrameLeft ==
  ASSUME NEW p, NEW s, FramesIn(p, s)
  PROVE  FramesIn(p, Front(s))
<1>1. PICK S : s \in Seq(S) /\ \A f \in S : SizedIn(p, f)
  BY DEF FramesIn
<1>2. PICK n \in Nat : n = Len(s) /\ DOMAIN s = 1..n
  BY <1>1
<1>3. Front(s) = [i \in 1..(n - 1) |-> s[i]]
  BY <1>1, <1>2 DEF Front
<1>4. Front(s) \in Seq(S)
  BY <1>1, <1>2, <1>3
<1>5. QED
  BY <1>1, <1>4 DEF FramesIn

LEMMA GateAdded ==
  ASSUME NEW s, IsSequence(s), NEW gate
  PROVE  IsSequence(Append(s, gate))
<1>1. PICK S : s \in Seq(S)
  BY DEF IsSequence
<1>2. PICK T : T = S \cup {gate}
  OBVIOUS
<1>3. s \in Seq(T) /\ gate \in T
  BY <1>1, <1>2
<1>4. Append(s, gate) \in Seq(T)
  BY <1>3, AppendProperties
<1>5. QED
  BY <1>4 DEF IsSequence

\* A chip whose pins got their nodes has none without bits.
LEMMA AllocatedIs ==
  ASSUME NEW pins, NEW size, Allocation(pins, size) = "ok"
  PROVE  \A pin \in ToSet(pins) : pin.width # 0
<1>1. \A i \in DOMAIN pins : pins[i].width # 0
  BY DEF Allocation
<1>2. QED
  BY <1>1 DEF ToSet

\* The pins of a kind that Finish hands on.
BoundTo(pins, boundary) ==
  [i \in DOMAIN pins |-> [name |-> pins[i].name, width |-> pins[i].width,
                          nodes |-> boundary[pins[i].id]]]

LEMMA BoundIs ==
  ASSUME NEW C, NEW pins, pins \in Seq(ToSet(pins)), NEW boundary,
         \A pin \in ToSet(pins) : pin.width \in Nat \ {0} /\ pin.name \in Seq(C)
  PROVE  Pinned(BoundTo(pins, boundary), Len(pins), C)
<1>1. PICK n \in Nat : n = Len(pins) /\ DOMAIN pins = 1..n
  OBVIOUS
<1>2. PICK bound : bound = BoundTo(pins, boundary)
  OBVIOUS
<1>3. bound = [i \in 1..n |-> [name |-> pins[i].name, width |-> pins[i].width,
                               nodes |-> boundary[pins[i].id]]]
  BY <1>1, <1>2 DEF BoundTo
<1>4. bound = [i \in 1..n |-> bound[i]]
  BY <1>3
<1>5. ASSUME NEW i \in 1..n
      PROVE  bound[i].width \in Nat \ {0} /\ bound[i].name \in Seq(C)
  <2>1. pins[i] \in ToSet(pins)
    BY <1>1 DEF ToSet
  <2>2. bound[i].width = pins[i].width /\ bound[i].name = pins[i].name
    BY <1>3
  <2>3. QED
    BY <2>1, <2>2
<1>6. QED
  BY <1>1, <1>2, <1>4, <1>5 DEF Pinned

\* The current frame is changed, but not the chip that it stands for.
LEMMA CurrentUpdated ==
  ASSUME FramesIn(project, frames), NEW more
  PROVE  FramesIn(project, Update([Current EXCEPT !.sub = @ + 1, !.ends = more @@ @]))
<1>1. PICK s, frame, changed :
        /\ s = frames /\ frame = Current
        /\ changed = [Current EXCEPT !.sub = @ + 1, !.ends = more @@ @]
  OBVIOUS
<1>2. "chip" \in DOMAIN frame => "chip" \in DOMAIN changed /\ changed.chip = frame.chip
  BY <1>1
<1>3. FramesIn(project, [s EXCEPT ![Len(s)] = changed])
  BY <1>1, <1>2, FrameUpdated DEF Current
<1>4. QED
  BY <1>1, <1>3 DEF Update

LEMMA WireUpdated ==
  ASSUME FramesIn(project, frames)
  PROVE  FramesIn(project, Update([Current EXCEPT !.wire = @ + 1]))
<1>1. PICK s, frame, changed :
        s = frames /\ frame = Current /\ changed = [Current EXCEPT !.wire = @ + 1]
  OBVIOUS
<1>2. "chip" \in DOMAIN frame => "chip" \in DOMAIN changed /\ changed.chip = frame.chip
  BY <1>1
<1>3. FramesIn(project, [s EXCEPT ![Len(s)] = changed])
  BY <1>1, <1>2, FrameUpdated DEF Current
<1>4. QED
  BY <1>1, <1>3 DEF Update

\* The chip of a unit has pins with names and bits.
LEMMA ChipIs ==
  ASSUME NEW p, IsProject(p), NEW frame, SizedIn(p, frame),
         NEW top, top = p.file[frame.chip].chip
  PROVE  /\ top.inputs \in Seq(ToSet(top.inputs)) /\ top.outputs \in Seq(ToSet(top.outputs))
         /\ \E C : /\ Spelling(C)
                   /\ \A pin \in ToSet(top.inputs) \cup ToSet(top.outputs) :
                        pin.width \in Nat \ {0} /\ pin.name \in Seq(C)
<1>1. PICK name : name = frame.chip /\ name \in ToSet(p.listing) /\ top = p.file[name].chip
  BY DEF SizedIn
<1>2. /\ top.inputs \in Seq(ToSet(top.inputs)) /\ top.outputs \in Seq(ToSet(top.outputs))
      /\ \A pin \in ToSet(PinsOf(top)) : pin.width \in Nat /\ pin.name \in Seq(ToSet(pin.name))
  BY <1>1 DEF IsProject
<1>3. \A pin \in ToSet(PinsOf(top)) : pin.width # 0
  BY DEF SizedIn
<1>4. ToSet(PinsOf(top)) = ToSet(top.inputs) \cup ToSet(top.outputs)
  BY <1>2, Concatenated DEF PinsOf
<1>5. PICK named : named = UNION {ToSet(pin.name) : pin \in ToSet(PinsOf(top))}
  OBVIOUS
<1>6. PICK C : C = Digits \cup {"_", "p", "o", "r", "t"} \cup named
  OBVIOUS
<1>7. Spelling(C)
  BY <1>6 DEF Spelling
<1>8. ASSUME NEW pin \in ToSet(PinsOf(top))
      PROVE  pin.width \in Nat \ {0} /\ pin.name \in Seq(C)
  <2>1. ToSet(pin.name) \subseteq named
    BY <1>5
  <2>2. ToSet(pin.name) \subseteq C
    BY <1>6, <2>1
  <2>3. PICK s, S : s = pin.name /\ S = ToSet(pin.name)
    OBVIOUS
  <2>4. s \in Seq(S) /\ S \subseteq C
    BY <1>2, <2>2, <2>3
  <2>5. s \in Seq(C)
    BY <2>4
  <2>6. QED
    BY <1>2, <1>3, <2>3, <2>5
<1>9. QED
  BY <1>2, <1>4, <1>7, <1>8

\* The document of a unit is of the kind that the kernel takes.
LEMMA FinishKept ==
  ASSUME IsProject(project), FramesIn(project, frames), IsSequence(gates),
         KernelFindsOnlyUserErrors, Finish
  PROVE  /\ IsSequence(gates') /\ FramesIn(project, frames')
         /\ KernelFindsOnlyUserErrors'
<1>1. PICK frame, top, boundary, tree, nands :
        /\ frame = Current /\ top = Chip(frame.chip) /\ boundary = frame.boundary
        /\ tree = parent /\ nands = gates
  OBVIOUS
<1>2. SizedIn(project, frame)
  <2>1. PICK S : frames \in Seq(S) /\ \A f \in S : SizedIn(project, f)
    BY DEF FramesIn
  <2>2. Len(frames) = 1
    BY DEF Finish
  <2>3. frames[1] \in S
    BY <2>1, <2>2
  <2>4. QED
    BY <1>1, <2>1, <2>2, <2>3 DEF Current
<1>3. PICK ins, outs : ins = BoundTo(top.inputs, boundary) /\ outs = BoundTo(top.outputs, boundary)
  OBVIOUS
<1>4. \/ UNCHANGED document /\ frames' = <<>> /\ gates' = gates
      \/ /\ ~Shorted(tree, ins, nands) /\ frames' = <<>> /\ gates' = gates
         /\ document' = <<Lower(frame.chip, tree, ins, outs, nands)>>
  BY <1>1, <1>3, Zenon DEF Finish, Give, BoundTo
<1>5. FramesIn(project, frames') /\ IsSequence(gates')
  BY <1>4, NoFrame
<1>6. CASE UNCHANGED document
  BY <1>5, <1>6 DEF KernelFindsOnlyUserErrors
<1>7. CASE /\ ~Shorted(tree, ins, nands)
           /\ document' = <<Lower(frame.chip, tree, ins, outs, nands)>>
  <2>1. top = project.file[frame.chip].chip
    BY <1>1 DEF Chip
  <2>2. PICK C :
          /\ Spelling(C)
          /\ \A pin \in ToSet(top.inputs) \cup ToSet(top.outputs) :
               pin.width \in Nat \ {0} /\ pin.name \in Seq(C)
    BY <1>2, <2>1, ChipIs
  <2>3. top.inputs \in Seq(ToSet(top.inputs)) /\ top.outputs \in Seq(ToSet(top.outputs))
    BY <1>2, <2>1, ChipIs
  <2>4. Pinned(ins, Len(top.inputs), C) /\ Pinned(outs, Len(top.outputs), C)
    BY <1>3, <2>2, <2>3, BoundIs
  <2>5. PICK m \in Nat : DOMAIN nands = 1..m
    BY <1>1 DEF IsSequence
  <2>6. PICK doc : doc = Lower(frame.chip, tree, ins, outs, nands)
    OBVIOUS
  <2>7. Report(doc) \subseteq UserErrors \cup Warnings
    BY <1>7, <2>2, <2>4, <2>5, <2>6, LowerIs
  <2>8. ToSet(document') = {doc}
    BY <1>7, <2>6 DEF ToSet
  <2>9. KernelFindsOnlyUserErrors'
    BY <2>7, <2>8 DEF KernelFindsOnlyUserErrors, UserErrors
  <2>10. QED
    BY <1>5, <2>9
<1>8. QED
  BY <1>4, <1>6, <1>7

LEMMA StartKept ==
  ASSUME chips \subseteq Listed, IsSequence(gates), FramesIn(project, frames), NEW unit,
         Start(unit)
  PROVE  /\ IsSequence(gates') /\ FramesIn(project, frames') /\ UNCHANGED document
<1>1. PICK pins : pins = PinsOf(Chip(unit))
  OBVIOUS
<1>2. PICK frame : frame = Frame(<<>>, unit, Boundary(pins, 0))
  OBVIOUS
<1>3. /\ gates' = <<>> /\ UNCHANGED document
      /\ \/ frames' = <<>>
         \/ unit \in chips /\ Allocation(pins, 0) = "ok" /\ frames' = <<frame>>
  BY <1>1, <1>2, Zenon DEF Start, Give
<1>4. frame.chip = unit /\ "chip" \in DOMAIN frame
  BY <1>2 DEF Frame
<1>5. CASE unit \in chips /\ Allocation(pins, 0) = "ok" /\ frames' = <<frame>>
  <2>1. unit \in ToSet(project.listing)
    BY <1>5 DEF Listed
  <2>2. \A pin \in ToSet(pins) : pin.width # 0
    BY <1>5, AllocatedIs
  <2>3. SizedIn(project, frame)
    BY <1>1, <1>4, <2>1, <2>2 DEF SizedIn, Chip
  <2>4. QED
    BY <1>3, <1>5, <2>3, OneFrame, NoFrame
<1>6. QED
  BY <1>3, <1>5, NoFrame

LEMMA PlaceBuiltinKept ==
  ASSUME IsSequence(gates), FramesIn(project, frames), PlaceBuiltin
  PROVE  /\ IsSequence(gates') /\ FramesIn(project, frames') /\ UNCHANGED document
<1>1. /\ UNCHANGED document
      /\ \/ frames' = <<>> /\ gates' = gates
         \/ /\ \E more : frames' = Update([Current EXCEPT !.sub = @ + 1, !.ends = more @@ @])
            /\ gates' = gates \/ \E gate : gates' = Append(gates, gate)
  BY DEF PlaceBuiltin, Give
<1>2. IsSequence(gates')
  BY <1>1, GateAdded
<1>3. CASE \E more : frames' = Update([Current EXCEPT !.sub = @ + 1, !.ends = more @@ @])
  <2>1. PICK more : frames' = Update([Current EXCEPT !.sub = @ + 1, !.ends = more @@ @])
    BY <1>3
  <2>2. QED
    BY <1>1, <1>2, <2>1, CurrentUpdated
<1>4. QED
  BY <1>1, <1>2, <1>3, NoFrame

LEMMA PlaceChipKept ==
  ASSUME chips \subseteq Listed, IsSequence(gates), FramesIn(project, frames), PlaceChip
  PROVE  /\ IsSequence(gates') /\ FramesIn(project, frames') /\ UNCHANGED document
<1>1. /\ UNCHANGED document /\ gates' = gates
      /\ \/ frames' = <<>>
         \/ \E name, path, inner, more :
              /\ ChipRefused(name) = "ok"
              /\ frames' = Append(Update([Current EXCEPT !.sub = @ + 1, !.ends = more @@ @]),
                                  Frame(path, name, inner))
  BY DEF PlaceChip, Give
<1>2. CASE \E name, path, inner, more :
              /\ ChipRefused(name) = "ok"
              /\ frames' = Append(Update([Current EXCEPT !.sub = @ + 1, !.ends = more @@ @]),
                                  Frame(path, name, inner))
  <2>1. PICK name, path, inner, more :
          /\ ChipRefused(name) = "ok"
          /\ frames' = Append(Update([Current EXCEPT !.sub = @ + 1, !.ends = more @@ @]),
                              Frame(path, name, inner))
    BY <1>2
  <2>2. name \in chips /\ Allocation(PinsOf(Chip(name)), Len(parent)) = "ok"
    BY <2>1 DEF ChipRefused
  <2>3. PICK pins : pins = PinsOf(Chip(name))
    OBVIOUS
  <2>4. \A pin \in ToSet(pins) : pin.width # 0
    BY <2>2, <2>3, AllocatedIs
  <2>5. PICK frame : frame = Frame(path, name, inner)
    OBVIOUS
  <2>6. frame.chip = name /\ "chip" \in DOMAIN frame
    BY <2>5 DEF Frame
  <2>7. SizedIn(project, frame)
    BY <2>2, <2>3, <2>4, <2>6 DEF SizedIn, Chip, Listed
  <2>8. PICK s : s = Update([Current EXCEPT !.sub = @ + 1, !.ends = more @@ @])
    OBVIOUS
  <2>9. FramesIn(project, s)
    BY <2>8, CurrentUpdated
  <2>10. FramesIn(project, Append(s, frame))
    BY <2>7, <2>9, FrameAdded
  <2>11. QED
    BY <1>1, <2>1, <2>5, <2>8, <2>10
<1>3. QED
  BY <1>1, <1>2, NoFrame

LEMMA JoinWireKept ==
  ASSUME IsSequence(gates), FramesIn(project, frames), JoinWire
  PROVE  /\ IsSequence(gates') /\ FramesIn(project, frames') /\ UNCHANGED document
<1>1. /\ UNCHANGED document /\ gates' = gates
      /\ frames' = <<>> \/ frames' = Update([Current EXCEPT !.wire = @ + 1])
  BY DEF JoinWire, Give
<1>2. QED
  BY <1>1, NoFrame, WireUpdated

LEMMA LeaveChipKept ==
  ASSUME IsSequence(gates), FramesIn(project, frames), LeaveChip
  PROVE  /\ IsSequence(gates') /\ FramesIn(project, frames') /\ UNCHANGED document
BY FrameLeft DEF LeaveChip

\* A step of the command is one of elaboration, or changes nothing here.
LEMMA ElaborateKept ==
  ASSUME ImportInv, LoaderInUse, ElaborateInv, [ImportNext]_importVars
  PROVE  ElaborateInv'
<1>1. project' = project
  BY LoaderSteps
<1>2. ASSUME UNCHANGED elaborateVars
      PROVE  ElaborateInv'
  BY <1>1, <1>2 DEF ElaborateInv, KernelFindsOnlyUserErrors, elaborateVars
<1>3. CASE ConvertDls
  <2>1. Next
    BY <1>3 DEF ConvertDls
  <2>2. Metadata # "ok" => phase \in {"open", "done"}
    BY DEF ImportInv, DlsCourse
  <2>3. IsSequence(gates) /\ FramesIn(project, frames) /\ KernelFindsOnlyUserErrors
    BY DEF ElaborateInv
  <2>4. ASSUME phase \in {"load", "elaborate"}
        PROVE  IsProject(project) /\ chips \subseteq Listed
    <3>1. Metadata = "ok"
      BY <2>2, <2>4
    <3>2. QED
      BY <3>1 DEF LoaderInUse, LoaderInv, IsOpen, Files
  <2>5. CASE StartUnit
    <3>1. phase = "load" /\ Start(Unit)
      BY <2>5 DEF StartUnit
    <3>2. IsSequence(gates') /\ FramesIn(project, frames') /\ UNCHANGED document
      BY <2>3, <2>4, <3>1, StartKept
    <3>3. QED
      BY <1>1, <2>3, <3>2 DEF ElaborateInv, KernelFindsOnlyUserErrors
  <2>6. CASE Elaborate
    <3>1. phase = "elaborate" /\ ElaborateNext
      BY <2>6 DEF Elaborate
    <3>2. IsProject(project) /\ chips \subseteq Listed
      BY <2>4, <3>1
    <3>3. CASE Finish
      BY <1>1, <2>3, <3>2, <3>3, FinishKept DEF ElaborateInv
    <3>4. CASE PlaceBuiltin \/ PlaceChip \/ JoinWire \/ LeaveChip
      <4>1. IsSequence(gates') /\ FramesIn(project, frames') /\ UNCHANGED document
        BY <2>3, <3>2, <3>4, PlaceBuiltinKept, PlaceChipKept, JoinWireKept, LeaveChipKept
      <4>2. QED
        BY <1>1, <2>3, <4>1 DEF ElaborateInv, KernelFindsOnlyUserErrors
    <3>5. QED
      BY <3>1, <3>3, <3>4 DEF ElaborateNext
  <2>7. CASE EndUnit
    <3>1. document' = <<>> /\ gates' = <<>> /\ frames' = frames
      BY <2>7 DEF EndUnit
    <3>2. IsSequence(gates')
      BY <3>1, NoFrame
    <3>3. ToSet(document') = {}
      BY <3>1 DEF ToSet
    <3>4. KernelFindsOnlyUserErrors'
      BY <3>3 DEF KernelFindsOnlyUserErrors
    <3>5. QED
      BY <1>1, <2>3, <3>1, <3>2, <3>4 DEF ElaborateInv
  <2>8. CASE ~(StartUnit \/ Elaborate \/ EndUnit)
    <3>1. UNCHANGED elaborateVars
      BY <2>1, <2>8 DEF Next, OpenProject, RefuseUnit, LoadUnit, Load, LoadFailed, Close
    <3>2. QED
      BY <1>2, <3>1
  <2>9. QED
    BY <2>5, <2>6, <2>7, <2>8
<1>4. CASE ~ConvertDls
  <2>1. UNCHANGED vars
    BY <1>4 DEF ImportNext, SelectProfile, ConvertLogisim, EndConversion, Compile, Check, Fails,
                WriteCanonical, EndCanonical, WriteVerilog, Write, EndImport, importVars
  <2>2. UNCHANGED elaborateVars
    BY <2>1 DEF vars
  <2>3. QED
    BY <1>2, <2>2
<1>5. QED
  BY <1>3, <1>4

LEMMA ElaborateStarts == ImportInit => ElaborateInv
<1> SUFFICES ASSUME ImportInit
             PROVE  ElaborateInv
  OBVIOUS
<1>1. gates = <<>> /\ frames = <<>> /\ document = <<>>
  BY DEF ImportInit, Init, ElaborateInit
<1>2. ToSet(document) = {}
  BY <1>1 DEF ToSet
<1>3. QED
  BY <1>1, <1>2, NoFrame DEF ElaborateInv, KernelFindsOnlyUserErrors

\* In every run of the command, whatever chips a project nests and however it wires
\* them, the kernel finds nothing wrong with a document of the DLS profile but what
\* is wrong with the user's own circuit: no net has two drivers, no two ports have
\* one name, and every gate and buffer stands in full on nets that are there.
THEOREM KernelFindsUserErrors == ImportSpec => []KernelFindsOnlyUserErrors
<1>1. ImportInv /\ LoaderInUse /\ ElaborateInv /\ [ImportNext]_importVars => ElaborateInv'
  BY ElaborateKept
<1>2. ElaborateInv => KernelFindsOnlyUserErrors
  BY DEF ElaborateInv
<1>3. QED
  BY <1>1, <1>2, ElaborateStarts, ImportInvariant, LoaderUsed, PTL DEF ImportSpec
=============================================================================
