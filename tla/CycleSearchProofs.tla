------------------------- MODULE CycleSearchProofs --------------------------
(***************************************************************************)
(* What holds of CycleSearch for any number of components and any circuit: *)
(* the groups the two passes collect are the components that reach one     *)
(* another, and a group is reported exactly when its lanes have a cycle.   *)
(***************************************************************************)
EXTENDS CycleSearch, FiniteSetTheorems, SequenceTheorems, WellFoundedInduction, TLAPS

-----------------------------------------------------------------------------
(* Numbers, and sets of them.                                              *)

LEMMA Least ==
  ASSUME NEW T, T \subseteq Nat, T # {}
  PROVE  \E n \in T : \A m \in T : n <= m
<1> DEFINE Below == {p \in Nat \X Nat : p[1] < p[2]}
<1>1. IsWellFoundedOn(Below, Nat)
  BY NatLessThanWellFounded DEF OpToRel
<1>2. PICK n \in T : \A m \in T : ~ (<<m, n>> \in Below)
  <2> HIDE DEF Below
  <2>1. QED
    BY <1>1, WFMin
<1>3. ASSUME NEW m \in T
      PROVE  n <= m
  <2>1. <<m, n>> \in Nat \X Nat /\ <<m, n>>[1] = m /\ <<m, n>>[2] = n
    OBVIOUS
  <2>2. ~(m < n)
    BY <1>2, <2>1
  <2>3. QED
    BY <2>2
<1>4. QED
  BY <1>3

LEMMA SmallestOf ==
  ASSUME NEW T, T \subseteq Nat, T # {}
  PROVE  Smallest(T) \in T /\ \A m \in T : Smallest(T) <= m
BY Least DEF Smallest

IsDescending(s) == \A i, j \in DOMAIN s : i < j => s[i] > s[j]

\* Every set of numbers up to n has a list from the greatest down.
LEMMA DescendingExists ==
  ASSUME NEW n \in Nat
  PROVE  \A S \in SUBSET (1..n) : \E s \in [1..Cardinality(S) -> S] : IsDescending(s)
<1> DEFINE Lists(S) == \E s \in [1..Cardinality(S) -> S] : IsDescending(s)
           Bad == {m \in Nat : m <= n /\ ~ \A S \in SUBSET (1..m) : Lists(S)}
<1>1. SUFFICES ASSUME Bad # {} PROVE FALSE
  <2>1. n \notin Bad => \A S \in SUBSET (1..n) : Lists(S)
    <3> HIDE DEF Lists
    <3>1. QED
      OBVIOUS
  <2>2. QED
    BY <2>1
<1>2. PICK m \in Bad : \A k \in Bad : m <= k
  <2>1. Bad \subseteq Nat
    OBVIOUS
  <2> HIDE DEF Bad
  <2>2. QED
    BY <1>1, <2>1, Least
<1>3. m \in Nat /\ m <= n /\ ~ \A S \in SUBSET (1..m) : Lists(S)
  BY <1>2
<1>4. PICK S \in SUBSET (1..m) : ~Lists(S)
  BY <1>3
<1>5. S # {}
  <2>1. SUFFICES ASSUME S = {} PROVE FALSE
    OBVIOUS
  <2>2. Cardinality(S) = 0
    BY <2>1, FS_EmptySet
  <2>3. <<>> \in [1..Cardinality(S) -> S] /\ IsDescending(<<>>)
    BY <2>2 DEF IsDescending
  <2>4. QED
    BY <1>4, <2>3
<1>6. m # 0 /\ m - 1 \in Nat /\ m - 1 <= n
  <2>1. m # 0
    <3>1. SUFFICES ASSUME m = 0 PROVE FALSE
      OBVIOUS
    <3>2. 1..m = {}
      BY <3>1
    <3>3. QED
      BY <1>4, <1>5, <3>2
  <2>2. QED
    BY <1>3, <2>1
<1>7. \A T \in SUBSET (1..m - 1) : Lists(T)
  <2>1. m - 1 \notin Bad
    <3>1. ~(m <= m - 1)
      BY <1>3
    <3> HIDE DEF Bad
    <3>2. QED
      BY <1>2, <3>1
  <2> HIDE DEF Lists
  <2>2. QED
    BY <2>1, <1>6
<1>8. m \in S
  <2>1. SUFFICES ASSUME m \notin S PROVE FALSE
    OBVIOUS
  <2>2. S \subseteq 1..m - 1
    BY <1>3, <1>4, <2>1
  <2> HIDE DEF Lists
  <2>3. QED
    BY <1>4, <1>7, <2>2
<1> DEFINE T == S \ {m}
<1>9. T \subseteq 1..m - 1
  BY <1>3, <1>4
<1>10. /\ IsFiniteSet(S)
       /\ Cardinality(S) = Cardinality(T) + 1
       /\ Cardinality(T) \in Nat
  <2>1. IsFiniteSet(1..m)
    BY <1>3, FS_Interval
  <2>2. IsFiniteSet(S)
    BY <2>1, <1>4, FS_Subset
  <2>3. Cardinality(T) = Cardinality(S) - 1 /\ IsFiniteSet(T)
    BY <2>2, <1>8, FS_RemoveElement
  <2>4. Cardinality(S) \in Nat /\ Cardinality(T) \in Nat
    BY <2>2, <2>3, FS_CardinalityType
  <2>5. QED
    BY <2>2, <2>3, <2>4
<1>11. PICK t \in [1..Cardinality(T) -> T] : IsDescending(t)
  BY <1>7, <1>9
<1> DEFINE c == Cardinality(T)
           s == [i \in 1..c + 1 |-> IF i = 1 THEN m ELSE t[i - 1]]
<1>12. \A i \in 1..c + 1 : i # 1 => i - 1 \in 1..c
  BY <1>10
<1>13. \A i \in 1..c : t[i] \in T /\ t[i] < m /\ t[i] \in Nat
  <2>1. \A k \in 1..m - 1 : k < m /\ k \in Nat
    BY <1>3
  <2>2. QED
    BY <1>9, <1>11, <2>1
<1>14. s \in [1..c + 1 -> S]
  BY <1>8, <1>12, <1>13
<1>15. ASSUME NEW i \in 1..c + 1, NEW j \in 1..c + 1, i < j
       PROVE  s[i] > s[j]
  <2>1. j # 1 /\ j - 1 \in 1..c /\ s[j] = t[j - 1]
    BY <1>12, <1>15, <1>10
  <2>2. CASE i = 1
    BY <2>1, <2>2, <1>13, <1>3
  <2>3. CASE i # 1
    <3>1. i - 1 \in 1..c /\ s[i] = t[i - 1] /\ i - 1 < j - 1
      BY <1>10, <1>12, <1>15, <2>3
    <3>2. DOMAIN t = 1..c
      BY <1>11
    <3>3. QED
      BY <1>11, <2>1, <3>1, <3>2 DEF IsDescending
  <2>4. QED
    BY <2>2, <2>3
<1>16. IsDescending(s)
  BY <1>15 DEF IsDescending
<1>17. Lists(S)
  BY <1>10, <1>14, <1>16
<1>18. QED
  BY <1>4, <1>17

\* What is pushed on a stack is the set itself, one entry for each member.
LEMMA DescendingOf ==
  ASSUME NEW S \in SUBSET Components
  PROVE  /\ Descending(S) \in Seq(S)
         /\ S = {Descending(S)[i] : i \in 1..Len(Descending(S))}
         /\ Descending(S) = <<>> <=> S = {}
<1> DEFINE s == Descending(S)
           n == Cardinality(S)
<1>1. /\ IsFiniteSet(S)
      /\ n \in Nat
  <2>1. IsFiniteSet(1..Count)
    BY CycleSearchAssumption, FS_Interval
  <2>2. IsFiniteSet(S)
    BY <2>1, FS_Subset DEF Components
  <2>3. QED
    BY <2>2, FS_CardinalityType
<1>2. s \in [1..n -> S] /\ IsDescending(s)
  <2>1. \E t \in [1..Cardinality(S) -> S] : IsDescending(t)
    BY CycleSearchAssumption, DescendingExists DEF Components
  <2>2. s = CHOOSE t \in [1..Cardinality(S) -> S] : IsDescending(t)
    BY DEF Descending, IsDescending
  <2>3. QED
    BY <2>1, <2>2
<1>3. s \in Seq(S) /\ Len(s) = n /\ DOMAIN s = 1..n
  BY <1>1, <1>2
<1> HIDE DEF s
<1>4. ASSUME NEW i \in 1..n, NEW j \in 1..n, s[i] = s[j]
      PROVE  i = j
  <2>1. \A k \in 1..n : s[k] \in Nat
    <3>1. S \subseteq Nat
      BY CycleSearchAssumption DEF Components
    <3>2. QED
      BY <1>2, <3>1
  <2>2. QED
    BY <1>2, <1>3, <1>4, <2>1, <1>1 DEF IsDescending
<1>5. s \in Injection(1..n, S)
  BY <1>2, <1>4 DEF Injection, IsInjective
<1>6. Cardinality(1..n) = n
  BY <1>1, FS_Interval
<1>7. s \in Surjection(1..n, S)
  BY <1>1, <1>5, <1>6, FS_Injection
<1>8. S = {s[i] : i \in 1..n}
  BY <1>2, <1>7 DEF Surjection
<1>9. (s = <<>>) <=> (S = {})
  BY <1>1, <1>2, <1>3, <1>8
<1>10. QED
  BY <1>3, <1>8, <1>9 DEF s

\* The stack without its top.
LEMMA RestOf ==
  ASSUME NEW E, NEW s \in Seq(E), s # <<>>
  PROVE  /\ Len(s) \in Nat \ {0}
         /\ Top(s) \in E
         /\ Rest(s) \in Seq(E)
         /\ Len(Rest(s)) = Len(s) - 1
         /\ \A k \in 1..Len(s) - 1 : Rest(s)[k] = s[k]
<1>1. Len(s) \in Nat \ {0}
  OBVIOUS
<1>2. Top(s) \in E
  BY <1>1 DEF Top
<1>3. PICK n \in Nat : n = Len(s) - 1
  BY <1>1
<1>4. \A k \in 1..n : s[k] \in E
  BY <1>1, <1>3
<1> DEFINE t == SubSeq(s, 1, n)
<1>5. /\ t \in Seq(E)
      /\ Len(t) = IF 1 <= n THEN n - 1 + 1 ELSE 0
      /\ \A k \in 1..n - 1 + 1 : t[k] = s[1 + k - 1]
  BY <1>4, SubSeqProperties
<1> HIDE DEF t
<1>6. Len(t) = n /\ \A k \in 1..n : t[k] = s[k]
  <2>1. n - 1 + 1 = n
    OBVIOUS
  <2>2. \A k \in 1..n : 1 + k - 1 = k
    OBVIOUS
  <2>3. Len(t) = n
    BY <1>5, <2>1
  <2>4. QED
    BY <1>5, <2>1, <2>2, <2>3
<1>7. QED
  BY <1>1, <1>2, <1>3, <1>5, <1>6 DEF Rest, t


-----------------------------------------------------------------------------
(***************************************************************************)
(* The component graph.                                                    *)
(***************************************************************************)
Graph ==
  /\ drivers = DriversByNet
  /\ adjacency = [d \in Components |-> {c \in Components : Feeds(drivers, d, c)}]

Edges == adjacency \in [Components -> SUBSET Components]

Reachable == {p \in Components \X Components : Reaches(p[1], p[2])}

Mutual == {p \in Components \X Components : Reaches(p[1], p[2]) /\ Reaches(p[2], p[1])}

Groups == {Together(c) : c \in Components}

LEMMA GraphEdges == Graph => Edges
BY DEF Graph, Edges

LEMMA ReachableSelf ==
  ASSUME NEW c \in Components
  PROVE  <<c, c>> \in Reachable /\ <<c, c>> \in Mutual
BY DEF Reachable, Mutual, Reaches

LEMMA ReachableEdge ==
  ASSUME Edges, NEW c \in Components, NEW d \in adjacency[c]
  PROVE  <<c, d>> \in Reachable
<1>1. d \in Components
  BY DEF Edges
<1>2. Reaches(c, d)
  BY DEF Reaches
<1>3. QED
  BY <1>1, <1>2 DEF Reachable

\* What is reached from what is reached is reached.
LEMMA ReachableThrough ==
  ASSUME NEW c, NEW d, NEW e, <<c, d>> \in Reachable, <<d, e>> \in Reachable
  PROVE  <<c, e>> \in Reachable
<1>1. c \in Components /\ e \in Components /\ Reaches(c, d) /\ Reaches(d, e)
  BY DEF Reachable
<1>2. Reaches(c, e)
  BY <1>1 DEF Reaches
<1>3. QED
  BY <1>1, <1>2 DEF Reachable

\* A set that no edge leaves is not left, and one that no edge enters is not entered.
LEMMA ReachableWithin ==
  ASSUME NEW S \in SUBSET Components, \A e \in S : adjacency[e] \subseteq S,
         NEW c \in S, NEW d, <<c, d>> \in Reachable
  PROVE  d \in S
BY DEF Reachable, Reaches

LEMMA ReachableFromWithin ==
  ASSUME Edges, NEW S \in SUBSET Components,
         \A e \in S : \A f \in Components : e \in adjacency[f] => f \in S,
         NEW d \in S, NEW c, <<c, d>> \in Reachable
  PROVE  c \in S
<1> DEFINE T == Components \ S
<1>1. SUFFICES ASSUME c \notin S PROVE FALSE
  OBVIOUS
<1>2. c \in T
  BY <1>1 DEF Reachable
<1>3. \A e \in T : adjacency[e] \subseteq T
  BY DEF Edges
<1>4. d \in T
  BY <1>2, <1>3, ReachableWithin
<1>5. QED
  BY <1>4

LEMMA MutualBoth ==
  ASSUME NEW c, NEW d
  PROVE  <<c, d>> \in Mutual <=> <<c, d>> \in Reachable /\ <<d, c>> \in Reachable
BY DEF Mutual, Reachable

\* Groups that share a component are one.
LEMMA TogetherIs ==
  ASSUME NEW c \in Components, NEW d
  PROVE  /\ d \in Together(c) <=> <<c, d>> \in Mutual
         /\ d \in Together(c) => Together(d) = Together(c)
<1>1. d \in Together(c) <=> <<c, d>> \in Mutual
  BY DEF Together, Mutual
<1>2. ASSUME d \in Together(c)
      PROVE  Together(d) = Together(c)
  <2>1. d \in Components /\ <<c, d>> \in Reachable /\ <<d, c>> \in Reachable
    BY <1>1, <1>2, MutualBoth DEF Together
  <2>2. ASSUME NEW x
        PROVE  x \in Together(d) <=> x \in Together(c)
    <3>1. x \in Together(d) <=> <<d, x>> \in Reachable /\ <<x, d>> \in Reachable
      BY <2>1, MutualBoth DEF Together, Mutual
    <3>2. x \in Together(c) <=> <<c, x>> \in Reachable /\ <<x, c>> \in Reachable
      BY MutualBoth DEF Together, Mutual
    <3>3. QED
      BY <2>1, <3>1, <3>2, ReachableThrough
  <2>3. QED
    BY <2>2
<1>3. QED
  BY <1>1, <1>2

\* What a search leaves alone.
LEMMA GraphStays ==
  ASSUME UNCHANGED given
  PROVE  /\ Graph' = Graph /\ Edges' = Edges
         /\ Reachable' = Reachable /\ Mutual' = Mutual /\ Groups' = Groups
<1>1. circuit' = circuit /\ drivers' = drivers /\ adjacency' = adjacency
  BY DEF given
<1>2. DriversByNet' = DriversByNet
  BY <1>1 DEF DriversByNet, Ambiguous, Share
<1>3. [d \in Components |-> {c \in Components : Feeds(drivers, d, c)}]'
        = [d \in Components |-> {c \in Components : Feeds(drivers, d, c)}]
  BY <1>1 DEF Feeds, Share
<1>4. Graph' = Graph /\ Edges' = Edges
  BY <1>1, <1>2, <1>3 DEF Graph, Edges
<1>5. \A c, d : Reaches(c, d)' <=> Reaches(c, d)
  BY <1>1 DEF Reaches
<1>6. Reachable' = Reachable /\ Mutual' = Mutual
  BY <1>5 DEF Reachable, Mutual
<1>7. \A c \in Components : Together(c)' = Together(c)
  BY <1>5 DEF Together
<1>8. Groups' = Groups
  BY <1>7 DEF Groups
<1>9. QED
  BY <1>4, <1>6, <1>8


-----------------------------------------------------------------------------
(***************************************************************************)
(* The order of the passes.                                                *)
(***************************************************************************)
PassOrder ==
  /\ circuit \in Circuits
  /\ pass \in {"build", "finish", "assign", "refine", "lanes", "done"}
  /\ pass # "build" => Graph
  /\ pass \in {"build", "refine", "done"} => stack = <<>>

\* The stack is empty between the passes, and the graph stays as it was built.
LEMMA Passes == Spec => []PassOrder
<1>1. Init => PassOrder
  BY DEF Init, PassOrder
<1>2. PassOrder /\ [Next]_vars => PassOrder'
  <2> SUFFICES ASSUME PassOrder, [Next]_vars
               PROVE  PassOrder'
    OBVIOUS
  <2>1. CASE BuildGraph
    <3>1. DriversByNet' = DriversByNet
      BY <2>1 DEF BuildGraph, DriversByNet, Ambiguous, Share
    <3>2. Graph'
      BY <2>1, <3>1 DEF BuildGraph, Graph, Feeds, Share
    <3>3. QED
      BY <2>1, <3>2 DEF BuildGraph, PassOrder
  <2>2. CASE UNCHANGED given
    <3>1. Graph' = Graph /\ circuit' = circuit
      BY <2>2, GraphStays DEF given
    <3>2. CASE StartVisit \/ Visit \/ EndFinish
      BY <3>1, <3>2 DEF PassOrder, StartVisit, Visit, EndFinish
    <3>3. CASE StartGroup \/ Collect \/ EndAssign
      BY <3>1, <3>3 DEF PassOrder, StartGroup, Collect, EndAssign
    <3>4. CASE NextGroup \/ StartLane \/ FinishLane
      BY <3>1, <3>4 DEF PassOrder, NextGroup, StartLane, FinishLane
    <3>5. CASE FollowInput
      BY <3>1, <3>5 DEF PassOrder, FollowInput
    <3>6. CASE EndGroup \/ EndRefine
      BY <3>1, <3>6 DEF PassOrder, EndGroup, EndRefine
    <3>7. CASE UNCHANGED vars
      BY <3>1, <3>7 DEF PassOrder, vars
    <3>8. CASE BuildGraph
      BY <2>1, <3>8
    <3>9. QED
      BY <3>2, <3>3, <3>4, <3>5, <3>6, <3>7, <3>8 DEF Next
  <2>3. BuildGraph \/ UNCHANGED given
    BY DEF Next, vars, StartVisit, Visit, EndFinish, StartGroup, Collect, EndAssign,
           NextGroup, StartLane, FinishLane, FollowInput, EndGroup, EndRefine
  <2>4. QED
    BY <2>1, <2>2, <2>3
<1>3. QED
  BY <1>1, <1>2, PTL DEF Spec


-----------------------------------------------------------------------------
(***************************************************************************)
(* The first pass.                                                         *)
(***************************************************************************)
\* Components whose visit has ended, and those whose visit has only begun.
Finished == {order[i] : i \in 1..Len(order)}
Begun    == {k \in 1..Len(stack) : stack[k][2]}
Open     == {stack[k][1] : k \in Begun}

VisitTypes ==
  /\ stack \in Seq(Components \X BOOLEAN)
  /\ next \in 1..Count + 1

VisitedOnce ==
  /\ visited = Finished \cup Open /\ Finished \cap Open = {}
  /\ \A k, l \in Begun : stack[k][1] = stack[l][1] => k = l

\* What is above an open visit on the stack was met from it.
ReachesAbove ==
  \A k \in Begun : \A l \in k + 1..Len(stack) : <<stack[k][1], stack[l][1]>> \in Reachable

\* What a component feeds was visited when its visit ends, and is to be until then.
FinishedFeeds == \A c \in Finished : adjacency[c] \subseteq visited

OpenFeeds ==
  \A k \in Begun : \A d \in adjacency[stack[k][1]] :
    d \in visited \/ \E l \in k + 1..Len(stack) : stack[l][1] = d /\ ~stack[l][2]

\* A visit that ended before one it leads to was met inside its own group.
OpenInGroup ==
  \A c \in Finished : \A d \in Open :
    <<c, d>> \in Reachable => \E e \in Open : <<c, e>> \in Mutual

AllStarted ==
  \A c \in 1..next - 1 : c \in visited \/ \E k \in 1..Len(stack) : stack[k][1] = c

Visits ==
  /\ VisitTypes /\ VisitedOnce /\ ReachesAbove /\ FinishedFeeds /\ OpenFeeds
  /\ OpenInGroup /\ AllStarted

\* What the pass is for: the groups a group leads to finish before its last member.
LateInGroup ==
  \A i \in 1..Len(order) : \A c :
    <<c, order[i]>> \in Reachable =>
      \E d : <<c, d>> \in Mutual /\ \A j \in 1..i - 1 : order[j] # d

FinishInv ==
  /\ order \in Seq(Components)
  /\ pass = "build" => next = 1 /\ visited = {} /\ order = <<>> /\ stack = <<>>
  /\ pass = "finish" => Visits
  /\ pass \in {"finish", "assign"} => LateInGroup
  /\ pass = "assign" => Finished = Components

LEMMA LateStays ==
  ASSUME UNCHANGED <<given, order>>, LateInGroup
  PROVE  LateInGroup'
<1>1. SUFFICES ASSUME NEW i \in 1..Len(order'), NEW c, <<c, order'[i]>> \in Reachable'
               PROVE  \E d : <<c, d>> \in Mutual' /\ \A j \in 1..i - 1 : order'[j] # d
  BY DEF LateInGroup
<1>2. order' = order /\ Reachable' = Reachable /\ Mutual' = Mutual
  BY GraphStays
<1>3. PICK d : <<c, d>> \in Mutual /\ \A j \in 1..i - 1 : order[j] # d
  BY <1>1, <1>2 DEF LateInGroup
<1>4. QED
  BY <1>2, <1>3

LEMMA VisitTop ==
  ASSUME Visits, stack # <<>>
  PROVE  /\ Len(stack) \in Nat \ {0}
         /\ \A k \in 1..Len(stack) : stack[k][1] \in Components /\ stack[k][2] \in BOOLEAN
         /\ Top(stack) = stack[Len(stack)]
         /\ Rest(stack) \in Seq(Components \X BOOLEAN)
         /\ Len(Rest(stack)) = Len(stack) - 1
         /\ \A k \in 1..Len(stack) - 1 : Rest(stack)[k] = stack[k]
<1>1. stack \in Seq(Components \X BOOLEAN)
  BY DEF Visits, VisitTypes
<1>2. \A k \in 1..Len(stack) : stack[k] \in Components \X BOOLEAN
  BY <1>1
<1>3. QED
  BY <1>1, <1>2, RestOf DEF Top

\* The visit of the component on top of the stack ends.
LEMMA VisitEnds ==
  ASSUME Graph, order \in Seq(Components), Visits, LateInGroup,
         stack # <<>>, Top(stack)[2],
         order' = Append(order, Top(stack)[1]), stack' = Rest(stack),
         UNCHANGED <<given, visited, next>>
  PROVE  order' \in Seq(Components) /\ Visits' /\ LateInGroup'
<1>1. PICK n \in Nat \ {0} : n = Len(stack)
  BY VisitTop
<1>2. PICK node \in Components : node = Top(stack)[1]
  BY VisitTop
<1>3. PICK m \in Nat : m = Len(order)
  OBVIOUS
<1>4. /\ stack' \in Seq(Components \X BOOLEAN) /\ Len(stack') = n - 1
      /\ \A k \in 1..n - 1 : stack'[k] = stack[k]
      /\ stack[n][1] = node /\ stack[n][2]
      /\ n \in Begun /\ node \in Open
  BY <1>1, <1>2, VisitTop DEF Begun, Open
<1>5. /\ order' \in Seq(Components) /\ Len(order') = m + 1
      /\ \A i \in 1..m : order'[i] = order[i]
      /\ order'[m + 1] = node
  BY <1>2, <1>3
<1>6. Finished' = Finished \cup {node}
  BY <1>3, <1>5 DEF Finished
<1>7. Begun' = Begun \ {n}
  <2>1. \A k : k \in 1..n - 1 <=> k \in 1..n /\ k # n
    OBVIOUS
  <2>2. Begun' = {k \in 1..n - 1 : stack'[k][2]}
    BY <1>4 DEF Begun
  <2>3. QED
    BY <1>1, <1>4, <2>1, <2>2 DEF Begun
<1>8. \A k \in Begun' : k \in 1..n - 1 /\ k \in Begun /\ stack'[k] = stack[k] /\ k # n
  BY <1>1, <1>4, <1>7 DEF Begun
<1>9. /\ visited = Finished \cup Open /\ Finished \cap Open = {}
      /\ \A k, l \in Begun : stack[k][1] = stack[l][1] => k = l
  BY DEF Visits, VisitedOnce
<1>10. Open' = Open \ {node}
  <2>1. Open' = {stack'[k][1] : k \in Begun'}
    BY DEF Open
  <2>2. \A k \in Begun' : stack'[k][1] \in Open /\ stack'[k][1] # node
    BY <1>4, <1>8, <1>9 DEF Open
  <2>3. \A d \in Open \ {node} : \E k \in Begun' : d = stack'[k][1]
    BY <1>4, <1>7, <1>8 DEF Open
  <2>4. QED
    BY <2>1, <2>2, <2>3
<1>11. Reachable' = Reachable /\ Mutual' = Mutual /\ Edges /\ adjacency' = adjacency
  BY GraphStays, GraphEdges DEF given
<1>12. VisitTypes'
  BY <1>4 DEF Visits, VisitTypes
<1>13. VisitedOnce'
  <2>1. visited' = Finished' \cup Open' /\ Finished' \cap Open' = {}
    BY <1>4, <1>6, <1>9, <1>10
  <2>2. ASSUME NEW k \in Begun', NEW l \in Begun', stack'[k][1] = stack'[l][1]
        PROVE  k = l
    BY <2>2, <1>8, <1>9
  <2>3. QED
    BY <2>1, <2>2 DEF VisitedOnce
<1>14. ReachesAbove'
  <2>1. ASSUME NEW k \in Begun', NEW l \in k + 1..n - 1
        PROVE  <<stack'[k][1], stack'[l][1]>> \in Reachable
    <3>1. k \in 1..n - 1 /\ k \in Begun /\ stack'[k] = stack[k]
      BY <1>8
    <3>2. l \in 1..n - 1 /\ l \in k + 1..n
      BY <2>1, <3>1, <1>1
    <3>3. QED
      BY <3>1, <3>2, <1>1, <1>4 DEF Visits, ReachesAbove
  <2>2. QED
    BY <1>4, <1>11, <2>1 DEF ReachesAbove
<1>15. FinishedFeeds'
  <2>1. adjacency[node] \subseteq visited
    <3>1. n + 1..n = {}
      BY <1>1
    <3>2. QED
      BY <3>1, <1>1, <1>4 DEF Visits, OpenFeeds
  <2>2. QED
    BY <2>1, <1>6, <1>11 DEF Visits, FinishedFeeds
<1>16. OpenFeeds'
  <2>1. ASSUME NEW k \in Begun', NEW d \in adjacency[stack'[k][1]], d \notin visited
        PROVE  \E l \in k + 1..n - 1 : stack'[l][1] = d /\ ~stack'[l][2]
    <3>1. k \in 1..n - 1 /\ k \in Begun /\ stack'[k] = stack[k]
      BY <1>8
    <3>2. PICK l \in k + 1..n : stack[l][1] = d /\ ~stack[l][2]
      BY <2>1, <3>1, <1>1 DEF Visits, OpenFeeds
    <3>3. l # n
      BY <3>2, <1>4
    <3>4. l \in k + 1..n - 1 /\ l \in 1..n - 1
      BY <3>1, <3>2, <3>3
    <3>5. QED
      BY <3>2, <3>4, <1>4
  <2>2. QED
    BY <1>4, <1>11, <2>1 DEF OpenFeeds
<1>17. OpenInGroup'
  <2>1. ASSUME NEW c \in Finished', NEW d \in Open', <<c, d>> \in Reachable
        PROVE  \E e \in Open' : <<c, e>> \in Mutual
    <3>1. <<d, node>> \in Reachable
      <4>1. PICK k \in Begun' : d = stack'[k][1]
        BY DEF Open
      <4>2. k \in Begun /\ n \in k + 1..n /\ stack'[k] = stack[k]
        BY <4>1, <1>8, <1>1
      <4>3. QED
        BY <4>1, <4>2, <1>1, <1>4 DEF Visits, ReachesAbove
    <3>2. CASE c = node
      BY <2>1, <3>1, <3>2, MutualBoth
    <3>3. CASE c # node
      <4>1. c \in Finished /\ d \in Open
        BY <3>3, <1>6, <1>10
      <4>2. PICK e \in Open : <<c, e>> \in Mutual
        BY <2>1, <4>1 DEF Visits, OpenInGroup
      <4>3. CASE e # node
        BY <4>2, <4>3, <1>10
      <4>4. CASE e = node
        <5>1. <<d, c>> \in Reachable
          BY <3>1, <4>2, <4>4, MutualBoth, ReachableThrough
        <5>2. QED
          BY <2>1, <5>1, MutualBoth
      <4>5. QED
        BY <4>3, <4>4
    <3>4. QED
      BY <3>2, <3>3
  <2>2. QED
    BY <1>11, <2>1 DEF OpenInGroup
<1>18. AllStarted'
  <2>1. ASSUME NEW c \in 1..next - 1, c \notin visited
        PROVE  \E k \in 1..n - 1 : stack'[k][1] = c
    <3>1. PICK k \in 1..n : stack[k][1] = c
      BY <2>1, <1>1 DEF Visits, AllStarted
    <3>2. k # n
      BY <2>1, <3>1, <1>4, <1>9
    <3>3. k \in 1..n - 1
      BY <3>1, <3>2
    <3>4. QED
      BY <3>1, <3>3, <1>4
  <2>2. QED
    BY <1>4, <2>1 DEF AllStarted
<1>19. LateInGroup'
  <2>1. ASSUME NEW i \in 1..m + 1, NEW c, <<c, order'[i]>> \in Reachable
        PROVE  \E d : <<c, d>> \in Mutual /\ \A j \in 1..i - 1 : order'[j] # d
    <3>1. \A j \in 1..i - 1 : j \in 1..m /\ order'[j] = order[j]
      BY <1>3, <1>5
    <3>2. CASE i # m + 1
      <4>1. i \in 1..m /\ order'[i] = order[i]
        BY <3>2, <1>3, <1>5
      <4>2. PICK d : <<c, d>> \in Mutual /\ \A j \in 1..i - 1 : order[j] # d
        BY <2>1, <4>1, <1>3 DEF LateInGroup
      <4>3. \A j \in 1..i - 1 : order'[j] # d
        BY <3>1, <4>2
      <4>4. QED
        BY <4>2, <4>3
    <3>3. CASE i = m + 1
      <4>1. c \in Components /\ <<c, node>> \in Reachable
        BY <2>1, <3>3, <1>5 DEF Reachable
      <4>2. \A j \in 1..i - 1 : order'[j] \in Finished
        BY <3>1, <1>3 DEF Finished
      <4>3. CASE c \notin Finished
        <5>1. <<c, c>> \in Mutual
          BY <4>1, ReachableSelf
        <5>2. \A j \in 1..i - 1 : order'[j] # c
          BY <4>2, <4>3
        <5>3. QED
          BY <5>1, <5>2
      <4>4. CASE c \in Finished
        <5>1. PICK e \in Open : <<c, e>> \in Mutual
          BY <4>1, <4>4, <1>4 DEF Visits, OpenInGroup
        <5>2. \A j \in 1..i - 1 : order'[j] # e
          BY <4>2, <1>9
        <5>3. QED
          BY <5>1, <5>2
      <4>5. QED
        BY <4>3, <4>4
    <3>4. QED
      BY <3>2, <3>3
  <2>2. SUFFICES ASSUME NEW i \in 1..Len(order'), NEW c, <<c, order'[i]>> \in Reachable'
                 PROVE  \E d : <<c, d>> \in Mutual' /\ \A j \in 1..i - 1 : order'[j] # d
    BY DEF LateInGroup
  <2>3. i \in 1..m + 1 /\ <<c, order'[i]>> \in Reachable
    BY <1>5, <1>11, <2>2
  <2>4. QED
    BY <1>11, <2>1, <2>3
<1>20. QED
  BY <1>5, <1>12, <1>13, <1>14, <1>15, <1>16, <1>17, <1>18, <1>19 DEF Visits


\* A component that was met again is dropped.
LEMMA VisitDrops ==
  ASSUME Graph, order \in Seq(Components), Visits, LateInGroup,
         stack # <<>>, ~Top(stack)[2], Top(stack)[1] \in visited,
         stack' = Rest(stack),
         UNCHANGED <<given, visited, next, order>>
  PROVE  order' \in Seq(Components) /\ Visits' /\ LateInGroup'
<1>1. PICK n \in Nat \ {0} : n = Len(stack)
  BY VisitTop
<1>2. /\ stack' \in Seq(Components \X BOOLEAN) /\ Len(stack') = n - 1
      /\ \A k \in 1..n - 1 : stack'[k] = stack[k]
      /\ stack[n][1] \in visited /\ ~stack[n][2]
  BY <1>1, VisitTop
<1>3. \A k : k \in 1..n - 1 <=> k \in 1..n /\ k # n
  OBVIOUS
<1>4. Begun' = Begun
  <2>1. Begun' = {k \in 1..n - 1 : stack'[k][2]}
    BY <1>2 DEF Begun
  <2>2. QED
    BY <1>1, <1>2, <1>3, <2>1 DEF Begun
<1>5. \A k \in Begun : k \in 1..n - 1 /\ stack'[k] = stack[k]
  BY <1>1, <1>2, <1>3 DEF Begun
<1>6. Open' = Open
  BY <1>4, <1>5 DEF Open
<1>7. Finished' = Finished /\ order' = order
  BY DEF Finished
<1>8. Reachable' = Reachable /\ Mutual' = Mutual /\ adjacency' = adjacency
  BY GraphStays DEF given
<1>9. VisitTypes'
  BY <1>2 DEF Visits, VisitTypes
<1>10. VisitedOnce'
  BY <1>4, <1>5, <1>6, <1>7 DEF Visits, VisitedOnce
<1>11. ReachesAbove'
  <2>1. ASSUME NEW k \in Begun, NEW l \in k + 1..n - 1
        PROVE  <<stack'[k][1], stack'[l][1]>> \in Reachable
    <3>1. l \in 1..n - 1 /\ l \in k + 1..n
      BY <2>1, <1>5, <1>1
    <3>2. QED
      BY <3>1, <1>1, <1>2, <1>5 DEF Visits, ReachesAbove
  <2>2. QED
    BY <1>2, <1>4, <1>8, <2>1 DEF ReachesAbove
<1>12. FinishedFeeds'
  BY <1>7, <1>8 DEF Visits, FinishedFeeds
<1>13. OpenFeeds'
  <2>1. ASSUME NEW k \in Begun, NEW d \in adjacency[stack'[k][1]], d \notin visited
        PROVE  \E l \in k + 1..n - 1 : stack'[l][1] = d /\ ~stack'[l][2]
    <3>1. k \in 1..n - 1 /\ stack'[k] = stack[k]
      BY <1>5
    <3>2. PICK l \in k + 1..n : stack[l][1] = d /\ ~stack[l][2]
      BY <2>1, <3>1, <1>1 DEF Visits, OpenFeeds
    <3>3. l # n
      BY <2>1, <3>2, <1>2
    <3>4. l \in k + 1..n - 1 /\ l \in 1..n - 1
      BY <3>1, <3>2, <3>3
    <3>5. QED
      BY <3>2, <3>4, <1>2
  <2>2. QED
    BY <1>2, <1>4, <1>8, <2>1 DEF OpenFeeds
<1>14. OpenInGroup'
  BY <1>6, <1>7, <1>8 DEF Visits, OpenInGroup
<1>15. AllStarted'
  <2>1. ASSUME NEW c \in 1..next - 1, c \notin visited
        PROVE  \E k \in 1..n - 1 : stack'[k][1] = c
    <3>1. PICK k \in 1..n : stack[k][1] = c
      BY <2>1, <1>1 DEF Visits, AllStarted
    <3>2. k \in 1..n - 1
      BY <2>1, <3>1, <1>2, <1>3
    <3>3. QED
      BY <3>1, <3>2, <1>2
  <2>2. QED
    BY <1>2, <2>1 DEF AllStarted
<1>16. LateInGroup'
  BY LateStays
<1>17. QED
  BY <1>7, <1>9, <1>10, <1>11, <1>12, <1>13, <1>14, <1>15, <1>16 DEF Visits


\* A visit begins: what the component feeds is put on the stack above it.
Begin(node, more) ==
  /\ stack # <<>> /\ ~Top(stack)[2] /\ Top(stack)[1] = node /\ node \notin visited
  /\ more = Descending(adjacency[node] \ (visited \cup {node}))
  /\ visited' = visited \cup {node}
  /\ stack' = Append(Rest(stack), <<node, TRUE>>)
                 \o [i \in DOMAIN more |-> <<more[i], FALSE>>]

\* A component that is entered has the components it feeds above it on the stack.
LEMMA VisitBegins ==
  ASSUME Graph, order \in Seq(Components), Visits, LateInGroup,
         NEW node, NEW more, Begin(node, more), UNCHANGED <<given, next, order>>
  PROVE  order' \in Seq(Components) /\ Visits' /\ LateInGroup'
<1> DEFINE E == Components \X BOOLEAN
<1>1. PICK n \in Nat \ {0} : n = Len(stack)
  BY VisitTop DEF Begin
<1>2. node \in Components
  BY VisitTop DEF Begin
<1>3. /\ stack[n][1] = node /\ ~stack[n][2]
      /\ node \notin visited /\ visited' = visited \cup {node}
  BY <1>1, VisitTop DEF Begin
<1>4. Reachable' = Reachable /\ Mutual' = Mutual /\ adjacency' = adjacency /\ Edges
  BY GraphStays, GraphEdges DEF given
<1> DEFINE new == adjacency[node] \ (visited \cup {node})
<1>5. new \in SUBSET Components
  BY <1>2, <1>4 DEF Edges
<1>6. more = Descending(new)
  BY DEF Begin
<1> HIDE DEF new, E
<1>7. more \in Seq(new) /\ new = {more[i] : i \in 1..Len(more)}
  <2>1. /\ Descending(new) \in Seq(new)
        /\ new = {Descending(new)[i] : i \in 1..Len(Descending(new))}
    BY <1>5, DescendingOf
  <2>2. QED
    BY <1>6, <2>1
<1>8. PICK r \in Nat : r = Len(more)
  BY <1>7
<1>9. DOMAIN more = 1..r /\ new = {more[i] : i \in 1..r} /\ \A i \in 1..r : more[i] \in new
  BY <1>7, <1>8
<1>10. /\ stack' \in Seq(E) /\ Len(stack') = n + r
       /\ \A k \in 1..n - 1 : stack'[k] = stack[k]
       /\ stack'[n][1] = node /\ stack'[n][2]
       /\ \A i \in 1..r : stack'[n + i][1] = more[i] /\ ~stack'[n + i][2]
  <2> DEFINE p == Append(Rest(stack), <<node, TRUE>>)
             q == [i \in 1..r |-> <<more[i], FALSE>>]
  <2>1. /\ Rest(stack) \in Seq(E) /\ Len(Rest(stack)) = n - 1
        /\ \A k \in 1..n - 1 : Rest(stack)[k] = stack[k]
    BY <1>1, VisitTop DEF Begin, E
  <2>2. <<node, TRUE>> \in E
    BY <1>2 DEF E
  <2>3. n - 1 + 1 = n
    BY <1>1
  <2>4. /\ p \in Seq(E) /\ Len(p) = n /\ p[n] = <<node, TRUE>>
        /\ \A k \in 1..n - 1 : p[k] = stack[k]
    <3>1. PICK t : t = Rest(stack)
      OBVIOUS
    <3>2. PICK e : e = <<node, TRUE>>
      OBVIOUS
    <3>3. t \in Seq(E) /\ e \in E
      BY <2>1, <2>2, <3>1, <3>2
    <3>4. /\ Append(t, e) \in Seq(E) /\ Len(Append(t, e)) = Len(t) + 1
          /\ Append(t, e)[Len(t) + 1] = e
          /\ \A k \in 1..Len(t) : Append(t, e)[k] = t[k]
      BY <3>3, AppendProperties
    <3>5. p = Append(t, e)
      BY <3>1, <3>2
    <3> HIDE DEF p
    <3>6. QED
      BY <2>1, <2>3, <3>1, <3>2, <3>4, <3>5
  <2>5. \A i \in 1..r : <<more[i], FALSE>> \in E
    BY <1>5, <1>9 DEF E
  <2>6. q \in Seq(E) /\ Len(q) = r
    <3>1. q \in [1..r -> E]
      BY <2>5
    <3> HIDE DEF q
    <3>2. QED
      BY <1>8, <3>1
  <2>7. stack' = p \o q
    BY <1>9 DEF Begin
  <2>8. p[n][1] = node /\ p[n][2]
    BY <2>4
  <2>9. \A i \in 1..r : q[i][1] = more[i] /\ ~q[i][2]
    OBVIOUS
  <2> HIDE DEF p, q
  <2>10. /\ p \o q \in Seq(E) /\ Len(p \o q) = n + r
         /\ \A k \in 1..n + r : (p \o q)[k] = IF k <= n THEN p[k] ELSE q[k - n]
    BY <2>4, <2>6, ConcatProperties
  <2>11. \A k \in 1..n : k \in 1..n + r /\ k <= n
    BY <1>1, <1>8
  <2>12. \A i \in 1..r : n + i \in 1..n + r /\ ~(n + i <= n) /\ n + i - n = i
    BY <1>1, <1>8
  <2>13. n \in 1..n /\ \A k \in 1..n - 1 : k \in 1..n
    BY <1>1
  <2>14. /\ stack' \in Seq(E) /\ Len(stack') = n + r
         /\ \A k \in 1..n : stack'[k] = p[k]
         /\ \A i \in 1..r : stack'[n + i] = q[i]
    <3>1. PICK s : s = p \o q
      OBVIOUS
    <3>2. \A k \in 1..n : s[k] = p[k]
      BY <2>10, <2>11, <3>1
    <3>3. ASSUME NEW i \in 1..r
          PROVE  s[n + i] = q[i]
      <4>1. PICK k \in 1..n + r : k = n + i /\ ~(k <= n) /\ k - n = i
        BY <2>12
      <4>2. s[k] = q[k - n]
        BY <2>10, <3>1, <4>1
      <4>3. QED
        BY <4>1, <4>2
    <3>4. s \in Seq(E) /\ Len(s) = n + r
      BY <2>10, <3>1
    <3>5. s = stack'
      BY <2>7, <3>1
    <3>6. QED
      BY <3>2, <3>3, <3>4, <3>5
  <2>15. \A i \in 1..r : stack'[n + i][1] = more[i] /\ ~stack'[n + i][2]
    BY <2>9, <2>14
  <2>16. stack'[n][1] = node /\ stack'[n][2]
    BY <2>8, <2>13, <2>14
  <2>17. \A k \in 1..n - 1 : stack'[k] = stack[k]
    BY <2>4, <2>13, <2>14
  <2>18. QED
    BY <2>14, <2>15, <2>16, <2>17
<1>11. \A k \in 1..n + r : k \notin 1..n =>
          k - n \in 1..r /\ stack'[k][1] = more[k - n] /\ ~stack'[k][2]
  <2>1. \A k \in 1..n + r : k \notin 1..n => k - n \in 1..r /\ n + (k - n) = k
    BY <1>1, <1>8
  <2>2. ASSUME NEW i \in 1..r, NEW k, n + i = k
        PROVE  stack'[k][1] = more[i] /\ ~stack'[k][2]
    BY <1>10, <2>2
  <2>3. QED
    BY <2>1, <2>2
<1>12. \A k \in Begun : k \in 1..n - 1 /\ stack'[k] = stack[k]
  <2>1. \A k \in 1..n : k # n => k \in 1..n - 1
    BY <1>1
  <2>2. QED
    BY <1>1, <1>3, <1>10, <2>1 DEF Begun
<1>13. Begun' = Begun \cup {n}
  <2>1. Begun' = {k \in 1..n + r : stack'[k][2]}
    BY <1>10 DEF Begun
  <2>2. n \in 1..n + r /\ \A k \in 1..n - 1 : k \in 1..n + r /\ k \in 1..n
    BY <1>1, <1>8
  <2>3. \A k \in Begun : k \in Begun'
    BY <1>12, <2>1, <2>2 DEF Begun
  <2>4. n \in Begun'
    BY <1>10, <2>1, <2>2
  <2>5. \A k \in Begun' : k = n \/ k \in Begun
    <3>1. SUFFICES ASSUME NEW k \in Begun', k # n
                   PROVE  k \in Begun
      OBVIOUS
    <3>2. k \in 1..n
      BY <1>11, <2>1, <3>1
    <3>3. k \in 1..n - 1
      BY <1>1, <3>1, <3>2
    <3>4. QED
      BY <1>1, <1>10, <2>1, <3>2, <3>3 DEF Begun
  <2>6. QED
    BY <2>3, <2>4, <2>5
<1>14. Open' = Open \cup {node}
  <2>1. Open' = {stack'[k][1] : k \in Begun \cup {n}}
    BY <1>13 DEF Open
  <2>2. stack'[n][1] = node
    BY <1>10
  <2>3. \A k \in Begun : stack'[k][1] = stack[k][1]
    BY <1>12
  <2>4. Open' = {stack'[k][1] : k \in Begun} \cup {node}
    BY <2>1, <2>2
  <2>5. Open = {stack'[k][1] : k \in Begun}
    BY <2>3 DEF Open
  <2>6. QED
    BY <2>4, <2>5
<1>15. Finished' = Finished /\ order' = order /\ next' = next
  BY DEF Finished
<1>16. /\ visited = Finished \cup Open /\ Finished \cap Open = {}
       /\ \A k, l \in Begun : stack[k][1] = stack[l][1] => k = l
  BY DEF Visits, VisitedOnce
<1>17. VisitTypes'
  BY <1>10, <1>15 DEF Visits, VisitTypes, E
<1>18. VisitedOnce'
  <2>1. visited' = Finished' \cup Open' /\ Finished' \cap Open' = {}
    BY <1>3, <1>14, <1>15, <1>16
  <2>2. \A k \in Begun : stack'[k][1] # node
    BY <1>3, <1>12, <1>16 DEF Open
  <2>3. ASSUME NEW k \in Begun', NEW l \in Begun', stack'[k][1] = stack'[l][1]
        PROVE  k = l
    BY <2>2, <2>3, <1>10, <1>12, <1>13, <1>16
  <2>4. QED
    BY <2>1, <2>3 DEF VisitedOnce
<1>19. ReachesAbove'
  <2>1. \A i \in 1..r : <<node, more[i]>> \in Reachable
    BY <1>2, <1>4, <1>9, ReachableEdge DEF new
  <2>2. ASSUME NEW k \in Begun', NEW l \in k + 1..n + r
        PROVE  <<stack'[k][1], stack'[l][1]>> \in Reachable
    <3>1. CASE k = n
      <4>1. l \in 1..n + r /\ l \notin 1..n
        BY <2>2, <3>1, <1>1, <1>8
      <4>2. QED
        BY <2>1, <3>1, <4>1, <1>10, <1>11
    <3>2. CASE k # n
      <4>1. k \in Begun /\ k \in 1..n - 1 /\ stack'[k] = stack[k]
        BY <3>2, <1>12, <1>13
      <4>2. n \in k + 1..n /\ l \in 1..n + r
        BY <2>2, <4>1, <1>1, <1>8
      <4>3. <<stack[k][1], node>> \in Reachable
        BY <4>1, <4>2, <1>1, <1>3 DEF Visits, ReachesAbove
      <4>4. CASE l \in 1..n - 1
        <5>1. l \in k + 1..n
          BY <2>2, <4>1, <4>4, <1>1
        <5>2. QED
          BY <4>1, <4>4, <5>1, <1>1, <1>10 DEF Visits, ReachesAbove
      <4>5. CASE l = n
        BY <4>1, <4>3, <4>5, <1>10
      <4>6. CASE l \notin 1..n
        <5>1. stack'[l][1] = more[l - n] /\ l - n \in 1..r
          BY <4>2, <4>6, <1>11
        <5>2. QED
          BY <2>1, <4>1, <4>3, <5>1, ReachableThrough
      <4>7. l \in 1..n => l \in 1..n - 1 \/ l = n
        BY <1>1
      <4>8. QED
        BY <4>4, <4>5, <4>6, <4>7
    <3>3. QED
      BY <3>1, <3>2
  <2>3. Len(stack') = n + r
    BY <1>10
  <2>4. QED
    BY <1>4, <2>2, <2>3 DEF ReachesAbove
<1>20. FinishedFeeds'
  BY <1>3, <1>4, <1>15 DEF Visits, FinishedFeeds
<1>21. OpenFeeds'
  <2>1. ASSUME NEW k \in Begun', NEW d \in adjacency[stack'[k][1]], d \notin visited'
        PROVE  \E l \in k + 1..n + r : stack'[l][1] = d /\ ~stack'[l][2]
    <3>1. CASE k = n
      <4>1. d \in new
        BY <2>1, <3>1, <1>3, <1>10 DEF new
      <4>2. PICK i \in 1..r : more[i] = d
        BY <4>1, <1>9
      <4>3. n + i \in n + 1..n + r
        BY <1>1, <1>8
      <4>4. stack'[n + i][1] = d /\ ~stack'[n + i][2]
        BY <4>2, <1>10
      <4>5. QED
        BY <3>1, <4>3, <4>4
    <3>2. CASE k # n
      <4>1. k \in Begun /\ k \in 1..n - 1 /\ stack'[k] = stack[k]
        BY <3>2, <1>12, <1>13
      <4>2. PICK l \in k + 1..n : stack[l][1] = d /\ ~stack[l][2]
        BY <2>1, <4>1, <1>1, <1>3 DEF Visits, OpenFeeds
      <4>3. l # n
        BY <2>1, <4>2, <1>3
      <4>4. l \in 1..n - 1 /\ l \in k + 1..n + r
        BY <4>1, <4>2, <4>3, <1>1, <1>8
      <4>5. QED
        BY <4>2, <4>4, <1>10
    <3>3. QED
      BY <3>1, <3>2
  <2>2. Len(stack') = n + r
    BY <1>10
  <2>3. QED
    BY <1>4, <2>1, <2>2 DEF OpenFeeds
<1>22. OpenInGroup'
  <2>1. ASSUME NEW c \in Finished, NEW d \in Open', <<c, d>> \in Reachable
        PROVE  \E e \in Open' : <<c, e>> \in Mutual
    <3>1. CASE \E o \in Open : <<c, o>> \in Reachable
      BY <2>1, <3>1, <1>14 DEF Visits, OpenInGroup
    <3>2. CASE \A o \in Open : ~ (<<c, o>> \in Reachable)
      <4> DEFINE S == {x \in Finished : <<c, x>> \in Reachable}
      <4>1. Finished \subseteq Components
        BY DEF Finished
      <4>2. ASSUME NEW x \in S, NEW y \in adjacency[x]
            PROVE  y \in S
        <5>1. y \in Finished \cup Open
          BY <1>16 DEF Visits, FinishedFeeds
        <5>2. <<c, y>> \in Reachable
          BY <1>4, <4>1, ReachableEdge, ReachableThrough
        <5>3. QED
          BY <3>2, <5>1, <5>2
      <4>3. c \in S /\ S \in SUBSET Components
        BY <4>1, ReachableSelf
      <4> HIDE DEF S
      <4>4. d \in S
        BY <2>1, <4>2, <4>3, ReachableWithin
      <4>5. d \in Finished
        BY <4>4 DEF S
      <4>6. QED
        BY <2>1, <3>2, <4>5, <1>3, <1>14, <1>16
    <3>3. QED
      BY <3>1, <3>2
  <2>2. QED
    BY <1>4, <1>15, <2>1 DEF OpenInGroup
<1>23. AllStarted'
  <2>1. ASSUME NEW c \in 1..next - 1, c \notin visited'
        PROVE  \E k \in 1..n + r : stack'[k][1] = c
    <3>1. PICK k \in 1..n : stack[k][1] = c
      BY <2>1, <1>1, <1>3 DEF Visits, AllStarted
    <3>2. k # n
      BY <2>1, <3>1, <1>3
    <3>3. k \in 1..n - 1 /\ k \in 1..n + r
      BY <3>1, <3>2, <1>1, <1>8
    <3>4. QED
      BY <3>1, <3>3, <1>10
  <2>2. Len(stack') = n + r
    BY <1>10
  <2>3. QED
    BY <1>15, <2>1, <2>2 DEF AllStarted
<1>24. LateInGroup'
  BY LateStays
<1>25. QED
  BY <1>15, <1>17, <1>18, <1>19, <1>20, <1>21, <1>22, <1>23, <1>24 DEF Visits


\* The next component is taken up.
LEMMA VisitStarts ==
  ASSUME Graph, order \in Seq(Components), Visits, LateInGroup, StartVisit
  PROVE  order' \in Seq(Components) /\ Visits' /\ LateInGroup'
<1>1. /\ stack = <<>> /\ next' = next + 1 /\ order' = order /\ visited' = visited
      /\ UNCHANGED given /\ next \in 1..Count
      /\ stack' = IF next \in visited THEN <<>> ELSE <<<<next, FALSE>>>>
  BY CycleSearchAssumption DEF StartVisit, graph, Visits, VisitTypes
<1>2. /\ Begun = {} /\ Begun' = {}
      /\ stack' \in Seq(Components \X BOOLEAN)
  <2>1. Begun = {}
    BY <1>1 DEF Begun
  <2>2. PICK e \in Components \X BOOLEAN : e = <<next, FALSE>> /\ ~e[2]
    <3>1. next \in Components
      BY <1>1 DEF Components
    <3>2. <<next, FALSE>> \in Components \X BOOLEAN /\ ~ <<next, FALSE>>[2]
      BY <3>1
    <3>3. QED
      BY <3>2
  <2>3. stack' = <<>> \/ stack' = <<e>>
    BY <1>1, <2>2
  <2>4. CASE stack' = <<>>
    BY <2>1, <2>4 DEF Begun
  <2>5. CASE stack' = <<e>>
    <3>1. Len(stack') = 1 /\ stack'[1] = e /\ stack' \in Seq(Components \X BOOLEAN)
      BY <2>5
    <3>2. 1..1 = {1}
      OBVIOUS
    <3>3. Begun' = {}
      BY <2>2, <3>1, <3>2 DEF Begun
    <3>4. QED
      BY <2>1, <3>1, <3>3
  <2>6. QED
    BY <2>3, <2>4, <2>5
<1>3. Open = {} /\ Open' = {} /\ Finished' = Finished
  BY <1>1, <1>2 DEF Open, Finished
<1>4. VisitTypes'
  <2>1. next + 1 \in 1..Count + 1
    BY <1>1, CycleSearchAssumption
  <2>2. QED
    BY <1>1, <1>2, <2>1 DEF VisitTypes
<1>5. VisitedOnce' /\ ReachesAbove' /\ OpenFeeds' /\ OpenInGroup'
  BY <1>1, <1>2, <1>3 DEF Visits, VisitedOnce, ReachesAbove, OpenFeeds, OpenInGroup
<1>6. FinishedFeeds'
  BY <1>1, <1>3 DEF Visits, FinishedFeeds, given
<1>7. AllStarted'
  <2>1. ASSUME NEW c \in 1..next, c \notin visited
        PROVE  \E k \in 1..Len(stack') : stack'[k][1] = c
    <3>1. c = next
      <4>1. SUFFICES ASSUME c # next PROVE FALSE
        OBVIOUS
      <4>2. c \in 1..next - 1
        BY <1>1, <4>1
      <4>3. \E k \in 1..Len(stack) : stack[k][1] = c
        BY <2>1, <4>2 DEF Visits, AllStarted
      <4>4. QED
        BY <1>1, <4>3
    <3>2. QED
      BY <1>1, <2>1, <3>1
  <2>2. next' - 1 = next
    BY <1>1, CycleSearchAssumption
  <2>3. QED
    BY <1>1, <2>1, <2>2 DEF AllStarted
<1>8. LateInGroup'
  BY <1>1, LateStays
<1>9. QED
  BY <1>1, <1>4, <1>5, <1>6, <1>7, <1>8 DEF Visits

\* Every step of a visit keeps what the first pass promises.
LEMMA VisitStep ==
  ASSUME Graph, order \in Seq(Components), Visits, LateInGroup, Visit
  PROVE  order' \in Seq(Components) /\ Visits' /\ LateInGroup'
<1> DEFINE node == Top(stack)[1]
           more == Descending(adjacency[node] \ (visited \cup {node}))
<1>1. stack # <<>> /\ UNCHANGED <<given, next>>
  BY DEF Visit
<1>2. CASE /\ Top(stack)[2]
           /\ order' = Append(order, node) /\ stack' = Rest(stack) /\ UNCHANGED visited
  BY <1>1, <1>2, VisitEnds
<1>3. CASE /\ ~Top(stack)[2] /\ node \in visited
           /\ stack' = Rest(stack) /\ UNCHANGED <<visited, order>>
  BY <1>1, <1>3, VisitDrops
<1>4. CASE /\ ~Top(stack)[2] /\ node \notin visited /\ UNCHANGED order
           /\ visited' = visited \cup {node}
           /\ stack' = Append(Rest(stack), <<node, TRUE>>)
                         \o [i \in DOMAIN more |-> <<more[i], FALSE>>]
  <2>1. Begin(node, more)
    BY <1>1, <1>4 DEF Begin
  <2>2. QED
    BY <1>1, <1>4, <2>1, VisitBegins
<1>5. QED
  BY <1>2, <1>3, <1>4 DEF Visit

\* When no visit is left, every component was visited.
LEMMA AllFinish ==
  ASSUME order \in Seq(Components), Visits, EndFinish
  PROVE  Finished = Components
<1>1. stack = <<>> /\ next \in 1..Count + 1 /\ next > Count
  BY DEF EndFinish, Visits, VisitTypes
<1>2. next - 1 = Count
  BY <1>1, CycleSearchAssumption
<1>3. Open = {}
  BY <1>1 DEF Begun, Open
<1>4. Components \subseteq visited
  BY <1>1, <1>2 DEF Visits, AllStarted, Components
<1>5. Finished \subseteq Components
  BY DEF Finished
<1>6. QED
  BY <1>3, <1>4, <1>5 DEF Visits, VisitedOnce

\* The first pass orders the components so that the second can collect groups.
LEMMA Finishing == Spec => []FinishInv
<1>1. Init => FinishInv
  BY DEF Init, FinishInv
<1>2. PassOrder /\ FinishInv /\ [Next]_vars => FinishInv'
  <2> SUFFICES ASSUME PassOrder, FinishInv, [Next]_vars
               PROVE  FinishInv'
    OBVIOUS
  <2>1. pass # "build" => Graph
    BY DEF PassOrder
  <2>2. CASE BuildGraph
    <3>1. /\ next' = 1 /\ visited' = {} /\ order' = <<>> /\ stack' = <<>>
          /\ pass' = "finish"
      BY <2>2 DEF BuildGraph, FinishInv, graph
    <3>2. Begun' = {} /\ Open' = {} /\ Finished' = {}
      BY <3>1 DEF Begun, Open, Finished
    <3>3. VisitTypes' /\ AllStarted'
      BY <3>1, CycleSearchAssumption DEF VisitTypes, AllStarted
    <3>4. Visits'
      BY <3>1, <3>2, <3>3
      DEF Visits, VisitedOnce, ReachesAbove, FinishedFeeds, OpenFeeds, OpenInGroup
    <3>5. LateInGroup'
      BY <3>1 DEF LateInGroup
    <3>6. QED
      BY <3>1, <3>4, <3>5 DEF FinishInv
  <2>3. CASE StartVisit
    <3>1. order' \in Seq(Components) /\ Visits' /\ LateInGroup' /\ pass' = "finish"
      BY <2>1, <2>3, VisitStarts DEF StartVisit, FinishInv
    <3>2. QED
      BY <3>1 DEF FinishInv
  <2>4. CASE Visit
    <3>1. order' \in Seq(Components) /\ Visits' /\ LateInGroup' /\ pass' = "finish"
      BY <2>1, <2>4, VisitStep DEF Visit, FinishInv
    <3>2. QED
      BY <3>1 DEF FinishInv
  <2>5. CASE EndFinish
    <3>1. Visits /\ LateInGroup /\ order \in Seq(Components)
      BY <2>5 DEF EndFinish, FinishInv
    <3>2. UNCHANGED <<given, order>> /\ pass' = "assign"
      BY <2>5 DEF EndFinish, graph
    <3>3. LateInGroup' /\ Finished' = Components
      BY <2>5, <3>1, <3>2, LateStays, AllFinish DEF Finished
    <3>4. QED
      BY <3>1, <3>2, <3>3 DEF FinishInv
  <2>6. CASE StartGroup \/ Collect
    <3>1. /\ LateInGroup /\ order \in Seq(Components) /\ Finished = Components
          /\ UNCHANGED <<given, order>> /\ pass' = "assign"
      BY <2>6 DEF StartGroup, Collect, FinishInv
    <3>2. LateInGroup' /\ Finished' = Components
      BY <3>1, LateStays DEF Finished
    <3>3. QED
      BY <3>1, <3>2 DEF FinishInv
  <2>7. CASE EndAssign \/ NextGroup \/ StartLane \/ FinishLane \/ FollowInput \/ EndGroup
             \/ EndRefine
    <3>1. order' = order /\ pass' \in {"refine", "lanes", "done"}
      BY <2>7 DEF EndAssign, NextGroup, StartLane, FinishLane, FollowInput, EndGroup,
                  EndRefine, graph
    <3>2. QED
      BY <3>1 DEF FinishInv
  <2>8. CASE UNCHANGED vars
    <3>1. /\ UNCHANGED <<given, order>> /\ UNCHANGED <<pass, next, visited, stack>>
      BY <2>8 DEF vars, graph
    <3>2. LateInGroup => LateInGroup'
      BY <3>1, LateStays
    <3>3. Begun' = Begun /\ Open' = Open /\ Finished' = Finished
      BY <3>1 DEF Begun, Open, Finished
    <3>4. Reachable' = Reachable /\ Mutual' = Mutual /\ adjacency' = adjacency
      BY <3>1, GraphStays DEF given
    <3>5. Visits => Visits'
      <4>1. Visits => VisitTypes' /\ AllStarted'
        BY <3>1 DEF Visits, VisitTypes, AllStarted
      <4>2. Visits => VisitedOnce' /\ FinishedFeeds'
        BY <3>1, <3>3, <3>4 DEF Visits, VisitedOnce, FinishedFeeds
      <4>3. Visits => ReachesAbove'
        BY <3>1, <3>3, <3>4 DEF Visits, ReachesAbove
      <4>4. Visits => OpenFeeds'
        BY <3>1, <3>3, <3>4 DEF Visits, OpenFeeds
      <4>5. Visits => OpenInGroup'
        BY <3>1, <3>3, <3>4 DEF Visits, OpenInGroup
      <4>6. QED
        BY <4>1, <4>2, <4>3, <4>4, <4>5 DEF Visits
    <3>6. QED
      BY <3>1, <3>2, <3>3, <3>5 DEF FinishInv
  <2>9. QED
    BY <2>2, <2>3, <2>4, <2>5, <2>6, <2>7, <2>8 DEF Next
<1>3. QED
  BY <1>1, <1>2, Passes, PTL DEF Spec


-----------------------------------------------------------------------------
(***************************************************************************)
(* The second pass.                                                        *)
(***************************************************************************)
Settled == UNION groups
Stacked == {stack[k] : k \in 1..Len(stack)}
Current == members \cup Stacked
Root    == order[next + 1]

AssignTypes ==
  /\ stack \in Seq(Components) /\ members \subseteq Components
  /\ next \in 0..Len(order)

AssignedOnce == assigned = Settled \cup Current /\ Settled \cap Current = {}

\* A group is collected after all that feeds it.
SettledFirst ==
  /\ groups \subseteq Groups
  /\ \A c \in Settled : \A d \in Components : c \in adjacency[d] => d \in Settled

MembersFed ==
  /\ \A c \in members : \A d \in Components : c \in adjacency[d] => d \in assigned
  /\ stack = <<>> => members = {}

LaterAssigned == \A i \in next + 1..Len(order) : order[i] \in assigned

\* Only components of the group of the first are collected with it.
OneGroup ==
  stack # <<>> =>
    /\ next < Len(order) /\ Root \in Current
    /\ \A i \in next + 2..Len(order) : order[i] \in Settled
    /\ \A c \in Current : <<c, Root>> \in Mutual

Assigns ==
  /\ AssignTypes /\ AssignedOnce /\ SettledFirst /\ MembersFed /\ LaterAssigned
  /\ OneGroup

AssignInv ==
  /\ pass \in {"build", "finish"} => assigned = {} /\ members = {} /\ groups = {}
  /\ pass = "assign" => Assigns
  /\ pass \in {"refine", "lanes", "done"} => groups = Groups

\* The latest to finish that is in no group yet opens one of its own.
LEMMA AssignStarts ==
  ASSUME Graph, order \in Seq(Components), Assigns, StartGroup
  PROVE  Assigns'
<1>1. /\ stack = <<>> /\ next \in 1..Len(order) /\ next' = next - 1
      /\ stack' = IF order[next] \in assigned THEN <<>> ELSE <<order[next]>>
      /\ assigned' = assigned \cup {order[next]}
      /\ UNCHANGED <<given, order, members, groups>>
  BY DEF StartGroup, Assigns, AssignTypes
<1>2. PICK c \in Components : c = order[next]
  BY <1>1
<1>3. PICK m \in Nat : m = Len(order)
  OBVIOUS
<1>4. /\ Reachable' = Reachable /\ Mutual' = Mutual /\ Groups' = Groups
      /\ adjacency' = adjacency /\ Settled' = Settled
  BY <1>1, GraphStays DEF given, Settled
<1>5. members = {} /\ Current = {} /\ assigned = Settled
  BY <1>1 DEF Assigns, MembersFed, AssignedOnce, Current, Stacked
<1>6. /\ next' \in 0..m /\ next' + 1 = next /\ next' < m
      /\ \A i : i \in next' + 1..m => i = next \/ i \in next + 1..m
      /\ \A i : i \in next' + 2..m => i \in next + 1..m
  BY <1>1, <1>3
<1>7. \A i \in next + 1..m : order[i] \in Settled
  BY <1>3, <1>5 DEF Assigns, LaterAssigned
<1>8. Root' = c
  BY <1>1, <1>2, <1>6 DEF Root
<1>9. CASE c \in assigned
  <2>1. stack' = <<>> /\ assigned' = assigned
    BY <1>1, <1>2, <1>9
  <2>2. Current' = {}
    BY <1>1, <1>5, <2>1 DEF Current, Stacked
  <2>3. AssignTypes' /\ AssignedOnce'
    BY <1>1, <1>3, <1>4, <1>5, <1>6, <2>1, <2>2 DEF AssignTypes, AssignedOnce
  <2>4. SettledFirst' /\ MembersFed'
    BY <1>1, <1>4, <1>5, <2>1 DEF Assigns, SettledFirst, MembersFed
  <2>5. LaterAssigned'
    BY <1>1, <1>2, <1>3, <1>5, <1>6, <1>7, <1>9, <2>1 DEF LaterAssigned
  <2>6. OneGroup'
    BY <2>1 DEF OneGroup
  <2>7. QED
    BY <2>3, <2>4, <2>5, <2>6 DEF Assigns
<1>10. CASE c \notin assigned
  <2>1. stack' = <<c>> /\ assigned' = assigned \cup {c}
    BY <1>1, <1>2, <1>10
  <2>2. Current' = {c} /\ stack' \in Seq(Components)
    <3>1. Len(stack') = 1 /\ stack'[1] = c /\ stack' \in Seq(Components)
      BY <2>1
    <3>2. 1..1 = {1}
      OBVIOUS
    <3>3. Stacked' = {c}
      BY <3>1, <3>2 DEF Stacked
    <3>4. QED
      BY <1>1, <1>5, <3>1, <3>3 DEF Current
  <2>3. AssignTypes'
    BY <1>1, <1>3, <1>5, <1>6, <2>2 DEF AssignTypes
  <2>4. AssignedOnce'
    BY <1>4, <1>5, <1>10, <2>1, <2>2 DEF AssignedOnce
  <2>5. SettledFirst' /\ MembersFed'
    BY <1>1, <1>4, <1>5 DEF Assigns, SettledFirst, MembersFed
  <2>6. LaterAssigned'
    BY <1>1, <1>2, <1>3, <1>5, <1>6, <1>7, <2>1 DEF LaterAssigned
  <2>7. OneGroup'
    BY <1>1, <1>3, <1>4, <1>6, <1>7, <1>8, <2>2, ReachableSelf DEF OneGroup
  <2>8. QED
    BY <2>3, <2>4, <2>5, <2>6, <2>7 DEF Assigns
<1>11. QED
  BY <1>9, <1>10

\* What feeds the group of Root and is not settled belongs to it: it would have
\* finished later.
LEMMA FeederBelongs ==
  ASSUME Graph, order \in Seq(Components), Assigns, LateInGroup, Finished = Components,
         stack # <<>>, NEW c \in Current, NEW d \in Components, c \in adjacency[d],
         d \notin Settled
  PROVE  <<d, Root>> \in Mutual
<1>1. PICK m \in Nat : m = Len(order)
  OBVIOUS
<1>2. /\ next \in Nat /\ next < m /\ next + 1 \in 1..m /\ Root = order[next + 1]
      /\ next + 1 - 1 = next
  BY <1>1 DEF Assigns, AssignTypes, OneGroup, Root
<1>3. <<d, Root>> \in Reachable
  <2>1. <<c, Root>> \in Reachable
    BY MutualBoth DEF Assigns, OneGroup
  <2>2. <<d, c>> \in Reachable
    BY GraphEdges, ReachableEdge
  <2>3. QED
    BY <2>1, <2>2, ReachableThrough
<1>4. PICK e : <<d, e>> \in Mutual /\ \A j \in 1..next : order[j] # e
  <2>1. PICK p \in 1..m : p = next + 1 /\ p - 1 = next
    BY <1>2
  <2>2. <<d, order[p]>> \in Reachable
    BY <1>2, <1>3, <2>1
  <2>3. \E e : <<d, e>> \in Mutual /\ \A j \in 1..p - 1 : order[j] # e
    BY <1>1, <2>2 DEF LateInGroup
  <2>4. QED
    BY <2>1, <2>3
<1>5. PICK j \in 1..m : order[j] = e
  BY <1>1, <1>4 DEF Finished, Mutual
<1>6. j = next + 1 \/ j \in next + 2..m
  BY <1>1, <1>2, <1>4, <1>5
<1>7. CASE j = next + 1
  BY <1>2, <1>4, <1>5, <1>7
<1>8. CASE j \in next + 2..m
  <2>1. e \in Settled
    BY <1>1, <1>5, <1>8 DEF Assigns, OneGroup
  <2>2. Settled \in SUBSET Components
    BY DEF Assigns, SettledFirst, Settled, Groups, Together
  <2>3. <<d, e>> \in Reachable
    BY <1>4, MutualBoth
  <2>4. d \in Settled
    BY <2>1, <2>2, <2>3, GraphEdges, ReachableFromWithin DEF Assigns, SettledFirst
  <2>5. QED
    BY <2>4
<1>9. QED
  BY <1>6, <1>7, <1>8


\* Every step that collects a group keeps what the second pass promises.
LEMMA AssignStep ==
  ASSUME Graph, order \in Seq(Components), Assigns, LateInGroup, Finished = Components,
         Collect
  PROVE  Assigns'
<1> DEFINE top == Top(stack)
           new == Reverse(top) \ assigned
           all == members \cup {top}
<1>1. /\ stack # <<>>
      /\ assigned' = assigned \cup new
      /\ stack' = Rest(stack) \o Descending(new)
      /\ stack' = <<>> => members' = {} /\ groups' = groups \cup {all}
      /\ stack' # <<>> => members' = all /\ groups' = groups
      /\ UNCHANGED <<given, next, order>>
  BY DEF Collect
<1>2. stack \in Seq(Components)
  BY DEF Assigns, AssignTypes
<1>3. PICK n \in Nat \ {0} : n = Len(stack)
  BY <1>1, <1>2, RestOf
<1>4. /\ top \in Components /\ top = stack[n]
      /\ Rest(stack) \in Seq(Components) /\ Len(Rest(stack)) = n - 1
      /\ \A k \in 1..n - 1 : Rest(stack)[k] = stack[k]
  BY <1>1, <1>2, <1>3, RestOf DEF Top
<1>5. new \in SUBSET Components /\ \A d \in new : top \in adjacency[d] /\ d \notin assigned
  BY DEF Reverse
<1>6. \A d \in Components : top \in adjacency[d] => d \in assigned \cup new
  BY DEF Reverse
<1> HIDE DEF new
<1>7. PICK more : more = Descending(new)
  OBVIOUS
<1>8. /\ more \in Seq(new) /\ more \in Seq(Components)
      /\ new = {more[i] : i \in 1..Len(more)}
      /\ more = <<>> <=> new = {}
  <2>1. /\ Descending(new) \in Seq(new)
        /\ new = {Descending(new)[i] : i \in 1..Len(Descending(new))}
        /\ Descending(new) = <<>> <=> new = {}
    BY <1>5, DescendingOf
  <2>2. /\ more \in Seq(new)
        /\ new = {more[i] : i \in 1..Len(more)}
        /\ more = <<>> <=> new = {}
    BY <1>7, <2>1
  <2>3. more \in Seq(Components)
    BY <1>5, <2>2
  <2>4. QED
    BY <2>2, <2>3
<1>9. /\ stack' \in Seq(Components)
      /\ Stacked' = {stack[k] : k \in 1..n - 1} \cup new
      /\ stack' = <<>> => n = 1 /\ new = {}
  <2>1. PICK r \in Nat : r = Len(more)
    BY <1>8
  <2>2. PICK t \in Seq(Components) : t = Rest(stack)
    BY <1>4
  <2>3. /\ t \o more \in Seq(Components) /\ Len(t \o more) = Len(t) + Len(more)
        /\ \A k \in 1..Len(t) + Len(more) :
             (t \o more)[k] = IF k <= Len(t) THEN t[k] ELSE more[k - Len(t)]
    BY <1>8, ConcatProperties
  <2>4. stack' = t \o more
    BY <1>1, <1>7, <2>2
  <2>5. Len(t) = n - 1 /\ \A k \in 1..n - 1 : t[k] = stack[k]
    BY <1>4, <2>2
  <2>6. /\ stack' \in Seq(Components) /\ Len(stack') = n - 1 + r
        /\ \A k \in 1..n - 1 + r : stack'[k] = IF k <= n - 1 THEN t[k] ELSE more[k - (n - 1)]
    BY <2>1, <2>3, <2>4, <2>5
  <2>7. \A k \in 1..n - 1 : k \in 1..n - 1 + r /\ k <= n - 1
    BY <1>3, <2>1
  <2>8. \A i \in 1..r : /\ n - 1 + i \in 1..n - 1 + r /\ ~(n - 1 + i <= n - 1)
                        /\ n - 1 + i - (n - 1) = i
    BY <1>3, <2>1
  <2>9. \A k \in 1..n - 1 + r : k \in 1..n - 1 \/ (~(k <= n - 1) /\ k - (n - 1) \in 1..r)
    BY <1>3, <2>1
  <2>10. \A k \in 1..n - 1 : stack'[k] = stack[k] /\ k \in 1..n - 1 + r
    BY <2>5, <2>6, <2>7
  <2>11. \A i \in 1..r : stack'[n - 1 + i] = more[i] /\ n - 1 + i \in 1..n - 1 + r
    <3>1. SUFFICES ASSUME NEW i \in 1..r
                   PROVE  stack'[n - 1 + i] = more[i] /\ n - 1 + i \in 1..n - 1 + r
      OBVIOUS
    <3>2. PICK k \in 1..n - 1 + r : k = n - 1 + i /\ ~(k <= n - 1) /\ k - (n - 1) = i
      BY <2>8
    <3>3. stack'[k] = more[i]
      BY <2>6, <3>2
    <3>4. QED
      BY <3>2, <3>3
  <2>12. new = {more[i] : i \in 1..r}
    BY <1>8, <2>1
  <2>13. Stacked' = {stack'[k] : k \in 1..n - 1 + r}
    BY <2>6 DEF Stacked
  <2>14. \A k \in 1..n - 1 + r : stack'[k] \in {stack[l] : l \in 1..n - 1} \cup new
    <3>1. SUFFICES ASSUME NEW k \in 1..n - 1 + r
                   PROVE  stack'[k] \in {stack[l] : l \in 1..n - 1} \cup new
      OBVIOUS
    <3>2. CASE k \in 1..n - 1
      BY <2>10, <3>2
    <3>3. CASE ~(k <= n - 1) /\ k - (n - 1) \in 1..r
      BY <2>6, <2>12, <3>3
    <3>4. QED
      BY <2>9, <3>2, <3>3
  <2>15. Stacked' = {stack[k] : k \in 1..n - 1} \cup new
    <3>1. Stacked' \subseteq {stack[k] : k \in 1..n - 1} \cup new
      BY <2>13, <2>14
    <3>2. {stack[k] : k \in 1..n - 1} \subseteq Stacked'
      BY <2>10, <2>13
    <3>3. new \subseteq Stacked'
      BY <2>11, <2>12, <2>13
    <3>4. QED
      BY <3>1, <3>2, <3>3
  <2>16. ASSUME stack' = <<>>
         PROVE  n = 1 /\ new = {}
    <3>1. n - 1 + r = 0
      BY <2>6, <2>16
    <3>2. n = 1 /\ r = 0
      BY <1>3, <2>1, <3>1
    <3>3. QED
      BY <2>12, <3>2
  <2>17. QED
    BY <2>6, <2>15, <2>16
<1>10. Stacked = {stack[k] : k \in 1..n - 1} \cup {top}
  <2>1. \A k : k \in 1..n <=> k \in 1..n - 1 \/ k = n
    BY <1>3
  <2>2. QED
    BY <1>3, <1>4, <2>1 DEF Stacked
<1>11. /\ Reachable' = Reachable /\ Mutual' = Mutual /\ Groups' = Groups
       /\ adjacency' = adjacency
  BY <1>1, GraphStays DEF given
<1>12. /\ assigned = Settled \cup Current /\ Settled \cap Current = {}
       /\ members \subseteq Components /\ next \in 0..Len(order)
       /\ next < Len(order) /\ Root \in Current
       /\ \A i \in next + 2..Len(order) : order[i] \in Settled
       /\ \A c \in Current : <<c, Root>> \in Mutual
  BY <1>1 DEF Assigns, AssignTypes, AssignedOnce, OneGroup
<1>13. Root' = Root
  BY <1>1 DEF Root
<1>14. top \in Current /\ Current = all \cup {stack[k] : k \in 1..n - 1}
  BY <1>10 DEF Current
<1>15. \A d \in new : <<d, Root>> \in Mutual
  BY <1>1, <1>5, <1>12, <1>14, FeederBelongs
<1>16. \A c \in all : \A d \in Components : c \in adjacency[d] => d \in assigned \cup new
  BY <1>6 DEF Assigns, MembersFed
<1>17. LaterAssigned'
  BY <1>1 DEF Assigns, LaterAssigned
<1> HIDE DEF top
<1>18. CASE stack' # <<>>
  <2>1. members' = all /\ groups' = groups /\ Settled' = Settled
    BY <1>1, <1>18 DEF Settled
  <2>2. Current' = Current \cup new
    BY <1>9, <1>14, <2>1 DEF Current
  <2>3. AssignTypes'
    BY <1>1, <1>4, <1>9, <1>12, <2>1 DEF AssignTypes
  <2>4. AssignedOnce'
    BY <1>1, <1>5, <1>12, <2>1, <2>2 DEF AssignedOnce
  <2>5. SettledFirst'
    BY <1>11, <2>1 DEF Assigns, SettledFirst
  <2>6. MembersFed'
    BY <1>1, <1>11, <1>16, <1>18, <2>1 DEF MembersFed
  <2>7. OneGroup'
    BY <1>1, <1>11, <1>12, <1>13, <1>15, <2>1, <2>2 DEF OneGroup
  <2>8. QED
    BY <1>17, <2>3, <2>4, <2>5, <2>6, <2>7 DEF Assigns
<1>19. CASE stack' = <<>>
  <2>1. members' = {} /\ groups' = groups \cup {all} /\ n = 1 /\ new = {} /\ Stacked' = {}
    BY <1>1, <1>9, <1>19 DEF Stacked
  <2>2. Current = all /\ Current' = {} /\ assigned' = assigned
    <3>1. 1..n - 1 = {}
      BY <2>1
    <3>2. QED
      BY <1>1, <1>14, <2>1, <3>1 DEF Current
  <2>3. Settled' = Settled \cup all
    BY <2>1 DEF Settled
  <2>4. Settled' = assigned
    BY <1>12, <2>2, <2>3
  <2>5. \A c \in assigned : \A d \in Components : c \in adjacency[d] => d \in assigned
    <3>1. SUFFICES ASSUME NEW c \in assigned, NEW d \in Components, c \in adjacency[d]
                   PROVE  d \in assigned
      OBVIOUS
    <3>2. CASE c \in Settled
      BY <1>12, <3>1, <3>2 DEF Assigns, SettledFirst
    <3>3. CASE c \in all
      BY <1>16, <2>1, <3>1, <3>3
    <3>4. QED
      BY <1>12, <2>2, <3>2, <3>3
  <2>6. Settled \subseteq Components /\ assigned \in SUBSET Components
    <3>1. Settled \subseteq Components
      BY DEF Assigns, SettledFirst, Settled, Groups, Together
    <3>2. QED
      BY <1>4, <1>12, <2>2, <3>1
  <2>7. all = Together(Root) /\ Root \in Components
    <3>1. Root \in Components
      BY <1>12, <2>2, <2>6
    <3>2. ASSUME NEW d \in all
          PROVE  d \in Together(Root)
      <4>1. <<d, Root>> \in Mutual
        BY <1>12, <2>2
      <4>2. QED
        BY <3>1, <4>1, MutualBoth, TogetherIs
    <3>3. ASSUME NEW d \in Together(Root)
          PROVE  d \in all
      <4>1. <<Root, d>> \in Reachable /\ <<d, Root>> \in Reachable
        BY <3>1, MutualBoth, TogetherIs
      <4>2. Root \in assigned
        BY <1>12
      <4>3. d \in assigned
        BY <2>5, <2>6, <4>1, <4>2, GraphEdges, ReachableFromWithin
      <4>4. CASE d \in Settled
        <5>1. Root \in Settled
          BY <2>6, <4>1, <4>4, GraphEdges, ReachableFromWithin DEF Assigns, SettledFirst
        <5>2. QED
          BY <1>12, <5>1
      <4>5. QED
        BY <1>12, <2>2, <4>3, <4>4
    <3>4. QED
      BY <3>1, <3>2, <3>3
  <2>8. AssignTypes' /\ AssignedOnce'
    BY <1>1, <1>9, <1>12, <2>1, <2>2, <2>4 DEF AssignTypes, AssignedOnce
  <2>9. SettledFirst'
    BY <1>11, <2>1, <2>4, <2>5, <2>7 DEF Assigns, SettledFirst, Groups
  <2>10. MembersFed' /\ OneGroup'
    BY <1>19, <2>1 DEF MembersFed, OneGroup
  <2>11. QED
    BY <1>17, <2>8, <2>9, <2>10 DEF Assigns
<1>20. QED
  BY <1>18, <1>19


\* When every component was taken up, every group is collected.
LEMMA AllCollected ==
  ASSUME Graph, order \in Seq(Components), Assigns, Finished = Components, EndAssign
  PROVE  groups = Groups
<1>1. stack = <<>> /\ next = 0
  BY DEF EndAssign
<1>2. assigned = Settled
  BY <1>1 DEF Assigns, MembersFed, AssignedOnce, Current, Stacked
<1>3. Components \subseteq Settled
  BY <1>1, <1>2 DEF Assigns, LaterAssigned, Finished
<1>4. ASSUME NEW c \in Components
      PROVE  Together(c) \in groups
  <2>1. PICK g \in groups : c \in g
    BY <1>3 DEF Settled
  <2>2. PICK r \in Components : g = Together(r)
    BY <2>1 DEF Assigns, SettledFirst, Groups
  <2>3. Together(c) = g
    BY <2>1, <2>2, TogetherIs
  <2>4. QED
    BY <2>1, <2>3
<1>5. QED
  BY <1>4 DEF Assigns, SettledFirst, Groups

\* The second pass collects the components that reach one another.
LEMMA Assigning == Spec => []AssignInv
<1>1. Init => AssignInv
  BY DEF Init, AssignInv
<1>2. PassOrder /\ FinishInv /\ AssignInv /\ [Next]_vars => AssignInv'
  <2> SUFFICES ASSUME PassOrder, FinishInv, AssignInv, [Next]_vars
               PROVE  AssignInv'
    OBVIOUS
  <2>1. order \in Seq(Components)
    BY DEF FinishInv
  <2>2. pass = "assign" => Graph /\ LateInGroup /\ Finished = Components /\ Assigns
    BY DEF PassOrder, FinishInv, AssignInv
  <2>3. CASE BuildGraph \/ StartVisit \/ Visit
    BY <2>3 DEF AssignInv, BuildGraph, StartVisit, Visit, graph
  <2>4. CASE EndFinish
    <3>1. /\ stack' = <<>> /\ next' = Len(order) /\ order' = order /\ pass' = "assign"
          /\ assigned' = {} /\ members' = {} /\ groups' = {}
      BY <2>4 DEF EndFinish, AssignInv, graph
    <3>2. Settled' = {} /\ Current' = {}
      BY <3>1 DEF Settled, Current, Stacked
    <3>3. AssignTypes'
      BY <2>1, <3>1 DEF AssignTypes
    <3>4. LaterAssigned'
      <4>1. PICK m \in Nat : m = Len(order)
        BY <2>1
      <4>2. m + 1..m = {}
        OBVIOUS
      <4>3. QED
        BY <3>1, <4>1, <4>2 DEF LaterAssigned
    <3>5. Assigns'
      BY <3>1, <3>2, <3>3, <3>4
      DEF Assigns, AssignedOnce, SettledFirst, MembersFed, OneGroup
    <3>6. QED
      BY <3>1, <3>5 DEF AssignInv
  <2>5. CASE StartGroup
    <3>1. pass = "assign" /\ pass' = "assign"
      BY <2>5 DEF StartGroup
    <3>2. Assigns'
      BY <2>1, <2>2, <2>5, <3>1, AssignStarts
    <3>3. QED
      BY <3>1, <3>2 DEF AssignInv
  <2>6. CASE Collect
    <3>1. pass = "assign" /\ pass' = "assign"
      BY <2>6 DEF Collect
    <3>2. Assigns'
      BY <2>1, <2>2, <2>6, <3>1, AssignStep
    <3>3. QED
      BY <3>1, <3>2 DEF AssignInv
  <2>7. CASE EndAssign
    <3>1. groups = Groups
      BY <2>1, <2>2, <2>7, AllCollected DEF EndAssign
    <3>2. groups' = groups /\ Groups' = Groups /\ pass' = "refine"
      BY <2>7, GraphStays DEF EndAssign
    <3>3. QED
      BY <3>1, <3>2 DEF AssignInv
  <2>8. CASE NextGroup \/ StartLane \/ FinishLane \/ FollowInput \/ EndGroup \/ EndRefine
    <3>1. /\ UNCHANGED <<given, groups>> /\ pass \in {"refine", "lanes"}
          /\ pass' \in {"refine", "lanes", "done"}
      BY <2>8 DEF NextGroup, StartLane, FinishLane, FollowInput, EndGroup, EndRefine
    <3>2. groups' = groups /\ Groups' = Groups
      BY <3>1, GraphStays
    <3>3. QED
      BY <3>1, <3>2 DEF AssignInv
  <2>9. CASE UNCHANGED vars
    <3>1. UNCHANGED <<given, pass, groups, stack, next, order, members, assigned>>
      BY <2>9 DEF vars, graph
    <3>2. /\ Mutual' = Mutual /\ Groups' = Groups /\ adjacency' = adjacency
          /\ Settled' = Settled /\ Current' = Current /\ Root' = Root
      BY <3>1, GraphStays DEF given, Settled, Current, Stacked, Root
    <3>3. Assigns => Assigns'
      <4>1. Assigns => AssignTypes' /\ AssignedOnce' /\ LaterAssigned'
        BY <3>1, <3>2 DEF Assigns, AssignTypes, AssignedOnce, LaterAssigned
      <4>2. Assigns => SettledFirst' /\ MembersFed'
        BY <3>1, <3>2 DEF Assigns, SettledFirst, MembersFed
      <4>3. Assigns => OneGroup'
        BY <3>1, <3>2 DEF Assigns, OneGroup
      <4>4. QED
        BY <4>1, <4>2, <4>3 DEF Assigns
    <3>4. QED
      BY <3>1, <3>2, <3>3 DEF AssignInv
  <2>10. QED
    BY <2>3, <2>4, <2>5, <2>6, <2>7, <2>8, <2>9 DEF Next
<1>3. QED
  BY <1>1, <1>2, Passes, Finishing, PTL DEF Spec


-----------------------------------------------------------------------------
(***************************************************************************)
(* The lanes.                                                              *)
(***************************************************************************)
Lanes == LanesOf(Components)

\* Lane t[3] drives input t[2] of lane t[1].
Fed ==
  {t \in Lanes \X Nat \X Lanes :
     t[2] \in DOMAIN circuit.ins[t[1][1]] /\ t[3] \in Producers(t[1], t[2])}

Cycles ==
  {S \in SUBSET Lanes : S # {} /\ \A x \in S : \E y \in S : \E i \in Nat : <<x, i, y>> \in Fed}

Cyclic == {g \in SUBSET Components : \E S \in Cycles : S \subseteq LanesOf(g)}

LEMMA CircuitTypes ==
  ASSUME circuit \in Circuits, NEW c \in Components
  PROVE  /\ circuit.width[c] \in Nat \ {0}
         /\ circuit.out[c].net \in Nets /\ circuit.out[c].start \in Nat
         /\ circuit.ins[c] \in Seq(Pin) /\ Len(circuit.ins[c]) \in Nat
         /\ DOMAIN circuit.ins[c] = 1..Len(circuit.ins[c])
         /\ \A i \in DOMAIN circuit.ins[c] :
              circuit.ins[c][i].net \in Nets /\ circuit.ins[c][i].start \in Nat
<1>1. circuit \in Circuit
  BY CycleSearchAssumption
<1>2. /\ circuit.width \in [Components -> Nat \ {0}]
      /\ circuit.out \in [Components -> Pin]
      /\ circuit.ins \in [Components -> Seq(Pin)]
  BY <1>1 DEF Circuit
<1>3. circuit.out[c] \in Pin /\ circuit.ins[c] \in Seq(Pin)
  BY <1>2
<1>4. \A i \in DOMAIN circuit.ins[c] : circuit.ins[c][i] \in Pin
  BY <1>3
<1>5. Len(circuit.ins[c]) \in Nat /\ DOMAIN circuit.ins[c] = 1..Len(circuit.ins[c])
  BY <1>3
<1>6. QED
  BY <1>2, <1>3, <1>4, <1>5 DEF Pin

LEMMA LaneIs ==
  ASSUME NEW S, NEW x
  PROVE  x \in LanesOf(S) <=>
           /\ x = <<x[1], x[2]>>
           /\ x[1] \in S /\ x[2] \in 0..circuit.width[x[1]] - 1
BY DEF LanesOf

\* A lane that drives an input is one, and its component feeds the input's.
LEMMA ProducerFeeds ==
  ASSUME circuit \in Circuits, Graph, NEW x \in Lanes,
         NEW i \in DOMAIN circuit.ins[x[1]], NEW y \in Producers(x, i)
  PROVE  y \in Lanes /\ x[1] \in adjacency[y[1]]
<1>1. PICK c \in Components : c = x[1]
  BY LaneIs DEF Lanes
<1>2. PICK k \in Nat : k = x[2] /\ k < circuit.width[c]
  BY <1>1, LaneIs, CircuitTypes DEF Lanes
<1>3. PICK pin : pin = circuit.ins[c][i]
  OBVIOUS
<1>4. PICK bit \in Nat : bit = pin.start + k
  BY <1>1, <1>2, <1>3, CircuitTypes
<1>5. PICK d \in drivers[pin.net] : /\ Covers(circuit.out[d], d, bit)
                                    /\ y = <<d, bit - circuit.out[d].start>>
  BY <1>1, <1>2, <1>3, <1>4 DEF Producers
<1>6. pin.net \in Nets /\ pin.start \in Nat
  BY <1>1, <1>3, CircuitTypes
<1>7. d \in Components /\ circuit.out[d].net = pin.net
  BY <1>5, <1>6 DEF Graph, DriversByNet
<1>8. /\ circuit.width[d] \in Nat \ {0} /\ circuit.width[c] \in Nat \ {0}
      /\ circuit.out[d].start \in Nat
      /\ circuit.out[d].start <= bit /\ bit < circuit.out[d].start + circuit.width[d]
  BY <1>5, <1>7, CircuitTypes DEF Covers
<1>9. bit - circuit.out[d].start \in 0..circuit.width[d] - 1
  BY <1>8, <1>4
<1>10. y \in Lanes
  BY <1>5, <1>7, <1>9, LaneIs DEF Lanes
<1>11. Share(pin, c, circuit.out[d], d)
  BY <1>2, <1>4, <1>6, <1>7, <1>8 DEF Share
<1>12. Feeds(drivers, d, c)
  BY <1>1, <1>3, <1>5, <1>11 DEF Feeds
<1>13. c \in adjacency[d]
  BY <1>7, <1>12 DEF Graph
<1>14. QED
  BY <1>1, <1>5, <1>10, <1>13

\* No two lanes drive one input: their nets would be ambiguous.
LEMMA ProducerOnce ==
  ASSUME circuit \in Circuits, Graph, NEW x \in Lanes,
         NEW i \in DOMAIN circuit.ins[x[1]], NEW y \in Producers(x, i),
         NEW z \in Producers(x, i)
  PROVE  y = z
<1>1. PICK c \in Components : c = x[1]
  BY LaneIs DEF Lanes
<1>2. PICK k \in Nat : k = x[2]
  BY <1>1, LaneIs, CircuitTypes DEF Lanes
<1>3. PICK pin : pin = circuit.ins[c][i]
  OBVIOUS
<1>4. PICK bit \in Nat : bit = pin.start + k
  BY <1>1, <1>2, <1>3, CircuitTypes
<1>5. PICK d \in drivers[pin.net] : /\ Covers(circuit.out[d], d, bit)
                                    /\ y = <<d, bit - circuit.out[d].start>>
  BY <1>1, <1>2, <1>3, <1>4 DEF Producers
<1>6. PICK e \in drivers[pin.net] : /\ Covers(circuit.out[e], e, bit)
                                    /\ z = <<e, bit - circuit.out[e].start>>
  BY <1>1, <1>2, <1>3, <1>4 DEF Producers
<1>7. pin.net \in Nets
  BY <1>1, <1>3, CircuitTypes
<1>8. /\ ~Ambiguous(pin.net)
      /\ d \in Components /\ circuit.out[d].net = pin.net
      /\ e \in Components /\ circuit.out[e].net = pin.net
  BY <1>5, <1>6, <1>7 DEF Graph, DriversByNet
<1>9. CASE d # e
  <2>1. /\ circuit.width[d] \in Nat \ {0} /\ circuit.out[d].start \in Nat
        /\ circuit.width[e] \in Nat \ {0} /\ circuit.out[e].start \in Nat
    BY <1>8, CircuitTypes
  <2>2. Share(circuit.out[d], d, circuit.out[e], e)
    BY <1>4, <1>5, <1>6, <1>8, <2>1 DEF Covers, Share
  <2>3. Ambiguous(pin.net)
    BY <1>8, <1>9, <2>2 DEF Ambiguous
  <2>4. QED
    BY <1>8, <2>3
<1>10. QED
  BY <1>5, <1>6, <1>9

\* An input of a lane follows one driver at most: bits with two are left out.
LEMMA FedOnce ==
  ASSUME circuit \in Circuits, Graph, NEW x, NEW i, NEW y, NEW z,
         <<x, i, y>> \in Fed, <<x, i, z>> \in Fed
  PROVE  y = z
<1>1. /\ x \in Lanes /\ i \in DOMAIN circuit.ins[x[1]]
      /\ y \in Producers(x, i) /\ z \in Producers(x, i)
  BY DEF Fed
<1>2. QED
  BY <1>1, ProducerOnce

LEMMA FedIs ==
  ASSUME circuit \in Circuits, NEW x \in Lanes, NEW i, NEW y \in Lanes
  PROVE  <<x, i, y>> \in Fed <=> i \in DOMAIN circuit.ins[x[1]] /\ y \in Producers(x, i)
<1>1. x[1] \in Components
  BY LaneIs DEF Lanes
<1>2. i \in DOMAIN circuit.ins[x[1]] => i \in Nat
  BY <1>1, CircuitTypes
<1>3. QED
  BY <1>2 DEF Fed

LEMMA CycleIs ==
  ASSUME circuit \in Circuits, NEW S \in SUBSET Lanes
  PROVE  Endless(S) <=> S \in Cycles
<1>1. \A x \in S : \A y \in S :
        DependsOn(x, y) <=> \E i \in Nat : <<x, i, y>> \in Fed
  <2>1. SUFFICES ASSUME NEW x \in S, NEW y \in S
                 PROVE  DependsOn(x, y) <=> \E i \in Nat : <<x, i, y>> \in Fed
    OBVIOUS
  <2>2. \A i : <<x, i, y>> \in Fed <=> i \in DOMAIN circuit.ins[x[1]] /\ y \in Producers(x, i)
    BY FedIs
  <2>3. \A i : <<x, i, y>> \in Fed => i \in Nat
    BY DEF Fed
  <2>4. QED
    BY <2>2, <2>3 DEF DependsOn
<1>2. QED
  BY <1>1 DEF Endless, Cycles

\* The judgement of the model and that of the proof are about the same cycles.
LEMMA CyclicIs ==
  ASSUME circuit \in Circuits, NEW g \in SUBSET Components
  PROVE  HasCycle(g) <=> g \in Cyclic
<1>1. LanesOf(g) \subseteq Lanes
  BY DEF LanesOf, Lanes
<1>2. \A S \in SUBSET LanesOf(g) : Endless(S) <=> S \in Cycles
  BY <1>1, CycleIs
<1>3. QED
  BY <1>2 DEF HasCycle, Cyclic

LEMMA LanesStay ==
  ASSUME UNCHANGED given
  PROVE  Lanes' = Lanes /\ Fed' = Fed /\ Cycles' = Cycles /\ Cyclic' = Cyclic
<1>1. circuit' = circuit /\ drivers' = drivers
  BY DEF given
<1>2. \A S : LanesOf(S)' = LanesOf(S)
  BY <1>1 DEF LanesOf
<1>3. Lanes' = Lanes
  BY <1>1 DEF LanesOf, Lanes
<1>4. \A x, i : Producers(x, i)' = Producers(x, i)
  BY <1>1 DEF Producers, Covers
<1>5. Fed' = Fed
  BY <1>1, <1>3, <1>4 DEF Fed
<1>6. Cycles' = Cycles
  BY <1>3, <1>5 DEF Cycles
<1>7. Cyclic' = Cyclic
  BY <1>2, <1>6 DEF Cyclic
<1>8. QED
  BY <1>3, <1>5, <1>6, <1>7


\* The validator passes over a component that does not feed itself.
LEMMA TrivialIsNone ==
  ASSUME circuit \in Circuits, Graph, NEW g \in SUBSET Components, Trivial(g)
  PROVE  g \notin Cyclic
<1>1. PICK c \in g : g = {c} /\ c \notin adjacency[c]
  BY DEF Trivial
<1>2. SUFFICES ASSUME NEW S \in Cycles, S \subseteq LanesOf(g) PROVE FALSE
  BY DEF Cyclic
<1>3. PICK x \in S : TRUE
  BY DEF Cycles
<1>4. PICK y \in S, i \in Nat : <<x, i, y>> \in Fed
  BY DEF Cycles
<1>5. x[1] = c /\ y[1] = c
  BY <1>1, <1>2, LaneIs
<1>6. x[1] \in adjacency[y[1]]
  BY <1>4, ProducerFeeds DEF Fed
<1>7. QED
  BY <1>1, <1>5, <1>6

\* In a group that is not passed over, every component is fed by one of the group.
LEMMA FedInGroup ==
  ASSUME Graph, NEW r \in Components, ~Trivial(Together(r)), NEW c \in Together(r)
  PROVE  \E d \in Together(r) : c \in adjacency[d]
<1> DEFINE g == Together(r)
<1>1. SUFFICES ASSUME \A d \in g : c \notin adjacency[d] PROVE FALSE
  OBVIOUS
<1>2. \A d : d \in g <=> <<r, d>> \in Reachable /\ <<d, r>> \in Reachable
  BY TogetherIs, MutualBoth
<1>3. g \subseteq Components
  BY DEF Together
<1> HIDE DEF g
<1>4. PICK e \in g : e # c
  BY <1>1 DEF Trivial, g
<1>5. <<e, c>> \in Reachable /\ <<c, e>> \in Reachable
  BY <1>2, ReachableThrough DEF g
<1> DEFINE S == {x \in Components : <<e, x>> \in Reachable /\ x # c}
<1>6. e \in S
  BY <1>3, <1>4, ReachableSelf
<1>7. ASSUME NEW x \in S, NEW y \in adjacency[x]
      PROVE  y \in S
  <2>1. /\ x \in Components /\ y \in Components /\ <<x, y>> \in Reachable
    BY <1>7, GraphEdges, ReachableEdge DEF Edges
  <2>2. <<e, y>> \in Reachable
    BY <2>1, ReachableThrough
  <2>3. CASE y = c
    <3>1. <<r, e>> \in Reachable /\ <<c, r>> \in Reachable
      BY <1>2 DEF g
    <3>2. <<r, x>> \in Reachable
      BY <3>1, ReachableThrough
    <3>3. <<x, r>> \in Reachable
      BY <2>1, <2>3, <3>1, ReachableThrough
    <3>4. x \in g
      BY <1>2, <3>2, <3>3
    <3>5. QED
      BY <1>1, <1>7, <2>3, <3>4
  <2>4. QED
    BY <2>1, <2>2, <2>3
<1>8. S \in SUBSET Components
  OBVIOUS
<1> HIDE DEF S
<1>9. c \in S
  BY <1>5, <1>6, <1>7, <1>8, ReachableWithin
<1>10. QED
  BY <1>9 DEF S

\* Between components of one bit every edge is one of lanes.
LEMMA NarrowIsCyclic ==
  ASSUME circuit \in Circuits, Graph, NEW g \in Groups, ~Trivial(g),
         \A c \in g : circuit.width[c] = 1
  PROVE  g \in Cyclic
<1>1. PICK r \in Components : g = Together(r)
  BY DEF Groups
<1>2. g \subseteq Components /\ r \in g
  BY <1>1, TogetherIs, ReachableSelf DEF Together
<1> DEFINE S == {<<c, 0>> : c \in g}
<1>3. ASSUME NEW c \in g
      PROVE  <<c, 0>> \in LanesOf(g) /\ <<c, 0>> \in Lanes
  BY <1>2, LaneIs DEF Lanes
<1>4. ASSUME NEW c \in g
      PROVE  \E d \in g : \E i \in Nat : <<<<c, 0>>, i, <<d, 0>>>> \in Fed
  <2>1. PICK d \in g : c \in adjacency[d]
    BY <1>1, FedInGroup
  <2>2. c \in Components /\ d \in Components
    BY <1>2
  <2>3. Feeds(drivers, d, c)
    BY <2>1, <2>2 DEF Graph
  <2>4. PICK i \in DOMAIN circuit.ins[c] : /\ d \in drivers[circuit.ins[c][i].net]
                                           /\ Share(circuit.ins[c][i], c, circuit.out[d], d)
    BY <2>3 DEF Feeds
  <2>5. PICK pin : pin = circuit.ins[c][i]
    OBVIOUS
  <2>6. PICK out : out = circuit.out[d]
    OBVIOUS
  <2>7. pin.start \in Nat /\ out.start \in Nat /\ i \in Nat
    BY <2>2, <2>4, <2>5, <2>6, CircuitTypes
  <2>8. circuit.width[c] = 1 /\ circuit.width[d] = 1
    OBVIOUS
  <2>9. pin.start < out.start + 1 /\ out.start < pin.start + 1
    BY <2>4, <2>5, <2>6, <2>8 DEF Share
  <2>10. pin.start = out.start /\ pin.start + 0 = pin.start /\ pin.start - out.start = 0
    BY <2>7, <2>9
  <2>11. Covers(out, d, pin.start)
    BY <2>7, <2>8, <2>10 DEF Covers
  <2>12. <<c, 0>>[1] = c /\ <<c, 0>>[2] = 0
    OBVIOUS
  <2>13. <<d, pin.start - out.start>> \in Producers(<<c, 0>>, i)
    BY <2>4, <2>5, <2>6, <2>10, <2>11, <2>12 DEF Producers
  <2>14. <<d, 0>> \in Producers(<<c, 0>>, i)
    BY <2>10, <2>13
  <2>15. <<<<c, 0>>, i, <<d, 0>>>> \in Fed
    BY <1>3, <2>4, <2>12, <2>14, FedIs
  <2>16. QED
    BY <2>7, <2>15
<1>5. S # {} /\ S \subseteq Lanes /\ S \subseteq LanesOf(g)
  BY <1>2, <1>3
<1>6. \A x \in S : \E y \in S : \E i \in Nat : <<x, i, y>> \in Fed
  BY <1>4
<1> HIDE DEF S
<1>7. S \in Cycles
  BY <1>5, <1>6 DEF Cycles
<1>8. QED
  BY <1>2, <1>5, <1>7 DEF Cyclic

\* The groups are taken up one by one.
LEMMA NextGroupIsOne ==
  ASSUME NEW left \in SUBSET Groups, left # {}
  PROVE  (CHOOSE h \in left : \A k \in left : Smallest(h) <= Smallest(k)) \in left
<1>1. \A g \in left : g # {} /\ g \subseteq Nat
  <2>1. SUFFICES ASSUME NEW g \in left PROVE g # {} /\ g \subseteq Nat
    OBVIOUS
  <2>2. PICK r \in Components : g = Together(r)
    BY DEF Groups
  <2>3. r \in g /\ g \subseteq Components
    BY <2>2, TogetherIs, ReachableSelf DEF Together
  <2>4. QED
    BY <2>3, CycleSearchAssumption DEF Components
<1>2. \A g \in left : Smallest(g) \in Nat
  BY <1>1, SmallestOf
<1> DEFINE T == {Smallest(g) : g \in left}
<1>3. T \subseteq Nat /\ T # {}
  BY <1>2
<1>4. PICK n \in T : \A m \in T : n <= m
  <2> HIDE DEF T
  <2>1. QED
    BY <1>3, Least
<1>5. \E h \in left : \A k \in left : Smallest(h) <= Smallest(k)
  BY <1>4
<1>6. QED
  BY <1>5

LEMMA FirstOf ==
  ASSUME circuit \in Circuits, NEW S \in SUBSET Lanes, S # {}
  PROVE  First(S) \in S
<1>1. \A x \in S : x = <<x[1], x[2]>> /\ x[1] \in Nat /\ x[2] \in Nat
  <2>1. SUFFICES ASSUME NEW x \in S
                 PROVE  x = <<x[1], x[2]>> /\ x[1] \in Nat /\ x[2] \in Nat
    OBVIOUS
  <2>2. x = <<x[1], x[2]>> /\ x[1] \in Components /\ x[2] \in 0..circuit.width[x[1]] - 1
    BY LaneIs DEF Lanes
  <2>3. QED
    BY <2>2, CycleSearchAssumption, CircuitTypes DEF Components
<1> DEFINE T == {x[1] : x \in S}
<1>2. T \subseteq Nat /\ T # {}
  BY <1>1
<1>3. PICK c \in T : \A d \in T : c <= d
  <2> HIDE DEF T
  <2>1. QED
    BY <1>2, Least
<1> DEFINE U == {x[2] : x \in {y \in S : y[1] = c}}
<1>4. U \subseteq Nat /\ U # {}
  BY <1>1, <1>3
<1>5. PICK k \in U : \A l \in U : k <= l
  <2> HIDE DEF U
  <2>1. QED
    BY <1>4, Least
<1>6. PICK x \in S : x[1] = c /\ x[2] = k
  BY <1>5
<1>7. \A y \in S : x[1] < y[1] \/ (x[1] = y[1] /\ x[2] <= y[2])
  <2>1. SUFFICES ASSUME NEW y \in S
                 PROVE  x[1] < y[1] \/ (x[1] = y[1] /\ x[2] <= y[2])
    OBVIOUS
  <2>2. x[1] <= y[1]
    BY <1>3, <1>6
  <2>3. x[1] = y[1] => x[2] <= y[2]
    BY <1>5, <1>6
  <2>4. QED
    BY <1>1, <2>2, <2>3
<1>8. QED
  BY <1>7 DEF First


-----------------------------------------------------------------------------
(***************************************************************************)
(* The third pass.                                                         *)
(***************************************************************************)
Black == {x \in DOMAIN color : color[x] = 2}
Grey  == {x \in DOMAIN color : color[x] = 1}

LaneTypes ==
  /\ group \in refined
  /\ color \in [LanesOf(group) -> 0..2]
  /\ stack \in Seq([lane : LanesOf(group), input : Nat \ {0}])

GreyStacked ==
  /\ Grey = {stack[k].lane : k \in 1..Len(stack)}
  /\ \A k, l \in 1..Len(stack) : stack[k].lane = stack[l].lane => k = l

\* Every lane on the stack is followed from the one below it.
Chained ==
  \A k \in 1..Len(stack) - 1 :
    <<stack[k].lane, stack[k].input - 1, stack[k + 1].lane>> \in Fed

\* An input that was followed is driven by a lane that is done, or by the next on the
\* stack, and every input of a lane that is done was followed.
Followed ==
  \A k \in 1..Len(stack) : \A i \in Nat : \A y \in DOMAIN color :
    <<stack[k].lane, i, y>> \in Fed /\ i < stack[k].input =>
      y \in Black \/ (k + 1 \in 1..Len(stack) /\ y = stack[k + 1].lane)

BlackClosed ==
  \A x \in Black : \A i \in Nat : \A y \in DOMAIN color : <<x, i, y>> \in Fed => y \in Black

BlackAcyclic == \A S \in Cycles : ~(S \subseteq Black)

Traverses ==
  /\ LaneTypes /\ GreyStacked /\ Chained /\ Followed /\ BlackClosed /\ BlackAcyclic

\* The groups that are dealt with.
Judged == refined \ (IF pass = "lanes" THEN {group} ELSE {})

RefineInv ==
  /\ pass \in {"build", "finish", "assign"} => refined = {} /\ reported = {}
  /\ refined \subseteq groups
  /\ pass = "lanes" => Traverses
  /\ pass = "done" => refined = groups
  /\ reported \subseteq Cyclic
  /\ Judged \cap Cyclic \subseteq reported

\* A group begins with no lane met.
LEMMA GroupBegins ==
  ASSUME NEW g, group' = g, color' = [x \in LanesOf(g) |-> 0], stack' = <<>>,
         refined' = refined \cup {g}, UNCHANGED given
  PROVE  Traverses'
<1>1. Black' = {} /\ Grey' = {}
  BY DEF Black, Grey
<1>2. LaneTypes'
  <2>1. color' \in [LanesOf(g) -> 0..2]
    OBVIOUS
  <2>2. LanesOf(group)' = LanesOf(g)
    BY DEF LanesOf, given
  <2>3. QED
    BY <2>1, <2>2 DEF LaneTypes
<1>3. GreyStacked' /\ Chained' /\ Followed'
  BY <1>1 DEF GreyStacked, Chained, Followed
<1>4. BlackClosed' /\ BlackAcyclic'
  BY <1>1 DEF BlackClosed, BlackAcyclic, Cycles
<1>5. QED
  BY <1>2, <1>3, <1>4 DEF Traverses

\* What the steps of a traversal leave alone, and the lanes it colors.
LEMMA LanesOfGroup ==
  ASSUME Traverses, refined \subseteq Groups
  PROVE  /\ DOMAIN color = LanesOf(group) /\ LanesOf(group) \subseteq Lanes
         /\ group \in SUBSET Components
<1>1. group \in SUBSET Components
  BY DEF Traverses, LaneTypes, Groups, Together
<1>2. LanesOf(group) \subseteq Lanes
  BY <1>1 DEF LanesOf, Lanes
<1>3. QED
  BY <1>1, <1>2 DEF Traverses, LaneTypes

LEMMA ColorsStay ==
  ASSUME UNCHANGED <<given, group, refined>>
  PROVE  /\ LanesOf(group)' = LanesOf(group)
         /\ Fed' = Fed /\ Cycles' = Cycles /\ Cyclic' = Cyclic
<1>1. LanesOf(group)' = LanesOf(group)
  BY DEF LanesOf, given
<1>2. QED
  BY <1>1, LanesStay

\* A lane that no search has met starts a chain of its own.
LEMMA LaneStarts ==
  ASSUME circuit \in Circuits, Traverses, refined \subseteq Groups, StartLane
  PROVE  Traverses'
<1>1. PICK x : x = First(White)
  OBVIOUS
<1>2. /\ stack = <<>> /\ White # {}
      /\ color' = [color EXCEPT ![x] = 1]
      /\ stack' = <<[lane |-> x, input |-> 1]>>
      /\ UNCHANGED <<given, group, refined>>
  BY <1>1 DEF StartLane
<1>3. x \in White /\ x \in DOMAIN color
  BY <1>1, <1>2, LanesOfGroup, FirstOf DEF White
<1>4. /\ LanesOf(group)' = LanesOf(group) /\ Fed' = Fed /\ Cycles' = Cycles
  BY <1>2, ColorsStay
<1>5. color \in [LanesOf(group) -> 0..2] /\ color[x] = 0
  BY <1>3 DEF Traverses, LaneTypes, White
<1>6. DOMAIN color' = DOMAIN color /\ Black' = Black /\ Grey' = Grey \cup {x}
  BY <1>2, <1>3, <1>5 DEF Black, Grey
<1>7. Grey = {}
  BY <1>2 DEF Traverses, GreyStacked
<1>8. PICK e : e = [lane |-> x, input |-> 1]
  OBVIOUS
<1>9. /\ Len(stack') = 1 /\ stack'[1] = e /\ e.lane = x /\ e.input = 1
      /\ stack' \in Seq([lane : LanesOf(group), input : Nat \ {0}])
  <2>1. e \in [lane : LanesOf(group), input : Nat \ {0}] /\ e.lane = x /\ e.input = 1
    BY <1>3, <1>5, <1>8
  <2>2. stack' = <<e>>
    BY <1>2, <1>8
  <2>3. QED
    BY <2>1, <2>2
<1>10. 1..1 = {1} /\ 1..1 - 1 = {}
  OBVIOUS
<1>11. LaneTypes'
  BY <1>2, <1>4, <1>5, <1>9 DEF Traverses, LaneTypes
<1>12. GreyStacked'
  BY <1>6, <1>7, <1>9, <1>10 DEF GreyStacked
<1>13. Chained'
  BY <1>9, <1>10 DEF Chained
<1>14. Followed'
  <2>1. ASSUME NEW i \in Nat, NEW y, <<x, i, y>> \in Fed, i < 1
        PROVE  FALSE
    <3>1. i \in DOMAIN circuit.ins[x[1]] /\ x[1] \in Components
      BY <2>1, LaneIs DEF Fed, Lanes
    <3>2. i >= 1
      BY <3>1, CircuitTypes
    <3>3. QED
      BY <2>1, <3>2
  <2>2. QED
    BY <1>4, <1>9, <1>10, <2>1 DEF Followed
<1>15. BlackClosed' /\ BlackAcyclic'
  BY <1>4, <1>6 DEF Traverses, BlackClosed, BlackAcyclic
<1>16. QED
  BY <1>11, <1>12, <1>13, <1>14, <1>15 DEF Traverses


LEMMA LaneTop ==
  ASSUME Traverses, stack # <<>>
  PROVE  /\ Len(stack) \in Nat \ {0}
         /\ \A k \in 1..Len(stack) :
              stack[k].lane \in LanesOf(group) /\ stack[k].input \in Nat \ {0}
         /\ Top(stack) = stack[Len(stack)]
         /\ Rest(stack) \in Seq([lane : LanesOf(group), input : Nat \ {0}])
         /\ Len(Rest(stack)) = Len(stack) - 1
         /\ \A k \in 1..Len(stack) - 1 : Rest(stack)[k] = stack[k]
<1>1. stack \in Seq([lane : LanesOf(group), input : Nat \ {0}])
  BY DEF Traverses, LaneTypes
<1>2. \A k \in 1..Len(stack) : stack[k] \in [lane : LanesOf(group), input : Nat \ {0}]
  BY <1>1, ElementOfSeq
<1>3. \A k \in 1..Len(stack) :
        stack[k].lane \in LanesOf(group) /\ stack[k].input \in Nat \ {0}
  BY <1>2
<1>4. Top(stack) = stack[Len(stack)]
  BY DEF Top
<1>5. QED
  BY <1>1, <1>3, <1>4, RestOf

\* A lane of which every input was followed is done, and lies on no cycle.
LEMMA LaneEnds ==
  ASSUME circuit \in Circuits, Graph, Traverses, refined \subseteq Groups, FinishLane
  PROVE  Traverses'
<1>1. PICK x : x = Top(stack).lane
  OBVIOUS
<1>2. PICK n \in Nat \ {0} : n = Len(stack)
  BY LaneTop DEF FinishLane
<1>3. /\ stack # <<>>
      /\ color' = [color EXCEPT ![x] = 2]
      /\ stack' = Rest(stack)
      /\ stack[n].input > Len(circuit.ins[x[1]])
      /\ UNCHANGED <<given, group, refined>>
  BY <1>1, <1>2, LaneTop DEF FinishLane
<1>4. /\ stack[n].lane = x /\ x \in LanesOf(group) /\ stack[n].input \in Nat
      /\ stack' \in Seq([lane : LanesOf(group), input : Nat \ {0}]) /\ Len(stack') = n - 1
      /\ \A k \in 1..n - 1 : stack'[k] = stack[k]
      /\ \A k \in 1..n : stack[k].lane \in LanesOf(group)
  BY <1>1, <1>2, <1>3, LaneTop
<1>5. DOMAIN color = LanesOf(group) /\ LanesOf(group) \subseteq Lanes
  BY LanesOfGroup
<1>6. /\ LanesOf(group)' = LanesOf(group) /\ Fed' = Fed /\ Cycles' = Cycles
  BY <1>3, ColorsStay
<1>7. color \in [LanesOf(group) -> 0..2]
  BY DEF Traverses, LaneTypes
<1>8. x \in Grey /\ x \notin Black
  <2>1. n \in 1..n
    BY <1>2
  <2>2. x \in Grey
    BY <1>2, <1>4, <2>1 DEF Traverses, GreyStacked
  <2>3. QED
    BY <2>2 DEF Grey, Black
<1>9. DOMAIN color' = DOMAIN color /\ Black' = Black \cup {x} /\ Grey' = Grey \ {x}
  BY <1>3, <1>4, <1>5, <1>7 DEF Black, Grey
<1>10. \A k : k \in 1..n <=> k \in 1..n - 1 \/ k = n
  BY <1>2
<1>11. \A k \in 1..n - 1 : k \in 1..n /\ k # n
  BY <1>2
<1>12. \A k, l \in 1..n : stack[k].lane = stack[l].lane => k = l
  BY <1>2 DEF Traverses, GreyStacked
<1>13. LaneTypes'
  BY <1>3, <1>4, <1>6, <1>7 DEF Traverses, LaneTypes
<1>14. GreyStacked'
  <2>1. Grey = {stack[k].lane : k \in 1..n}
    BY <1>2 DEF Traverses, GreyStacked
  <2>2. \A k \in 1..n - 1 : stack[k].lane # x
    BY <1>4, <1>10, <1>11, <1>12
  <2>3. Grey' = {stack[k].lane : k \in 1..n - 1}
    BY <1>4, <1>9, <1>10, <2>1, <2>2
  <2>4. Grey' = {stack'[k].lane : k \in 1..n - 1}
    BY <1>4, <2>3
  <2>5. \A k, l \in 1..n - 1 : stack'[k].lane = stack'[l].lane => k = l
    BY <1>4, <1>11, <1>12
  <2>6. QED
    BY <1>4, <2>4, <2>5 DEF GreyStacked
<1>15. Chained'
  <2>1. \A k \in 1..n - 1 - 1 : k \in 1..n - 1 /\ k + 1 \in 1..n - 1
    BY <1>2
  <2>2. \A k \in 1..n - 1 : <<stack[k].lane, stack[k].input - 1, stack[k + 1].lane>> \in Fed
    BY <1>2 DEF Traverses, Chained
  <2>3. \A k \in 1..n - 1 - 1 :
          <<stack'[k].lane, stack'[k].input - 1, stack'[k + 1].lane>> \in Fed
    BY <1>4, <2>1, <2>2
  <2>4. QED
    BY <1>4, <1>6, <2>3 DEF Chained
<1>16. \A i \in Nat : \A y \in DOMAIN color : <<x, i, y>> \in Fed => y \in Black
  <2>1. SUFFICES ASSUME NEW i \in Nat, NEW y \in DOMAIN color, <<x, i, y>> \in Fed
                 PROVE  y \in Black
    OBVIOUS
  <2>2. i \in DOMAIN circuit.ins[x[1]] /\ x[1] \in Components
    BY <2>1, LaneIs DEF Fed, Lanes
  <2>3. i <= Len(circuit.ins[x[1]]) /\ Len(circuit.ins[x[1]]) \in Nat
    BY <2>2, CircuitTypes
  <2>4. i < stack[n].input
    BY <1>3, <1>4, <2>3
  <2>5. n \in 1..n /\ n + 1 \notin 1..n
    BY <1>2
  <2>6. QED
    BY <1>2, <1>4, <2>1, <2>4, <2>5 DEF Traverses, Followed
<1>17. Followed'
  <2>1. SUFFICES ASSUME NEW k \in 1..n - 1, NEW i \in Nat, NEW y \in DOMAIN color,
                        <<stack[k].lane, i, y>> \in Fed, i < stack[k].input
                 PROVE  y \in Black' \/ (k + 1 \in 1..n - 1 /\ y = stack'[k + 1].lane)
    BY <1>4, <1>6, <1>9 DEF Followed
  <2>2. k \in 1..n
    BY <1>11
  <2>3. CASE y \in Black
    BY <1>9, <2>3
  <2>4. CASE k + 1 \in 1..n /\ y = stack[k + 1].lane
    <3>1. CASE k + 1 = n
      BY <1>4, <1>9, <2>4, <3>1
    <3>2. CASE k + 1 # n
      <4>1. k + 1 \in 1..n - 1
        BY <1>10, <2>4, <3>2
      <4>2. QED
        BY <1>4, <2>4, <4>1
    <3>3. QED
      BY <3>1, <3>2
  <2>5. QED
    BY <1>2, <2>1, <2>2, <2>3, <2>4 DEF Traverses, Followed
<1>18. BlackClosed'
  BY <1>6, <1>9, <1>16 DEF Traverses, BlackClosed
<1>19. BlackAcyclic'
  <2>1. SUFFICES ASSUME NEW S \in Cycles, S \subseteq Black \cup {x}
                 PROVE  FALSE
    BY <1>6, <1>9 DEF BlackAcyclic
  <2>2. S \subseteq DOMAIN color /\ S \in SUBSET Lanes
    BY <1>4, <1>5, <2>1 DEF Black
  <2> DEFINE T == S \ {x}
  <2>3. ASSUME NEW z \in S
        PROVE  \E y \in T : \E i \in Nat : <<z, i, y>> \in Fed
    <3>1. PICK y \in S, i \in Nat : <<z, i, y>> \in Fed
      BY DEF Cycles
    <3>2. y \in DOMAIN color
      BY <2>2
    <3>3. y \in Black
      <4>1. CASE z = x
        BY <1>16, <3>1, <3>2, <4>1
      <4>2. CASE z \in Black
        BY <3>1, <3>2, <4>2 DEF Traverses, BlackClosed
      <4>3. QED
        BY <2>1, <4>1, <4>2
    <3>4. y # x
      BY <1>8, <3>3
    <3>5. QED
      BY <3>1, <3>4
  <2>4. S # {}
    BY DEF Cycles
  <2>5. T # {}
    BY <2>3, <2>4
  <2>6. \A z \in T : \E y \in T : \E i \in Nat : <<z, i, y>> \in Fed
    BY <2>3
  <2>7. T \subseteq Black /\ T \in SUBSET Lanes
    BY <2>1, <2>2
  <2> HIDE DEF T
  <2>8. T \in Cycles
    BY <2>5, <2>6, <2>7 DEF Cycles
  <2>9. QED
    BY <2>7, <2>8 DEF Traverses, BlackAcyclic
<1>20. QED
  BY <1>13, <1>14, <1>15, <1>17, <1>18, <1>19 DEF Traverses


Moved == [stack EXCEPT ![Len(stack)].input = @ + 1]

Found == Producers(Top(stack).lane, Top(stack).input) \cap DOMAIN color

MayFollow ==
  /\ stack # <<>> /\ Top(stack).input <= Len(circuit.ins[Top(stack).lane[1]])
  /\ UNCHANGED <<given, refined>>

LEMMA MovedIs ==
  ASSUME Traverses, stack # <<>>
  PROVE  /\ Moved \in Seq([lane : LanesOf(group), input : Nat \ {0}])
         /\ Len(Moved) = Len(stack)
         /\ \A k \in 1..Len(stack) - 1 : Moved[k] = stack[k]
         /\ Moved[Len(stack)].lane = stack[Len(stack)].lane
         /\ Moved[Len(stack)].input = stack[Len(stack)].input + 1
<1> DEFINE E == [lane : LanesOf(group), input : Nat \ {0}]
<1>1. PICK s \in Seq(E) : s = stack
  BY DEF Traverses, LaneTypes
<1>2. PICK n \in Nat \ {0} : n = Len(stack)
  BY LaneTop
<1>3. PICK e \in E : e = s[n]
  <2>1. n \in 1..Len(s)
    BY <1>1, <1>2
  <2> HIDE DEF E
  <2>2. QED
    BY <1>1, <2>1, ElementOfSeq
<1>4. PICK f : f = [e EXCEPT !.input = @ + 1]
  OBVIOUS
<1>5. f \in E /\ f.lane = e.lane /\ f.input = e.input + 1
  BY <1>4
<1>6. Moved = [s EXCEPT ![n] = f]
  BY <1>1, <1>2, <1>3, <1>4 DEF Moved
<1>7. n \in 1..Len(s) /\ \A k \in 1..n - 1 : k \in 1..Len(s) /\ k # n
  BY <1>1, <1>2
<1> HIDE DEF E
<1>8. PICK t : t = [s EXCEPT ![n] = f]
  OBVIOUS
<1>9. /\ t \in Seq(E) /\ Len(t) = Len(s)
      /\ \A j \in 1..Len(s) : t[j] = IF j = n THEN f ELSE s[j]
  BY <1>1, <1>5, <1>7, <1>8, ExceptSeq
<1>10. t[n] = f /\ \A k \in 1..n - 1 : t[k] = s[k]
  BY <1>7, <1>9
<1>11. QED
  BY <1>1, <1>2, <1>3, <1>5, <1>6, <1>8, <1>9, <1>10 DEF E

\* The lanes that drive the next input of the lane on top.
LEMMA FoundIs ==
  ASSUME circuit \in Circuits, Traverses, refined \subseteq Groups, MayFollow
  PROVE  /\ Found \subseteq DOMAIN color
         /\ Top(stack).input \in Nat
         /\ \A y \in DOMAIN color :
              y \in Found <=> <<Top(stack).lane, Top(stack).input, y>> \in Fed
<1>1. PICK x \in Lanes : x = Top(stack).lane /\ x[1] \in Components
  BY LaneTop, LanesOfGroup, LaneIs DEF MayFollow, Lanes
<1>2. PICK i \in Nat \ {0} : i = Top(stack).input
  BY LaneTop DEF MayFollow
<1>3. i \in DOMAIN circuit.ins[x[1]]
  BY <1>1, <1>2, CircuitTypes DEF MayFollow
<1>4. \A y \in DOMAIN color : y \in Lanes
  BY LanesOfGroup
<1>5. \A y \in DOMAIN color : <<x, i, y>> \in Fed <=> y \in Producers(x, i)
  BY <1>3, <1>4, FedIs
<1>6. QED
  BY <1>1, <1>2, <1>5 DEF Found

\* What only the lanes of a stack matter for.
LEMMA SameLanes ==
  ASSUME NEW n \in Nat, NEW s, NEW t, \A k \in 1..n : s[k].lane = t[k].lane
  PROVE  /\ {s[k].lane : k \in 1..n} = {t[k].lane : k \in 1..n}
         /\ (\A k, l \in 1..n : t[k].lane = t[l].lane => k = l) =>
              \A k, l \in 1..n : s[k].lane = s[l].lane => k = l
<1>1. \A x : x \in {s[k].lane : k \in 1..n} <=> x \in {t[k].lane : k \in 1..n}
  OBVIOUS
<1>2. QED
  BY <1>1

\* The lane that drives an input is done, or is none of the group.
LEMMA InputPassed ==
  ASSUME circuit \in Circuits, Graph, Traverses, refined \subseteq Groups, MayFollow,
         \A x \in Found : color[x] = 2,
         stack' = Moved, UNCHANGED <<color, group>>
  PROVE  Traverses'
<1>1. PICK n \in Nat \ {0} : n = Len(stack)
  BY LaneTop DEF MayFollow
<1>2. /\ stack' \in Seq([lane : LanesOf(group), input : Nat \ {0}]) /\ Len(stack') = n
      /\ \A k \in 1..n - 1 : stack'[k] = stack[k]
      /\ stack'[n].lane = stack[n].lane /\ stack'[n].input = stack[n].input + 1
      /\ Top(stack) = stack[n] /\ stack[n].input \in Nat
  BY <1>1, MovedIs, LaneTop DEF MayFollow
<1>3. /\ LanesOf(group)' = LanesOf(group) /\ Fed' = Fed /\ Cycles' = Cycles
      /\ refined' = refined
  BY ColorsStay DEF MayFollow
<1>4. Black' = Black /\ Grey' = Grey
  BY DEF Black, Grey
<1>5. \A k : k \in 1..n <=> k \in 1..n - 1 \/ k = n
  BY <1>1
<1>6. \A k \in 1..n : stack'[k].lane = stack[k].lane
  BY <1>2, <1>5
<1>7. LaneTypes'
  BY <1>2, <1>3 DEF Traverses, LaneTypes
<1>8. GreyStacked'
  <2>1. /\ Grey = {stack[k].lane : k \in 1..n}
        /\ \A k, l \in 1..n : stack[k].lane = stack[l].lane => k = l
    BY <1>1 DEF Traverses, GreyStacked
  <2>2. Grey' = {stack'[k].lane : k \in 1..n}
    BY <1>4, <1>6, <2>1
  <2>3. \A k, l \in 1..n : stack'[k].lane = stack'[l].lane => k = l
    BY <1>6, <2>1
  <2>4. QED
    BY <1>2, <2>2, <2>3 DEF GreyStacked
<1>9. Chained'
  <2>1. \A k \in 1..n - 1 : k + 1 \in 1..n /\ k \in 1..n
    BY <1>1
  <2>2. \A k \in 1..n - 1 :
          <<stack[k].lane, stack[k].input - 1, stack[k + 1].lane>> \in Fed
    BY <1>1 DEF Traverses, Chained
  <2>3. \A k \in 1..n - 1 :
          <<stack'[k].lane, stack'[k].input - 1, stack'[k + 1].lane>> \in Fed'
    BY <1>2, <1>3, <1>6, <2>1, <2>2
  <2>4. QED
    BY <1>2, <2>3 DEF Chained
<1>10. Followed'
  <2>1. SUFFICES ASSUME NEW k \in 1..n, NEW i \in Nat, NEW y \in DOMAIN color,
                        <<stack[k].lane, i, y>> \in Fed, i < stack'[k].input
                 PROVE  y \in Black \/ (k + 1 \in 1..n /\ y = stack[k + 1].lane)
    <3>1. \A k \in 1..n - 1 : k \in 1..n /\ k + 1 \in 1..n
      BY <1>1
    <3>2. color' = color /\ Len(stack') = n
      BY <1>2
    <3>3. \A k \in 1..n : k + 1 \in 1..n => stack'[k + 1].lane = stack[k + 1].lane
      BY <1>6
    <3>4. QED
      BY <1>3, <1>4, <1>6, <2>1, <3>2, <3>3 DEF Followed
  <2>2. CASE i < stack[k].input
    BY <1>1, <2>1, <2>2 DEF Traverses, Followed
  <2>3. CASE ~(i < stack[k].input)
    <3>1. k = n
      BY <1>2, <1>5, <2>1, <2>3
    <3>2. i = stack[n].input
      BY <1>2, <2>1, <2>3, <3>1
    <3>3. y \in Found
      BY <1>2, <2>1, <3>1, <3>2, FoundIs
    <3>4. QED
      BY <3>3 DEF Black
  <2>4. QED
    BY <2>2, <2>3
<1>11. BlackClosed' /\ BlackAcyclic'
  BY <1>3, <1>4 DEF Traverses, BlackClosed, BlackAcyclic
<1>12. QED
  BY <1>7, <1>8, <1>9, <1>10, <1>11 DEF Traverses

\* The lane that drives an input is met for the first time.
LEMMA InputEntered ==
  ASSUME circuit \in Circuits, Graph, Traverses, refined \subseteq Groups, MayFollow,
         NEW x \in Found, color[x] = 0, color' = [color EXCEPT ![x] = 1],
         NEW e, e = [lane |-> x, input |-> 1],
         stack' = Append(Moved, e), group' = group
  PROVE  Traverses'
<1> DEFINE E == [lane : LanesOf(group), input : Nat \ {0}]
<1>1. PICK n \in Nat \ {0} : n = Len(stack)
  BY LaneTop DEF MayFollow
<1>2. /\ x \in DOMAIN color /\ DOMAIN color = LanesOf(group)
      /\ <<stack[n].lane, stack[n].input, x>> \in Fed
      /\ Top(stack) = stack[n] /\ stack[n].input \in Nat
  BY <1>1, FoundIs, LanesOfGroup, LaneTop DEF MayFollow
<1>3. e \in E /\ e.lane = x /\ e.input = 1
  BY <1>2
<1>4. /\ stack' \in Seq(E) /\ Len(stack') = n + 1 /\ stack'[n + 1] = e
      /\ \A k \in 1..n : stack'[k] = Moved[k]
  <2>1. Moved \in Seq(E) /\ Len(Moved) = n
    BY <1>1, MovedIs DEF MayFollow
  <2> HIDE DEF E
  <2>2. QED
    BY <1>3, <2>1, AppendProperties
<1>5. \A k : k \in 1..n <=> k \in 1..n - 1 \/ k = n
  BY <1>1
<1>6. /\ \A k \in 1..n - 1 : stack'[k] = stack[k]
      /\ stack'[n].lane = stack[n].lane /\ stack'[n].input = stack[n].input + 1
      /\ \A k \in 1..n : stack'[k].lane = stack[k].lane
      /\ stack'[n + 1].lane = x /\ stack'[n + 1].input = 1
  <2>1. \A k \in 1..n - 1 : stack'[k] = stack[k]
    BY <1>1, <1>4, <1>5, MovedIs DEF MayFollow
  <2>2. stack'[n].lane = stack[n].lane /\ stack'[n].input = stack[n].input + 1
    BY <1>1, <1>4, <1>5, MovedIs DEF MayFollow
  <2>3. \A k \in 1..n : stack'[k].lane = stack[k].lane
    BY <1>5, <2>1, <2>2
  <2>4. QED
    BY <1>3, <1>4, <2>1, <2>2, <2>3
<1> HIDE DEF E
<1>7. /\ LanesOf(group)' = LanesOf(group) /\ Fed' = Fed /\ Cycles' = Cycles
      /\ refined' = refined
  BY ColorsStay DEF MayFollow
<1>8. color \in [LanesOf(group) -> 0..2]
  BY DEF Traverses, LaneTypes
<1>9. /\ DOMAIN color' = DOMAIN color /\ Black' = Black /\ Grey' = Grey \cup {x}
      /\ x \notin Grey
  BY <1>2, <1>8 DEF Black, Grey
<1>10. LaneTypes'
  <2>1. color' \in [LanesOf(group) -> 0..2]
    BY <1>2, <1>8
  <2>2. QED
    BY <1>4, <1>7, <2>1 DEF Traverses, LaneTypes, E
<1>11. \A k : k \in 1..n + 1 <=> k \in 1..n \/ k = n + 1
  BY <1>1
<1>12. Grey = {stack[k].lane : k \in 1..n}
  BY <1>1 DEF Traverses, GreyStacked
<1>13. GreyStacked'
  <2>1. \A k \in 1..n : stack'[k].lane # x
    BY <1>6, <1>9, <1>12
  <2>2. Grey' = {stack'[k].lane : k \in 1..n + 1}
    <3>1. {stack'[k].lane : k \in 1..n} = Grey
      <4>1. \A k \in 1..n : stack'[k].lane = stack[k].lane
        BY <1>6
      <4>2. PICK t : t = stack'
        OBVIOUS
      <4>3. \A k \in 1..n : t[k].lane = stack[k].lane
        BY <4>1, <4>2
      <4>4. {t[k].lane : k \in 1..n} = {stack[k].lane : k \in 1..n}
        BY <1>1, <4>3, SameLanes
      <4>5. QED
        BY <1>12, <4>2, <4>4
    <3>2. {stack'[k].lane : k \in 1..n + 1}
            = {stack'[k].lane : k \in 1..n} \cup {stack'[n + 1].lane}
      BY <1>11
    <3>3. QED
      BY <1>6, <1>9, <3>1, <3>2
  <2>3. \A k, l \in 1..n : stack'[k].lane = stack'[l].lane => k = l
    <3>1. \A k, l \in 1..n : stack[k].lane = stack[l].lane => k = l
      BY <1>1 DEF Traverses, GreyStacked
    <3>2. PICK t : t = stack'
      OBVIOUS
    <3>3. \A k \in 1..n : t[k].lane = stack[k].lane
      BY <1>6, <3>2
    <3>4. \A k, l \in 1..n : t[k].lane = t[l].lane => k = l
      BY <1>1, <3>1, <3>3, SameLanes
    <3>5. QED
      BY <3>2, <3>4
  <2>4. \A k, l \in 1..n + 1 : stack'[k].lane = stack'[l].lane => k = l
    BY <1>6, <1>11, <2>1, <2>3
  <2>5. QED
    BY <1>4, <2>2, <2>4 DEF GreyStacked
<1>14. Chained'
  <2>1. SUFFICES ASSUME NEW k \in 1..n
                 PROVE  <<stack'[k].lane, stack'[k].input - 1, stack'[k + 1].lane>> \in Fed
    <3>1. n + 1 - 1 = n
      BY <1>1
    <3>2. QED
      BY <1>4, <1>7, <3>1 DEF Chained
  <2>2. CASE k = n
    <3>1. PICK q \in Nat : q = stack[n].input
      BY <1>2
    <3>2. stack'[k].lane = stack[n].lane /\ stack'[k].input - 1 = q
      <4>1. PICK v : v = stack'[k].input
        OBVIOUS
      <4>2. stack'[k].lane = stack[n].lane /\ v = q + 1
        BY <1>6, <2>2, <3>1, <4>1
      <4>3. v - 1 = q
        BY <4>2
      <4>4. QED
        BY <4>1, <4>2, <4>3
    <3>3. stack'[k + 1].lane = x
      BY <1>6, <2>2
    <3>4. QED
      BY <1>2, <3>1, <3>2, <3>3
  <2>3. CASE k # n
    <3>1. k \in 1..n - 1 /\ k + 1 \in 1..n
      BY <1>1, <2>3
    <3>2. QED
      BY <1>1, <1>6, <3>1 DEF Traverses, Chained
  <2>4. QED
    BY <2>2, <2>3
<1>15. Followed'
  <2>1. SUFFICES ASSUME NEW k \in 1..n + 1, NEW i \in Nat, NEW y \in DOMAIN color,
                        <<stack'[k].lane, i, y>> \in Fed, i < stack'[k].input
                 PROVE  y \in Black \/ (k + 1 \in 1..n + 1 /\ y = stack'[k + 1].lane)
    BY <1>4, <1>7, <1>9 DEF Followed
  <2>2. CASE k = n + 1
    <3>1. i \in DOMAIN circuit.ins[x[1]] /\ x[1] \in Components
      BY <1>6, <2>1, <2>2, LaneIs DEF Fed, Lanes
    <3>2. i >= 1
      BY <3>1, CircuitTypes
    <3>3. stack'[k].input = 1
      BY <1>6, <2>2
    <3>4. i < 1
      BY <2>1, <3>3
    <3>5. QED
      BY <3>2, <3>4
  <2>3. CASE k \in 1..n /\ i < stack[k].input
    <3>1. y \in Black \/ (k + 1 \in 1..n /\ y = stack[k + 1].lane)
      <4>1. <<stack[k].lane, i, y>> \in Fed
        BY <1>6, <2>1, <2>3
      <4>2. QED
        BY <1>1, <2>1, <2>3, <4>1 DEF Traverses, Followed
    <3>2. CASE k + 1 \in 1..n /\ y = stack[k + 1].lane
      <4>1. stack'[k + 1].lane = y /\ k + 1 \in 1..n + 1
        BY <1>6, <1>11, <3>2
      <4>2. QED
        BY <4>1
    <3>3. QED
      BY <3>1, <3>2
  <2>4. CASE k \in 1..n /\ ~(i < stack[k].input)
    <3>1. k = n
      BY <1>5, <1>6, <2>1, <2>4
    <3>2. /\ stack'[k].input = stack[n].input + 1 /\ stack'[k].lane = stack[n].lane
          /\ ~(i < stack[n].input) /\ stack'[k + 1].lane = x
      BY <1>6, <2>4, <3>1
    <3>3. i = stack[n].input
      <4>1. PICK q \in Nat : q = stack[n].input
        BY <1>2
      <4>2. i < q + 1 /\ ~(i < q)
        BY <2>1, <3>2, <4>1
      <4>3. i = q
        BY <4>1, <4>2
      <4>4. QED
        BY <4>1, <4>3
    <3>4. y = x
      BY <1>2, <2>1, <3>2, <3>3, FedOnce
    <3>5. k + 1 \in 1..n + 1
      BY <1>1, <3>1
    <3>6. QED
      BY <3>2, <3>4, <3>5
  <2>5. QED
    BY <1>11, <2>2, <2>3, <2>4
<1>16. BlackClosed' /\ BlackAcyclic'
  BY <1>7, <1>9 DEF Traverses, BlackClosed, BlackAcyclic
<1>17. QED
  BY <1>10, <1>13, <1>14, <1>15, <1>16 DEF Traverses

\* The lane that drives an input is being followed itself.
LEMMA CycleFound ==
  ASSUME circuit \in Circuits, Graph, Traverses, refined \subseteq Groups, MayFollow,
         NEW x \in Found, color[x] = 1
  PROVE  group \in Cyclic
<1>1. PICK n \in Nat \ {0} : n = Len(stack)
  BY LaneTop DEF MayFollow
<1>2. /\ <<stack[n].lane, stack[n].input, x>> \in Fed /\ stack[n].input \in Nat
      /\ DOMAIN color = LanesOf(group) /\ LanesOf(group) \subseteq Lanes
      /\ group \in SUBSET Components
      /\ \A k \in 1..n : stack[k].lane \in LanesOf(group)
      /\ \A k \in 1..n : stack[k].input \in Nat \ {0}
  BY <1>1, FoundIs, LanesOfGroup, LaneTop DEF MayFollow
<1>3. x \in Grey
  BY FoundIs DEF Grey
<1>4. PICK j \in 1..n : stack[j].lane = x
  BY <1>1, <1>3 DEF Traverses, GreyStacked
<1> DEFINE S == {stack[k].lane : k \in j..n}
<1>5. \A k \in j..n : k \in 1..n /\ (k # n => k \in 1..n - 1 /\ k + 1 \in j..n)
  BY <1>1
<1>6. j \in j..n
  BY <1>1
<1>7. S # {} /\ S \subseteq LanesOf(group) /\ x \in S
  BY <1>2, <1>4, <1>5, <1>6
<1>8. ASSUME NEW k \in j..n
      PROVE  \E y \in S : \E i \in Nat : <<stack[k].lane, i, y>> \in Fed
  <2>1. CASE k = n
    BY <1>2, <1>7, <2>1
  <2>2. CASE k # n
    <3>1. <<stack[k].lane, stack[k].input - 1, stack[k + 1].lane>> \in Fed
      BY <1>1, <1>5, <2>2 DEF Traverses, Chained
    <3>2. stack[k].input - 1 \in Nat
      BY <1>2, <1>5
    <3>3. stack[k + 1].lane \in S
      BY <1>5, <2>2
    <3>4. QED
      BY <3>1, <3>2, <3>3
  <2>3. QED
    BY <2>1, <2>2
<1>9. \A z \in S : \E y \in S : \E i \in Nat : <<z, i, y>> \in Fed
  BY <1>8
<1> HIDE DEF S
<1>10. S \in Cycles
  BY <1>2, <1>7, <1>9 DEF Cycles
<1>11. QED
  BY <1>2, <1>7, <1>10 DEF Cyclic

\* When every lane of a group is done, it has no cycle.
LEMMA GroupEnds ==
  ASSUME circuit \in Circuits, Traverses, refined \subseteq Groups, EndGroup
  PROVE  group \notin Cyclic
<1>1. stack = <<>> /\ White = {}
  BY DEF EndGroup
<1>2. Grey = {}
  BY <1>1 DEF Traverses, GreyStacked
<1>3. color \in [LanesOf(group) -> 0..2]
  BY DEF Traverses, LaneTypes
<1>4. LanesOf(group) \subseteq Black
  <2>1. \A x \in LanesOf(group) : color[x] # 0 /\ color[x] # 1 /\ color[x] \in 0..2
    BY <1>1, <1>2, <1>3 DEF White, Grey
  <2>2. QED
    BY <1>3, <2>1 DEF Black
<1>5. QED
  BY <1>4 DEF Cyclic, Traverses, BlackAcyclic


\* What the third pass reports, and what it has dealt with.
LEMMA Refining == Spec => []RefineInv
<1>1. Init => RefineInv
  BY DEF Init, RefineInv, Judged
<1>2. PassOrder /\ AssignInv /\ RefineInv /\ [Next]_vars => RefineInv'
  <2> SUFFICES ASSUME PassOrder, AssignInv, RefineInv, [Next]_vars
               PROVE  RefineInv'
    OBVIOUS
  <2>1. /\ circuit \in Circuits
        /\ pass # "build" => Graph
        /\ pass \in {"refine", "lanes", "done"} => groups = Groups
        /\ pass \in {"build", "finish", "assign"} => refined = {} /\ reported = {}
        /\ refined \subseteq groups
        /\ pass = "lanes" => Traverses
        /\ pass = "done" => refined = groups
        /\ reported \subseteq Cyclic /\ Judged \cap Cyclic \subseteq reported
    BY DEF PassOrder, AssignInv, RefineInv
  <2>2. Judged = refined \ (IF pass = "lanes" THEN {group} ELSE {})
    BY DEF Judged
  <2>3. Judged' = refined' \ (IF pass' = "lanes" THEN {group'} ELSE {})
    BY DEF Judged
  <2>4. CASE BuildGraph \/ StartVisit \/ Visit \/ EndFinish \/ StartGroup \/ Collect
             \/ EndAssign
    <3>1. /\ refined' = {} /\ reported' = {}
          /\ pass' \in {"finish", "assign", "refine"}
      BY <2>1, <2>4
      DEF BuildGraph, StartVisit, Visit, EndFinish, StartGroup, Collect, EndAssign
    <3>2. Judged' = {}
      BY <2>3, <3>1
    <3>3. QED
      BY <3>1, <3>2 DEF RefineInv
  <2>5. CASE NextGroup
    <3>1. /\ pass = "refine" /\ groups # refined
          /\ UNCHANGED <<given, stack, groups>> /\ stack = <<>>
      BY <2>5 DEF NextGroup, PassOrder
    <3>2. /\ Cyclic' = Cyclic /\ groups = Groups /\ Graph /\ Judged = refined
      BY <2>1, <2>2, <3>1, LanesStay
    <3> DEFINE left == groups \ refined
    <3>3. PICK g : g = CHOOSE h \in left : \A k \in left : Smallest(h) <= Smallest(k)
      OBVIOUS
    <3>4. g \in left
      <4>1. left \in SUBSET Groups /\ left # {}
        BY <2>1, <3>1, <3>2
      <4> HIDE DEF left
      <4>2. QED
        BY <3>3, <4>1, NextGroupIsOne
    <3>5. g \in Groups /\ g \in SUBSET Components
      BY <3>2, <3>4 DEF Groups, Together
    <3>6. /\ refined' = refined \cup {g} /\ refined' \subseteq groups'
      BY <2>1, <2>5, <3>1, <3>3, <3>4 DEF NextGroup
    <3>7. \/ Trivial(g) /\ UNCHANGED <<pass, reported>>
          \/ /\ ~Trivial(g) /\ \A c \in g : circuit.width[c] = 1
             /\ reported' = reported \cup {g} /\ pass' = pass
          \/ /\ pass' = "lanes" /\ group' = g /\ color' = [x \in LanesOf(g) |-> 0]
             /\ reported' = reported
      BY <2>5, <3>3 DEF NextGroup, Report
    <3>8. CASE Trivial(g) /\ UNCHANGED <<pass, reported>>
      <4>1. g \notin Cyclic
        BY <2>1, <3>2, <3>5, <3>8, TrivialIsNone
      <4>2. Judged' = refined \cup {g}
        BY <2>3, <3>1, <3>6, <3>8
      <4>3. QED
        BY <2>1, <3>1, <3>2, <3>6, <3>8, <4>1, <4>2 DEF RefineInv
    <3>9. CASE /\ ~Trivial(g) /\ \A c \in g : circuit.width[c] = 1
               /\ reported' = reported \cup {g} /\ pass' = pass
      <4>1. g \in Cyclic
        BY <2>1, <3>2, <3>5, <3>9, NarrowIsCyclic
      <4>2. Judged' = refined \cup {g}
        BY <2>3, <3>1, <3>6, <3>9
      <4>3. QED
        BY <2>1, <3>1, <3>2, <3>6, <3>9, <4>1, <4>2 DEF RefineInv
    <3>10. CASE /\ pass' = "lanes" /\ group' = g /\ color' = [x \in LanesOf(g) |-> 0]
                /\ reported' = reported
      <4>1. Traverses'
        BY <3>1, <3>6, <3>10, GroupBegins
      <4>2. Judged' = refined
        BY <2>3, <3>4, <3>6, <3>10
      <4>3. QED
        BY <2>1, <3>2, <3>6, <3>10, <4>1, <4>2 DEF RefineInv
    <3>11. QED
      BY <3>7, <3>8, <3>9, <3>10
  <2>6. pass = "lanes" => Graph /\ Traverses /\ refined \subseteq Groups /\ group \in refined
    BY <2>1 DEF Traverses, LaneTypes
  <2>7. CASE StartLane \/ FinishLane
    <3>1. /\ pass = "lanes" /\ pass' = "lanes"
          /\ UNCHANGED <<given, refined, group, reported, groups>>
      BY <2>7 DEF StartLane, FinishLane
    <3>2. Traverses' /\ Cyclic' = Cyclic
      BY <2>1, <2>6, <2>7, <3>1, LaneStarts, LaneEnds, LanesStay
    <3>3. Judged' = Judged
      BY <2>2, <2>3, <3>1
    <3>4. QED
      BY <2>1, <3>1, <3>2, <3>3 DEF RefineInv
  <2>8. CASE FollowInput
    <3>1. /\ pass = "lanes" /\ UNCHANGED <<given, refined, groups>>
          /\ MayFollow
      BY <2>8 DEF FollowInput, MayFollow
    <3>2. Cyclic' = Cyclic
      BY <3>1, LanesStay
    <3>3. \/ /\ \A x \in Found : color[x] = 2
             /\ stack' = Moved /\ UNCHANGED <<pass, color, group, reported>>
          \/ \E x \in Found :
               /\ color[x] = 0 /\ color' = [color EXCEPT ![x] = 1]
               /\ stack' = Append(Moved, [lane |-> x, input |-> 1])
               /\ UNCHANGED <<pass, group, reported>>
          \/ /\ \E x \in Found : color[x] = 1
             /\ reported' = reported \cup {group} /\ pass' = "refine"
      BY <2>8 DEF FollowInput, Found, Moved, Report
    <3>4. CASE Traverses' /\ UNCHANGED <<pass, group, reported>>
      <4>1. Judged' = Judged
        BY <2>2, <2>3, <3>1, <3>4
      <4>2. QED
        BY <2>1, <3>1, <3>2, <3>4, <4>1 DEF RefineInv
    <3>5. CASE /\ \A x \in Found : color[x] = 2
               /\ stack' = Moved /\ UNCHANGED <<pass, color, group, reported>>
      <4>1. Traverses'
        BY <2>1, <2>6, <3>1, <3>5, InputPassed
      <4>2. QED
        BY <3>4, <3>5, <4>1
    <3>6. CASE \E x \in Found :
                 /\ color[x] = 0 /\ color' = [color EXCEPT ![x] = 1]
                 /\ stack' = Append(Moved, [lane |-> x, input |-> 1])
                 /\ UNCHANGED <<pass, group, reported>>
      <4>1. Traverses'
        BY <2>1, <2>6, <3>1, <3>6, InputEntered
      <4>2. QED
        BY <3>4, <3>6, <4>1
    <3>7. CASE /\ \E x \in Found : color[x] = 1
               /\ reported' = reported \cup {group} /\ pass' = "refine"
      <4>1. group \in Cyclic
        BY <2>1, <2>6, <3>1, <3>7, CycleFound
      <4>2. Judged' = refined /\ Judged = refined \ {group}
        BY <2>2, <2>3, <3>1, <3>7
      <4>3. QED
        BY <2>1, <3>1, <3>2, <3>7, <4>1, <4>2 DEF RefineInv
    <3>8. QED
      BY <3>3, <3>5, <3>6, <3>7
  <2>9. CASE EndGroup
    <3>1. /\ pass = "lanes" /\ pass' = "refine"
          /\ UNCHANGED <<given, refined, groups, reported>>
      BY <2>9 DEF EndGroup
    <3>2. group \notin Cyclic /\ Cyclic' = Cyclic
      BY <2>1, <2>6, <2>9, <3>1, GroupEnds, LanesStay
    <3>3. Judged' = refined /\ Judged = refined \ {group}
      BY <2>2, <2>3, <3>1
    <3>4. QED
      BY <2>1, <3>1, <3>2, <3>3 DEF RefineInv
  <2>10. CASE EndRefine
    <3>1. /\ pass = "refine" /\ pass' = "done" /\ groups = refined
          /\ UNCHANGED <<given, refined, groups, reported>>
      BY <2>10 DEF EndRefine
    <3>2. Cyclic' = Cyclic /\ Judged' = refined /\ Judged = refined
      BY <2>2, <2>3, <3>1, LanesStay
    <3>3. QED
      BY <2>1, <3>1, <3>2 DEF RefineInv
  <2>11. CASE UNCHANGED vars
    <3>1. UNCHANGED <<given, pass, stack, groups, refined, group, color, reported>>
      BY <2>11 DEF vars
    <3>2. /\ Cyclic' = Cyclic /\ Cycles' = Cycles /\ Fed' = Fed /\ Judged' = Judged
          /\ LanesOf(group)' = LanesOf(group) /\ Black' = Black /\ Grey' = Grey
      BY <3>1, ColorsStay, LanesStay DEF Judged, Black, Grey
    <3>3. Traverses => Traverses'
      <4>1. Traverses => LaneTypes' /\ GreyStacked'
        BY <3>1, <3>2 DEF Traverses, LaneTypes, GreyStacked
      <4>2. Traverses => Chained'
        BY <3>1, <3>2 DEF Traverses, Chained
      <4>3. Traverses => Followed'
        BY <3>1, <3>2 DEF Traverses, Followed
      <4>4. Traverses => BlackClosed' /\ BlackAcyclic'
        BY <3>1, <3>2 DEF Traverses, BlackClosed, BlackAcyclic
      <4>5. QED
        BY <4>1, <4>2, <4>3, <4>4 DEF Traverses
    <3>4. QED
      BY <2>1, <3>1, <3>2, <3>3 DEF RefineInv
  <2>12. QED
    BY <2>4, <2>5, <2>7, <2>8, <2>9, <2>10, <2>11 DEF Next
<1>3. QED
  BY <1>1, <1>2, Passes, Assigning, PTL DEF Spec

-----------------------------------------------------------------------------
\* What the three passes keep: the first orders the components, the second collects
\* the groups, the third tells their cycles.
SearchInv == PassOrder /\ FinishInv /\ AssignInv /\ RefineInv

\* No step of the three passes breaks what they are to keep, for any circuit.
THEOREM SearchInvariant == Spec => []SearchInv
BY Passes, Finishing, Assigning, Refining, PTL DEF SearchInv

\* A group that is reported has a cycle of lanes, for any number of components of any
\* width: a circuit whose buses only pass each other by is never refused.
THEOREM SoundReport == Spec => []ReportIsSound
<1>1. SearchInv => ReportIsSound
  <2> SUFFICES ASSUME SearchInv, NEW g \in reported
               PROVE  HasCycle(g)
    BY DEF ReportIsSound
  <2>1. g \in Cyclic /\ circuit \in Circuits
    BY DEF SearchInv, RefineInv, PassOrder
  <2>2. QED
    BY <2>1, CyclicIs DEF Cyclic
<1>2. QED
  BY <1>1, SearchInvariant, PTL

\* Every group of components with a cycle of lanes is reported, as the one group it is:
\* what passes can be evaluated in some order.
THEOREM CompleteReport == Spec => []ReportIsComplete
<1>1. SearchInv => ReportIsComplete
  <2> SUFFICES ASSUME SearchInv, pass = "done", NEW c \in Components,
                      HasCycle(Together(c))
               PROVE  Together(c) \in reported
    BY DEF ReportIsComplete
  <2>1. /\ circuit \in Circuits /\ refined = Groups /\ Judged = refined
        /\ Judged \cap Cyclic \subseteq reported
    BY DEF SearchInv, PassOrder, AssignInv, RefineInv, Judged
  <2>2. Together(c) \in Groups /\ Together(c) \in SUBSET Components
    BY DEF Groups, Together
  <2>3. Together(c) \in Cyclic
    BY <2>1, <2>2, CyclicIs
  <2>4. QED
    BY <2>1, <2>2, <2>3
<1>2. QED
  BY <1>1, SearchInvariant, PTL
=============================================================================
