-------------------------- MODULE OutputFilesProofs --------------------------
(***************************************************************************)
(* What holds of OutputFiles for any processes, plans, settings and        *)
(* faults.                                                                 *)
(*                                                                         *)
(* The argument is about names: live processes have different ids, so a    *)
(* temporary name is written, linked and removed by one live process only, *)
(* and what a process publishes is the file it has just stored.            *)
(***************************************************************************)
EXTENDS OutputFiles, TLAPS

States == Live \cup {"idle", "done", "failed", "dead"}

TypeOK ==
  /\ force \in [Processes -> BOOLEAN]
  /\ pc \in [Processes -> States]
  /\ at \in [Processes -> Nat]
  /\ \A p \in Processes : at[p] \in DOMAIN Plan[p]
  /\ target \in [Paths -> Files \cup {Nobody, Existing}]
  /\ temp \in [TempNames -> Files \cup {Nobody}]
  /\ content \in [Files -> {"empty", "partial", "written", "stored"}]
  /\ stuck \in SUBSET Processes

\* A process id is not used by two live processes.
LiveIdsDiffer ==
  \A p, q \in Processes : pc[p] \in Live /\ pc[q] \in Live /\ pid[p] = pid[q] => p = q

StartsAtFirst == \A p \in Processes : pc[p] \in {"idle"} => at[p] = 1

\* A temporary name stands for the file that its process is writing, or was
\* left by one that cannot remove it any more.
TempHasOwner ==
  \A t \in TempNames : temp[t] # Nobody =>
    \E p \in Processes :
      /\ temp[t][1] = p
      /\ \/ pc[p] = "dead" \/ p \in stuck
         \/ /\ pc[p] \in {"fill", "sync", "publish", "unlink", "cleanup"}
            /\ t = TempName(p)

StoredBeforePublished ==
  \A p \in Processes : pc[p] = "publish" => content[Mine(p)] = "stored"

\* File i of the plan of p is published, or was replaced by force.
Published(p, i) ==
  \/ target[Plan[p][i]] = <<p, i>>
  \/ \E q \in Processes \ {p} : force[q] /\ Exists(Plan[p][i])

EarlierArePublished ==
  \A p \in Processes : \A i \in DOMAIN Plan[p] :
    \/ pc[p] \in Writing /\ i < at[p]
    \/ pc[p] = "unlink" /\ i = at[p]
    \/ pc[p] = "done"
    => Published(p, i)

OutputInv ==
  /\ TypeOK /\ LiveIdsDiffer /\ StartsAtFirst /\ TempHasOwner
  /\ OthersLeaveMyTemp /\ StoredBeforePublished
  /\ TargetsAreWhole /\ EarlierArePublished

-----------------------------------------------------------------------------
LEMMA PlanFacts ==
  ASSUME NEW p \in Processes
  PROVE  /\ Plan[p] \in Seq(Paths) /\ Len(Plan[p]) \in Nat \ {0}
         /\ DOMAIN Plan[p] = 1..Len(Plan[p])
         /\ \A i \in DOMAIN Plan[p] : Plan[p][i] \in Paths /\ i \in Nat \ {0}
         /\ \A i, j \in DOMAIN Plan[p] : Plan[p][i] = Plan[p][j] => i = j
BY OutputFilesAssumption

LEMMA FileFacts ==
  /\ Nobody # Existing /\ Nobody \notin Files /\ Existing \notin Files
  /\ \A p \in Processes : \A i \in DOMAIN Plan[p] :
       <<p, i>> \in Files /\ <<p, i>> # Nobody
  /\ \A f \in Files : \E p \in Processes : \E i \in DOMAIN Plan[p] : f = <<p, i>>
<1>1. Nobody # Existing /\ \A p, i : Nobody # <<p, i>>
  BY DEF Nobody, Existing
<1>2. \A f \in Files : \E p \in Processes : \E i \in DOMAIN Plan[p] : f = <<p, i>>
  BY DEF Files
<1>3. \A p \in Processes : \A i \in DOMAIN Plan[p] : <<p, i>> \in Files
  BY DEF Files
<1>4. Existing \notin Files
  BY <1>2, PlanFacts DEF Existing
<1>5. QED
  BY <1>1, <1>2, <1>3, <1>4

LEMMA NameFacts ==
  ASSUME TypeOK, NEW p \in Processes
  PROVE  /\ at[p] \in Nat \ {0} /\ Goal(p) \in Paths
         /\ Mine(p) \in Files /\ Mine(p)[1] = p /\ Mine(p) # Nobody
         /\ TempName(p) \in TempNames
         /\ \A q \in Processes : TempName(q) = TempName(p) => pid[q] = pid[p]
<1>1. at[p] \in DOMAIN Plan[p]
  BY DEF TypeOK
<1>2. QED
  BY <1>1, PlanFacts, FileFacts DEF Goal, Mine, TempName, TempNames

-----------------------------------------------------------------------------
\* Whatever happens to the targets, what was published of other processes stays
\* so as long as only force replaces a file.
LEMMA PublishedStays ==
  ASSUME TypeOK, NEW p \in Processes, NEW i \in DOMAIN Plan[p], Published(p, i),
         force' = force, target' \in [Paths -> Files \cup {Nobody, Existing}],
         \A path \in Paths : target'[path] # target[path] =>
           \/ target[path] = Nobody
           \/ /\ target'[path] # Nobody
              /\ \E q \in Processes \ {p} : force[q]
  PROVE  Published(p, i)'
BY PlanFacts, FileFacts DEF Published, Exists

\* A process whose name and file are as before keeps what it knew of them.
LEMMA NamesStay ==
  ASSUME NEW p \in Processes, at'[p] = at[p], pid' = pid
  PROVE  /\ TempName(p)' = TempName(p) /\ Mine(p)' = Mine(p) /\ Goal(p)' = Goal(p)
BY DEF TempName, Mine, Goal

\* Steps before a file is created, and errors after, change places only.
LEMMA Quiet ==
  ASSUME OutputInv, NEW p \in Processes, NEW s \in States, GoTo(p, s),
         \/ pc[p] \in {"idle", "look", "begin", "create"}
         \/ pc[p] \in {"fill", "sync", "publish", "unlink"} /\ s = "cleanup" /\ at' = at,
         s \in {"look", "begin", "create", "cleanup", "failed"},
         s \in Live => (pc[p] \in Live \/ \A q \in Processes : pc[q] \in Live => pid[q] # pid[p]),
         at' \in [Processes -> Nat], at'[p] \in DOMAIN Plan[p],
         \A q \in Processes \ {p} : at'[q] = at[q],
         s \in Writing => at'[p] = 1 \/ (pc[p] \in Writing /\ at'[p] = at[p]),
         UNCHANGED <<force, pid, target, temp, content, stuck>>
  PROVE  OutputInv'
<1> USE DEF OutputInv
<1>1. /\ pc' \in [Processes -> States] /\ pc'[p] = s
      /\ \A q \in Processes : q # p => pc'[q] = pc[q] /\ at'[q] = at[q]
  BY DEF GoTo, TypeOK
<1>2. TypeOK'
  BY <1>1 DEF TypeOK, TempNames
<1>3. LiveIdsDiffer'
  BY <1>1 DEF LiveIdsDiffer, Live, Writing
<1>4. StartsAtFirst'
  BY <1>1 DEF StartsAtFirst
<1>5. TempHasOwner'
  <2> SUFFICES ASSUME NEW t \in TempNames, temp[t] # Nobody
               PROVE  \E q \in Processes :
                        /\ temp[t][1] = q
                        /\ \/ pc'[q] = "dead" \/ q \in stuck
                           \/ /\ pc'[q] \in {"fill", "sync", "publish", "unlink", "cleanup"}
                              /\ t = TempName(q)'
    BY DEF TempHasOwner, TempNames
  <2>1. PICK q \in Processes :
          /\ temp[t][1] = q
          /\ \/ pc[q] = "dead" \/ q \in stuck
             \/ /\ pc[q] \in {"fill", "sync", "publish", "unlink", "cleanup"}
                /\ t = TempName(q)
    BY DEF TempHasOwner
  <2>2. at'[q] = at[q] => TempName(q)' = TempName(q)
    BY NamesStay
  <2>3. QED
    BY <1>1, <2>1, <2>2 DEF Writing
<1>6. OthersLeaveMyTemp' /\ StoredBeforePublished'
  BY <1>1, NamesStay DEF OthersLeaveMyTemp, StoredBeforePublished
<1>7. TargetsAreWhole'
  BY DEF TargetsAreWhole
<1>8. EarlierArePublished'
  <2>1. \A q \in Processes : \A i \in DOMAIN Plan[q] : Published(q, i)' <=> Published(q, i)
    BY DEF Published, Exists
  <2>2. ASSUME NEW q \in Processes, NEW i \in DOMAIN Plan[q],
               \/ pc'[q] \in Writing /\ i < at'[q]
               \/ pc'[q] = "unlink" /\ i = at'[q]
               \/ pc'[q] = "done"
        PROVE  Published(q, i)
    <3>1. CASE q = p
      <4>1. i \in Nat \ {0}
        BY PlanFacts
      <4>2. pc[p] \in Writing /\ i < at[p]
        BY <1>1, <2>2, <3>1, <4>1
      <4>3. QED
        BY <3>1, <4>2 DEF EarlierArePublished
    <3>2. CASE q # p
      BY <1>1, <2>2, <3>2 DEF EarlierArePublished
    <3>3. QED
      BY <3>1, <3>2
  <2>3. QED
    BY <2>1, <2>2 DEF EarlierArePublished
<1>9. QED
  BY <1>2, <1>3, <1>4, <1>5, <1>6, <1>7, <1>8

-----------------------------------------------------------------------------
\* The end of a write: the temporary name is free again, and the next file of
\* the plan, if there is one, has its own.
LEMMA AdvanceFacts ==
  ASSUME OutputInv, NEW p \in Processes, Advance(p), pc[p] \in Writing
  PROVE  /\ pc' \in [Processes -> States] /\ at' \in [Processes -> Nat]
         /\ at'[p] \in DOMAIN Plan[p] /\ pc'[p] \in {"begin", "done"}
         /\ pc'[p] = "begin" => at'[p] = at[p] + 1
         /\ pc'[p] = "done" => at[p] = Len(Plan[p])
         /\ \A q \in Processes : q # p => pc'[q] = pc[q] /\ at'[q] = at[q]
<1>1. /\ at[p] \in 1..Len(Plan[p]) /\ DOMAIN Plan[p] = 1..Len(Plan[p])
      /\ Len(Plan[p]) \in Nat
      /\ at \in [Processes -> Nat] /\ pc \in [Processes -> States]
  BY PlanFacts DEF OutputInv, TypeOK
<1>2. "begin" \in States /\ "done" \in States
  BY DEF States, Live, Writing
<1>3. CASE at[p] < Len(Plan[p])
  BY <1>1, <1>2, <1>3 DEF Advance, GoTo
<1>4. CASE ~(at[p] < Len(Plan[p]))
  BY <1>1, <1>2, <1>4 DEF Advance, GoTo
<1>5. QED
  BY <1>3, <1>4

\* Other live processes use other temporary names.
LEMMA OwnTempName ==
  ASSUME OutputInv, NEW p \in Processes, pc[p] \in Live,
         NEW q \in Processes, pc[q] \in Live, q # p
  PROVE  TempName(q) # TempName(p)
BY NameFacts DEF OutputInv, LiveIdsDiffer

LEMMA RenamePreserves ==
  ASSUME OutputInv, NEW p \in Processes, pc[p] \in {"publish", "unlink"},
         pc[p] = "publish" => force[p] /\ SetTarget(p),
         pc[p] = "unlink" => target' = target,
         temp[TempName(p)] # Nobody, SetTemp(p, Nobody), Advance(p),
         UNCHANGED <<force, pid, content, stuck>>
  PROVE  OutputInv'
<1> USE DEF OutputInv
<1>0. PICK n \in DOMAIN Plan[p] : n = at[p]
  BY DEF TypeOK
<1>1. /\ pc' \in [Processes -> States] /\ at' \in [Processes -> Nat]
      /\ at'[p] \in DOMAIN Plan[p] /\ pc'[p] \in {"begin", "done"}
      /\ pc'[p] = "begin" => at'[p] = at[p] + 1
      /\ pc'[p] = "done" => at[p] = Len(Plan[p])
      /\ \A q \in Processes : q # p => pc'[q] = pc[q] /\ at'[q] = at[q]
  BY AdvanceFacts DEF Writing
<1>2. /\ at[p] \in Nat \ {0} /\ Goal(p) \in Paths /\ Mine(p) \in Files
      /\ Mine(p) # Nobody /\ TempName(p) \in TempNames
  BY NameFacts
<1>3. pc[p] = "publish" => temp[TempName(p)] = Mine(p) /\ content[Mine(p)] = "stored"
  BY DEF OthersLeaveMyTemp, StoredBeforePublished
<1>4. /\ pc[p] = "publish" => target' = [target EXCEPT ![Goal(p)] = Mine(p)]
      /\ temp' = [temp EXCEPT ![TempName(p)] = Nobody]
  BY <1>3 DEF SetTarget, SetTemp
<1>5. TypeOK'
  <2>1. target' \in [Paths -> Files \cup {Nobody, Existing}]
    BY <1>2, <1>4 DEF TypeOK
  <2>2. temp' \in [TempNames -> Files \cup {Nobody}]
    BY <1>2, <1>4 DEF TypeOK
  <2> TempNames' = TempNames
    BY DEF TempNames
  <2>3. QED
    BY <1>1, <2>1, <2>2 DEF TypeOK
<1>6. LiveIdsDiffer' /\ StartsAtFirst'
  BY <1>1 DEF LiveIdsDiffer, StartsAtFirst, Live, Writing
<1>7. TempHasOwner'
  <2> SUFFICES ASSUME NEW t \in TempNames, temp'[t] # Nobody
               PROVE  \E q \in Processes :
                        /\ temp'[t][1] = q
                        /\ \/ pc'[q] = "dead" \/ q \in stuck'
                           \/ /\ pc'[q] \in {"fill", "sync", "publish", "unlink", "cleanup"}
                              /\ t = TempName(q)'
    BY DEF TempHasOwner, TempNames
  <2>1. t # TempName(p) /\ temp'[t] = temp[t]
    BY <1>2, <1>4 DEF TypeOK
  <2>2. PICK q \in Processes :
          /\ temp[t][1] = q
          /\ \/ pc[q] = "dead" \/ q \in stuck
             \/ /\ pc[q] \in {"fill", "sync", "publish", "unlink", "cleanup"}
                /\ t = TempName(q)
    BY <2>1 DEF TempHasOwner
  <2>3. QED
    BY <1>1, <2>1, <2>2, NamesStay
<1>8. OthersLeaveMyTemp' /\ StoredBeforePublished'
  <2> SUFFICES ASSUME NEW q \in Processes, pc'[q] \in {"fill", "sync", "publish"}
               PROVE  /\ temp'[TempName(q)'] = Mine(q)'
                      /\ pc'[q] = "publish" => content'[Mine(q)'] = "stored"
    BY DEF OthersLeaveMyTemp, StoredBeforePublished
  <2>1. q # p /\ pc[q] = pc'[q] /\ at'[q] = at[q]
    BY <1>1
  <2>2. TempName(q) # TempName(p) /\ TempName(q) \in TempNames
    BY <2>1, OwnTempName, NameFacts DEF Live, Writing
  <2>3. QED
    BY <1>4, <2>1, <2>2, NamesStay DEF OthersLeaveMyTemp, StoredBeforePublished, TypeOK
<1>9. TargetsAreWhole'
  BY <1>2, <1>3, <1>4 DEF TargetsAreWhole, TypeOK
<1>10. EarlierArePublished'
  <2>1. /\ target' \in [Paths -> Files \cup {Nobody, Existing}]
        /\ pc[p] = "publish" => target'[Goal(p)] = Mine(p)
        /\ \A path \in Paths : target'[path] # target[path] =>
             path = Goal(p) /\ target'[path] # Nobody /\ force[p]
    BY <1>2, <1>4, <1>5 DEF TypeOK
  <2>2. Published(p, n)'
    <3>1. CASE pc[p] = "publish"
      BY <1>0, <2>1, <3>1 DEF Published, Goal, Mine
    <3>2. CASE pc[p] = "unlink"
      BY <1>0, <3>2 DEF EarlierArePublished, Published, Exists
    <3>3. QED
      BY <3>1, <3>2
  <2>3. ASSUME NEW i \in DOMAIN Plan[p], i < n
        PROVE  Published(p, i)'
    <3>1. Published(p, i)
      BY <1>0, <2>3 DEF EarlierArePublished, Writing
    <3>2. Plan[p][i] # Goal(p) /\ Plan[p][i] \in Paths
      BY <1>0, <1>2, <2>3, PlanFacts DEF Goal
    <3>3. QED
      BY <2>1, <3>1, <3>2 DEF Published, Exists
  <2>4. ASSUME NEW q \in Processes \ {p}, NEW i \in DOMAIN Plan[q], Published(q, i)
        PROVE  Published(q, i)'
    BY <2>1, <2>4, PublishedStays
  <2>5. SUFFICES ASSUME NEW q \in Processes, NEW i \in DOMAIN Plan[q],
                        \/ pc'[q] \in Writing /\ i < at'[q]
                        \/ pc'[q] = "unlink" /\ i = at'[q]
                        \/ pc'[q] = "done"
                 PROVE  Published(q, i)'
    BY DEF EarlierArePublished
  <2>6. CASE q = p
    <3>1. i \in 1..Len(Plan[p]) /\ Len(Plan[p]) \in Nat
      BY <2>6, PlanFacts
    <3>2. i <= n
      BY <1>0, <1>1, <1>2, <2>5, <2>6, <3>1
    <3>3. QED
      BY <1>0, <1>2, <2>2, <2>3, <2>6, <3>1, <3>2
  <2>7. CASE q # p
    BY <1>1, <2>4, <2>5, <2>7 DEF EarlierArePublished
  <2>8. QED
    BY <2>6, <2>7
<1>11. QED
  BY <1>5, <1>6, <1>7, <1>8, <1>9, <1>10

-----------------------------------------------------------------------------
\* What is written to a file of its own does not disturb another process: how
\* the contents, and one temporary name, may change.
LEMMA WritingPreserves ==
  ASSUME OutputInv, NEW p \in Processes, NEW s \in States, GoTo(p, s),
         \/ pc[p] = "create" /\ s = "fill" /\ temp[TempName(p)] = Nobody
            /\ SetTemp(p, Mine(p)) /\ content' = content
         \/ pc[p] = "fill" /\ s \in {"fill", "sync"} /\ temp' = temp
            /\ content[Mine(p)] # "stored"
            /\ \E c \in {"partial", "written"} : content' = [content EXCEPT ![Mine(p)] = c]
         \/ pc[p] = "sync" /\ s = "publish" /\ temp' = temp
            /\ content' = [content EXCEPT ![Mine(p)] = "stored"],
         UNCHANGED <<force, pid, at, target, stuck>>
  PROVE  OutputInv'
<1> USE DEF OutputInv
<1>1. /\ pc' \in [Processes -> States] /\ pc'[p] = s
      /\ s \in {"fill", "sync", "publish"} /\ pc[p] \in {"create", "fill", "sync"}
      /\ \A q \in Processes : q # p => pc'[q] = pc[q]
  BY DEF GoTo, TypeOK
<1>2. /\ Mine(p) \in Files /\ Mine(p)[1] = p /\ TempName(p) \in TempNames
      /\ TempNames' = TempNames
  <2>1. TempNames' = TempNames
    BY DEF TempNames
  <2>2. QED
    BY <2>1, NameFacts
<1>3. \A q \in Processes : TempName(q)' = TempName(q) /\ Mine(q)' = Mine(q)
  BY NamesStay
<1>4. /\ temp' \in [TempNames -> Files \cup {Nobody}]
      /\ content' \in [Files -> {"empty", "partial", "written", "stored"}]
      /\ \A t \in TempNames : temp'[t] # temp[t] =>
           t = TempName(p) /\ temp[t] = Nobody /\ temp'[t] = Mine(p) /\ s = "fill"
      /\ \A f \in Files : content[f] = "stored" => content'[f] = "stored"
      /\ s = "publish" => content'[Mine(p)] = "stored"
      /\ temp'[TempName(p)] = Mine(p)
  <2>1. pc[p] \in {"fill", "sync"} => temp[TempName(p)] = Mine(p)
    BY DEF OthersLeaveMyTemp
  <2>2. QED
    BY <1>1, <1>2, <2>1 DEF TypeOK, SetTemp
<1>5. TypeOK'
  BY <1>1, <1>2, <1>4 DEF TypeOK
<1>6. LiveIdsDiffer' /\ StartsAtFirst'
  BY <1>1 DEF LiveIdsDiffer, StartsAtFirst, Live, Writing
<1>7. TempHasOwner'
  <2> SUFFICES ASSUME NEW t \in TempNames, temp'[t] # Nobody
               PROVE  \E q \in Processes :
                        /\ temp'[t][1] = q
                        /\ \/ pc'[q] = "dead" \/ q \in stuck
                           \/ /\ pc'[q] \in {"fill", "sync", "publish", "unlink", "cleanup"}
                              /\ t = TempName(q)
    BY <1>2, <1>3 DEF TempHasOwner
  <2>1. CASE temp'[t] # temp[t]
    BY <1>1, <1>2, <1>4, <2>1
  <2>2. CASE temp'[t] = temp[t]
    BY <1>1, <2>2 DEF TempHasOwner
  <2>3. QED
    BY <2>1, <2>2
<1>8. OthersLeaveMyTemp' /\ StoredBeforePublished'
  <2> SUFFICES ASSUME NEW q \in Processes, pc'[q] \in {"fill", "sync", "publish"}
               PROVE  /\ temp'[TempName(q)] = Mine(q)
                      /\ pc'[q] = "publish" => content'[Mine(q)] = "stored"
    BY <1>3 DEF OthersLeaveMyTemp, StoredBeforePublished
  <2>1. CASE q = p
    BY <1>1, <1>4, <2>1
  <2>2. CASE q # p
    <3>1. TempName(q) # TempName(p) /\ TempName(q) \in TempNames /\ Mine(q) \in Files
      BY <1>1, <2>2, OwnTempName, NameFacts DEF Live, Writing
    <3>2. QED
      BY <1>1, <1>4, <2>2, <3>1 DEF OthersLeaveMyTemp, StoredBeforePublished
  <2>3. QED
    BY <2>1, <2>2
<1>9. TargetsAreWhole'
  BY <1>4 DEF TargetsAreWhole, TypeOK
<1>10. EarlierArePublished'
  <2>1. \A q \in Processes : \A i \in DOMAIN Plan[q] : Published(q, i)' <=> Published(q, i)
    BY DEF Published, Exists
  <2>2. QED
    BY <1>1, <2>1 DEF EarlierArePublished, Writing
<1>11. QED
  BY <1>5, <1>6, <1>7, <1>8, <1>9, <1>10

\* A hard link takes a name that nothing has.
LEMMA LinkPreserves ==
  ASSUME OutputInv, NEW p \in Processes, pc[p] = "publish",
         temp[TempName(p)] # Nobody, ~Exists(Goal(p)), SetTarget(p), GoTo(p, "unlink"),
         UNCHANGED <<force, pid, at, temp, content, stuck>>
  PROVE  OutputInv'
<1> USE DEF OutputInv
<1>0. PICK n \in DOMAIN Plan[p] : n = at[p]
  BY DEF TypeOK
<1>1. /\ pc' \in [Processes -> States] /\ pc'[p] = "unlink"
      /\ \A q \in Processes : q # p => pc'[q] = pc[q]
  BY DEF GoTo, TypeOK, States, Live, Writing
<1>2. /\ Goal(p) \in Paths /\ Mine(p) \in Files /\ Mine(p) # Nobody
      /\ temp[TempName(p)] = Mine(p) /\ content[Mine(p)] = "stored"
  BY NameFacts DEF OthersLeaveMyTemp, StoredBeforePublished
<1>3. target' = [target EXCEPT ![Goal(p)] = Mine(p)] /\ target[Goal(p)] = Nobody
  BY <1>2 DEF SetTarget, Exists
<1>4. \A q \in Processes : TempName(q)' = TempName(q) /\ Mine(q)' = Mine(q)
  BY NamesStay
<1>5. TypeOK'
  <2>1. target' \in [Paths -> Files \cup {Nobody, Existing}]
    BY <1>2, <1>3 DEF TypeOK
  <2>2. TempNames' = TempNames
    BY DEF TempNames
  <2>3. QED
    BY <1>1, <2>1, <2>2 DEF TypeOK
<1>6. LiveIdsDiffer' /\ StartsAtFirst' /\ OthersLeaveMyTemp' /\ StoredBeforePublished'
  BY <1>1, <1>4
     DEF LiveIdsDiffer, StartsAtFirst, OthersLeaveMyTemp, StoredBeforePublished, Live, Writing
<1>7. TempHasOwner'
  <2>1. TempNames' = TempNames
    BY DEF TempNames
  <2>2. QED
    BY <1>1, <1>4, <2>1 DEF TempHasOwner
<1>8. TargetsAreWhole'
  BY <1>2, <1>3 DEF TargetsAreWhole, TypeOK
<1>9. EarlierArePublished'
  <2>1. target' \in [Paths -> Files \cup {Nobody, Existing}] /\ target'[Goal(p)] = Mine(p)
    BY <1>2, <1>5, <1>3 DEF TypeOK
  <2>2. \A path \in Paths : target'[path] # target[path] => target[path] = Nobody
    BY <1>2, <1>3 DEF TypeOK
  <2>3. ASSUME NEW q \in Processes, NEW i \in DOMAIN Plan[q], Published(q, i)
        PROVE  Published(q, i)'
    BY <2>1, <2>2, <2>3, PublishedStays
  <2>4. Published(p, n)'
    BY <1>0, <2>1 DEF Published, Goal, Mine
  <2>5. QED
    BY <1>0, <1>1, <2>3, <2>4 DEF EarlierArePublished, Writing
<1>10. QED
  BY <1>5, <1>6, <1>7, <1>8, <1>9

\* The error path removes a name, of a file that cannot be one another process
\* is at.
LEMMA CleanupPreserves ==
  ASSUME OutputInv, NEW p \in Processes, Cleanup(p), UNCHANGED <<force, pid>>
  PROVE  OutputInv'
<1> USE DEF OutputInv
<1>1. /\ pc' \in [Processes -> States] /\ pc[p] = "cleanup" /\ pc'[p] = "failed"
      /\ \A q \in Processes : q # p => pc'[q] = pc[q]
      /\ UNCHANGED <<at, target, content>>
  BY DEF Cleanup, GoTo, TypeOK, States, Live, Writing
<1>2. TempName(p) \in TempNames
  BY NameFacts
<1>3. /\ temp' \in [TempNames -> Files \cup {Nobody}] /\ stuck' \in SUBSET Processes
      /\ stuck \subseteq stuck'
      /\ \A t \in TempNames : temp'[t] # temp[t] => t = TempName(p) /\ temp'[t] = Nobody
      /\ temp'[TempName(p)] = Nobody \/ p \in stuck'
  <2>1. temp \in [TempNames -> Files \cup {Nobody}] /\ stuck \in SUBSET Processes
    BY DEF TypeOK
  <2> HIDE DEF OutputInv
  <2>2. CASE temp' = [temp EXCEPT ![TempName(p)] = Nobody] /\ stuck' = stuck
    BY <1>2, <2>1, <2>2
  <2>3. CASE stuck' = stuck \cup {p} /\ temp' = temp
    BY <2>1, <2>3
  <2>4. QED
    BY <2>2, <2>3 DEF Cleanup, SetTemp
<1>4. /\ TempNames' = TempNames
      /\ \A q \in Processes : TempName(q)' = TempName(q) /\ Mine(q)' = Mine(q)
  <2>1. TempNames' = TempNames
    BY DEF TempNames
  <2>2. QED
    BY <1>1, <2>1, NamesStay
<1>5. TypeOK'
  BY <1>1, <1>3, <1>4 DEF TypeOK
<1>6. LiveIdsDiffer' /\ StartsAtFirst' /\ TargetsAreWhole'
  BY <1>1 DEF LiveIdsDiffer, StartsAtFirst, TargetsAreWhole, Live, Writing
<1>7. TempHasOwner'
  BY <1>1, <1>3, <1>4 DEF TempHasOwner
<1>8. OthersLeaveMyTemp' /\ StoredBeforePublished'
  <2> SUFFICES ASSUME NEW q \in Processes, pc'[q] \in {"fill", "sync", "publish"}
               PROVE  temp'[TempName(q)] = temp[TempName(q)] /\ pc[q] = pc'[q]
    BY <1>1, <1>4 DEF OthersLeaveMyTemp, StoredBeforePublished
  <2>1. q # p /\ pc[q] = pc'[q]
    BY <1>1
  <2>2. TempName(q) # TempName(p) /\ TempName(q) \in TempNames
    BY <1>1, <2>1, OwnTempName, NameFacts DEF Live, Writing
  <2>3. QED
    BY <1>3, <2>1, <2>2
<1>9. EarlierArePublished'
  <2>1. \A q \in Processes : \A i \in DOMAIN Plan[q] : Published(q, i)' <=> Published(q, i)
    BY <1>1 DEF Published, Exists
  <2>2. QED
    BY <1>1, <2>1 DEF EarlierArePublished, Writing
<1>10. QED
  BY <1>5, <1>6, <1>7, <1>8, <1>9

\* Processes die, and what was not stored may be lost.
LEMMA DeathPreserves ==
  ASSUME OutputInv,
         pc' \in [Processes -> States],
         \A q \in Processes : pc'[q] # pc[q] => pc[q] \in Live /\ pc'[q] = "dead",
         content' \in [Files -> {"empty", "partial", "written", "stored"}],
         \A f \in Files : content[f] = "stored" => content'[f] = "stored",
         UNCHANGED <<force, pid, at, target, temp, stuck>>
  PROVE  OutputInv'
<1> USE DEF OutputInv
<1>1. /\ TempNames' = TempNames
      /\ \A q \in Processes : TempName(q)' = TempName(q) /\ Mine(q)' = Mine(q)
  <2>1. TempNames' = TempNames
    BY DEF TempNames
  <2>2. QED
    BY <2>1, NamesStay
<1>2. TypeOK'
  BY <1>1 DEF TypeOK
<1>3. LiveIdsDiffer' /\ StartsAtFirst'
  BY DEF LiveIdsDiffer, StartsAtFirst, Live, Writing
<1>4. TempHasOwner'
  BY <1>1 DEF TempHasOwner
<1>5. OthersLeaveMyTemp' /\ StoredBeforePublished'
  BY <1>1, NameFacts DEF OthersLeaveMyTemp, StoredBeforePublished
<1>6. TargetsAreWhole'
  BY DEF TargetsAreWhole, TypeOK
<1>7. EarlierArePublished'
  <2>1. \A q \in Processes : \A i \in DOMAIN Plan[q] : Published(q, i)' <=> Published(q, i)
    BY DEF Published, Exists
  <2>2. QED
    BY <2>1 DEF EarlierArePublished, Writing
<1>8. QED
  BY <1>2, <1>3, <1>4, <1>5, <1>6, <1>7

-----------------------------------------------------------------------------
LEMMA StepPreserves ==
  ASSUME OutputInv, NEW p \in Processes, Step(p), UNCHANGED <<force, pid>>
  PROVE  OutputInv'
<1>1. /\ at[p] \in DOMAIN Plan[p] /\ DOMAIN Plan[p] = 1..Len(Plan[p])
      /\ Len(Plan[p]) \in Nat \ {0} /\ at \in [Processes -> Nat]
      /\ pc[p] = "idle" => at[p] = 1
  BY PlanFacts DEF OutputInv, TypeOK, StartsAtFirst
<1>2. /\ pc \in [Processes -> States]
      /\ \A s \in Live \cup {"done", "failed", "dead"} : s \in States
  BY DEF OutputInv, TypeOK, States
<1>3. CASE Start(p)
  <2>1. /\ pc[p] = "idle" /\ \A q \in Processes : pc[q] \in Live => pid[q] # pid[p]
        /\ UNCHANGED <<at, target, temp, content, stuck>>
        /\ GoTo(p, "begin") \/ GoTo(p, "look")
    BY <1>3 DEF Start
  <2>2. CASE GoTo(p, "begin")
    BY <1>1, <1>2, <2>1, <2>2, Quiet DEF Live, Writing
  <2>3. CASE GoTo(p, "look")
    BY <1>1, <1>2, <2>1, <2>3, Quiet DEF Live, Writing
  <2>4. QED
    BY <2>1, <2>2, <2>3
<1>4. CASE Look(p)
  <2>1. CASE Exists(Goal(p))
    BY <1>1, <1>2, <1>4, <2>1, Quiet DEF Look, Live, Writing
  <2>2. CASE ~Exists(Goal(p)) /\ at[p] < Len(Plan[p])
    <3>1. GoTo(p, "look")
      <4>1. pc[p] = "look" /\ pc' = pc
        BY <1>1, <1>4, <2>2 DEF Look
      <4>2. QED
        BY <1>2, <4>1 DEF GoTo
    <3>2. at'[p] \in DOMAIN Plan[p] /\ at' \in [Processes -> Nat]
      BY <1>1, <1>4, <2>2 DEF Look
    <3>3. QED
      BY <1>1, <1>2, <1>4, <2>2, <3>1, <3>2, Quiet DEF Look, Live, Writing
  <2>3. CASE ~Exists(Goal(p)) /\ at[p] = Len(Plan[p])
    BY <1>1, <1>2, <1>4, <2>3, Quiet DEF Look, Live, Writing
  <2>4. QED
    BY <1>4, <2>1, <2>2, <2>3 DEF Look
<1>5. CASE Begin(p)
  BY <1>1, <1>2, <1>5, Quiet DEF Begin, Live, Writing
<1>6. CASE Create(p)
  <2>1. CASE temp[TempName(p)] = Nobody /\ SetTemp(p, Mine(p)) /\ GoTo(p, "fill")
             /\ UNCHANGED <<at, target, content, stuck>>
    BY <1>2, <1>6, <2>1, WritingPreserves DEF Create, Live, Writing
  <2>2. CASE GoTo(p, "cleanup") /\ UNCHANGED <<at, target, temp, content, stuck>>
    BY <1>1, <1>2, <1>6, <2>2, Quiet DEF Create, Live, Writing
  <2>3. QED
    BY <1>6, <2>1, <2>2 DEF Create, Broken
<1>7. CASE Fill(p)
  <2>1. CASE content[Mine(p)] = "empty"
             /\ content' = [content EXCEPT ![Mine(p)] = "partial"]
             /\ UNCHANGED <<pc, at, target, temp, stuck>>
    <3>1. GoTo(p, "fill")
      <4>1. pc[p] = "fill" /\ pc' = pc
        BY <1>7, <2>1 DEF Fill
      <4>2. QED
        BY <1>2, <4>1 DEF GoTo
    <3>2. QED
      BY <1>2, <1>7, <2>1, <3>1, WritingPreserves DEF Fill, Live, Writing
  <2>2. CASE content[Mine(p)] = "partial"
             /\ content' = [content EXCEPT ![Mine(p)] = "written"]
             /\ GoTo(p, "sync") /\ UNCHANGED <<at, target, temp, stuck>>
    BY <1>2, <1>7, <2>2, WritingPreserves DEF Fill, Live, Writing
  <2>3. CASE GoTo(p, "cleanup") /\ UNCHANGED <<at, target, temp, content, stuck>>
    BY <1>1, <1>2, <1>7, <2>3, Quiet DEF Fill, Live, Writing
  <2>4. QED
    BY <1>7, <2>1, <2>2, <2>3 DEF Fill, Broken
<1>8. CASE Sync(p)
  <2>1. CASE content' = [content EXCEPT ![Mine(p)] = "stored"]
             /\ GoTo(p, "publish") /\ UNCHANGED <<at, target, temp, stuck>>
    BY <1>2, <1>8, <2>1, WritingPreserves DEF Sync, Live, Writing
  <2>2. CASE GoTo(p, "cleanup") /\ UNCHANGED <<at, target, temp, content, stuck>>
    BY <1>1, <1>2, <1>8, <2>2, Quiet DEF Sync, Live, Writing
  <2>3. QED
    BY <1>8, <2>1, <2>2 DEF Sync, Broken
<1>9. CASE Rename(p)
  <2>1. CASE GoTo(p, "cleanup") /\ UNCHANGED <<at, target, temp, content, stuck>>
    BY <1>1, <1>2, <1>9, <2>1, Quiet DEF Rename, Live, Writing
  <2>2. QED
    BY <1>9, <2>1, RenamePreserves DEF Rename, Broken
<1>10. CASE HardLink(p)
  <2>1. CASE GoTo(p, "cleanup") /\ UNCHANGED <<at, target, temp, content, stuck>>
    BY <1>1, <1>2, <1>10, <2>1, Quiet DEF HardLink, Live, Writing
  <2>2. QED
    BY <1>10, <2>1, LinkPreserves DEF HardLink, Broken
<1>11. CASE Unlink(p)
  <2>1. CASE GoTo(p, "cleanup") /\ UNCHANGED <<at, target, temp, content, stuck>>
    BY <1>1, <1>2, <1>11, <2>1, Quiet DEF Unlink, Live, Writing
  <2>2. QED
    BY <1>11, <2>1, RenamePreserves DEF Unlink, Broken
<1>12. CASE Cleanup(p)
  BY <1>12, CleanupPreserves
<1>13. CASE Kill(p)
  <2>1. /\ pc' \in [Processes -> States]
        /\ \A q \in Processes : pc'[q] # pc[q] => pc[q] \in Live /\ pc'[q] = "dead"
    <3>1. pc[p] \in Live /\ pc' = [pc EXCEPT ![p] = "dead"] /\ "dead" \in States
      BY <1>2, <1>13 DEF Kill, GoTo
    <3>2. QED
      BY <1>2, <3>1
  <2>2. QED
    BY <1>13, <2>1, DeathPreserves DEF Kill, OutputInv, TypeOK
<1>14. QED
  BY <1>3, <1>4, <1>5, <1>6, <1>7, <1>8, <1>9, <1>10, <1>11, <1>12, <1>13 DEF Step

\* What writes hold at every step, whatever fails, is killed or loses power.
THEOREM OutputInvariant == Spec => []OutputInv
<1>1. Init => OutputInv
  <2> SUFFICES ASSUME Init PROVE OutputInv
    OBVIOUS
  <2>1. /\ force \in [Processes -> BOOLEAN] /\ pc = [p \in Processes |-> "idle"]
        /\ \A p \in Processes : at[p] = 1 /\ 1 \in DOMAIN Plan[p]
    BY OutputFilesAssumption, PlanFacts DEF Init
  <2>2. TypeOK
    BY <2>1 DEF Init, TypeOK, States
  <2>3. QED
    BY <2>1, <2>2 DEF Init, OutputInv, LiveIdsDiffer, StartsAtFirst, TempHasOwner,
       OthersLeaveMyTemp, StoredBeforePublished, TargetsAreWhole, EarlierArePublished,
       Live, Writing
<1>2. OutputInv /\ [Next]_vars => OutputInv'
  <2> SUFFICES ASSUME OutputInv, [Next]_vars PROVE OutputInv'
    OBVIOUS
  <2>1. CASE UNCHANGED vars
    <3>1. /\ pc \in [Processes -> States]
          /\ content \in [Files -> {"empty", "partial", "written", "stored"}]
      BY DEF OutputInv, TypeOK
    <3>2. UNCHANGED <<force, pid, pc, at, target, temp, content, stuck>>
      BY <2>1 DEF vars
    <3>3. QED
      BY <3>1, <3>2, DeathPreserves
  <2>2. CASE PowerLoss /\ UNCHANGED <<force, pid>>
    <3>1. /\ pc' \in [Processes -> States]
          /\ \A q \in Processes : pc'[q] # pc[q] => pc[q] \in Live /\ pc'[q] = "dead"
      <4>1. pc \in [Processes -> States] /\ "dead" \in States
        BY DEF OutputInv, TypeOK, States
      <4>2. pc' = [p \in Processes |-> IF pc[p] \in Live THEN "dead" ELSE pc[p]]
        BY <2>2 DEF PowerLoss
      <4>3. QED
        BY <4>1, <4>2
    <3>2. /\ content' \in [Files -> {"empty", "partial", "written", "stored"}]
          /\ \A f \in Files : content[f] = "stored" => content'[f] = "stored"
      BY <2>2 DEF PowerLoss, OutputInv, TypeOK
    <3>3. QED
      BY <2>2, <3>1, <3>2, DeathPreserves DEF PowerLoss
  <2>3. QED
    BY <2>1, <2>2, StepPreserves DEF Next, Ended
<1>3. QED
  BY <1>1, <1>2, PTL DEF Spec

\* What a destination stands for is complete and stored, whichever processes
\* race, whichever calls fail and whenever the power does.
THEOREM WholeTargets == Spec => []TargetsAreWhole
BY OutputInvariant, PTL DEF OutputInv

\* Success means that every file of the plan is at its place, or was replaced
\* by force since.
THEOREM Written == Spec => []SuccessMeansWritten
<1>1. OutputInv => SuccessMeansWritten
  BY DEF OutputInv, EarlierArePublished, Published, SuccessMeansWritten
<1>2. QED
  BY <1>1, OutputInvariant, PTL

\* A temporary file that is left has a live or a killed owner, or could not be
\* removed.
THEOREM Litter == Spec => []NoLitter
<1>1. OutputInv => NoLitter
  BY DEF OutputInv, TempHasOwner, NoLitter, Writing
<1>2. QED
  BY <1>1, OutputInvariant, PTL

\* A destination that exists is replaced only under --force, although it is
\* looked for long before it is written.
THEOREM NothingReplaced == Spec => ExistingIsKept
<1> DEFINE Keeps == \A path \in Paths :
              Exists(path) /\ target'[path] # target[path] =>
                \E p \in Processes : force[p] /\ target'[path] = <<p, at[p]>>
<1>1. OutputInv /\ [Next]_vars => [Keeps]_vars
  <2> SUFFICES ASSUME OutputInv, Next, NEW path \in Paths, Exists(path),
                      target'[path] # target[path]
               PROVE  \E p \in Processes : force[p] /\ target'[path] = <<p, at[p]>>
    BY DEF vars
  <2>1. PICK p \in Processes : Step(p)
    BY DEF Next, PowerLoss, Ended, vars
  <2>2. Rename(p) \/ HardLink(p)
    BY <2>1 DEF Step, Start, Look, Begin, Create, Fill, Sync, Unlink, Cleanup, Kill, Broken
  <2>3. pc[p] = "publish" /\ SetTarget(p) /\ (force[p] \/ ~Exists(Goal(p)))
    BY <2>2 DEF Rename, HardLink, Broken
  <2>4. target \in [Paths -> Files \cup {Nobody, Existing}] /\ Goal(p) \in Paths
    BY NameFacts DEF OutputInv, TypeOK
  <2>5. path = Goal(p) /\ target'[path] = Mine(p)
    BY <2>3, <2>4 DEF SetTarget, OutputInv, OthersLeaveMyTemp
  <2>6. QED
    BY <2>3, <2>5 DEF Mine
<1>2. QED
  BY <1>1, OutputInvariant, PTL DEF Spec, ExistingIsKept
=============================================================================
