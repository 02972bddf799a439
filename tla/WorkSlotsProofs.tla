-------------------------- MODULE WorkSlotsProofs ---------------------------
(***************************************************************************)
(* Proofs about WorkSlots, for any number of requests, slots and threads.  *)
(***************************************************************************)
EXTENDS WorkSlots, FiniteSetTheorems, TLAPS

-----------------------------------------------------------------------------
(* Queues that hold a set, each element once.                              *)

\* The queue holds exactly the elements of S, each once.
Lists(queue, S) ==
  /\ {queue[i] : i \in DOMAIN queue} = S
  /\ \A i, j \in DOMAIN queue : queue[i] = queue[j] => i = j

LEMMA ListsAppend ==
  ASSUME NEW q \in Seq(Requests), NEW r \in Requests, NEW S, r \notin S, Lists(q, S)
  PROVE  Lists(Append(q, r), S \cup {r})
<1> DEFINE n == Len(q)
           a == Append(q, r)
<1>1. /\ n \in Nat /\ DOMAIN q = 1..n /\ DOMAIN a = 1..n + 1
      /\ \A i \in 1..n : a[i] = q[i] /\ q[i] \in S
      /\ a[n + 1] = r
  BY DEF Lists
<1>2. {a[i] : i \in DOMAIN a} = S \cup {r}
  <2>1. \A i \in DOMAIN a : a[i] \in S \cup {r}
    BY <1>1
  <2>2. \A x \in S : \E i \in DOMAIN a : a[i] = x
    BY <1>1 DEF Lists
  <2>3. QED
    BY <1>1, <2>1, <2>2
<1>3. ASSUME NEW i \in DOMAIN a, NEW j \in DOMAIN a, a[i] = a[j]
      PROVE  i = j
  <2>1. CASE i \in 1..n /\ j \in 1..n
    BY <1>1, <1>3, <2>1 DEF Lists
  <2>2. CASE i = n + 1 \/ j = n + 1
    BY <1>1, <1>3, <2>2
  <2>3. QED
    BY <1>1, <2>1, <2>2
<1>4. QED
  BY <1>2, <1>3 DEF Lists

\* A queue without one of its places lists the set without the element there.
LEMMA ListsDrop ==
  ASSUME NEW q \in Seq(Requests), NEW S, Lists(q, S), NEW place \in DOMAIN q,
         NEW w \in Seq(Requests), Len(w) = Len(q) - 1,
         \A i \in 1..Len(q) - 1 : w[i] = IF i < place THEN q[i] ELSE q[i + 1]
  PROVE  /\ q[place] \in S
         /\ Lists(w, S \ {q[place]})
<1> DEFINE n == Len(q)
<1>1. n \in Nat /\ DOMAIN q = 1..n /\ n >= 1 /\ \A i \in 1..n : q[i] \in Requests
  OBVIOUS
<1>2. /\ DOMAIN w = 1..n - 1
      /\ \A i \in 1..n - 1 : w[i] = IF i < place THEN q[i] ELSE q[i + 1]
  BY <1>1
<1>3. {w[i] : i \in DOMAIN w} = S \ {q[place]}
  <2>1. ASSUME NEW i \in DOMAIN w
        PROVE  w[i] \in S \ {q[place]}
    <3>1. PICK j \in 1..n : j # place /\ w[i] = q[j]
      BY <1>1, <1>2
    <3>2. QED
      BY <1>1, <3>1 DEF Lists
  <2>2. ASSUME NEW x \in S \ {q[place]}
        PROVE  \E i \in DOMAIN w : w[i] = x
    <3>1. PICK j \in 1..n : q[j] = x /\ j # place
      BY <1>1 DEF Lists
    <3>2. CASE j < place
      <4>1. j \in 1..n - 1 /\ w[j] = x
        BY <1>1, <1>2, <3>1, <3>2
      <4>2. QED
        BY <1>2, <4>1
    <3>3. CASE j > place
      <4>1. j - 1 \in 1..n - 1 /\ ~(j - 1 < place) /\ (j - 1) + 1 = j
        BY <1>1, <3>1, <3>3
      <4>2. w[j - 1] = x
        BY <1>2, <3>1, <4>1
      <4>3. QED
        BY <1>2, <4>1, <4>2
    <3>4. QED
      BY <1>1, <3>1, <3>2, <3>3
  <2>3. QED
    BY <2>1, <2>2
<1>4. ASSUME NEW i \in DOMAIN w, NEW j \in DOMAIN w, w[i] = w[j]
      PROVE  i = j
  <2> DEFINE At(k) == IF k < place THEN k ELSE k + 1
  <2>1. /\ At(i) \in 1..n /\ At(j) \in 1..n
        /\ w[i] = q[At(i)] /\ w[j] = q[At(j)]
    BY <1>1, <1>2
  <2>2. At(i) = At(j)
    BY <1>1, <1>4, <2>1 DEF Lists
  <2>3. QED
    BY <1>1, <1>2, <2>2
<1>5. QED
  BY <1>1, <1>3, <1>4 DEF Lists

LEMMA ListsWithout ==
  ASSUME NEW q \in Seq(Requests), NEW S, Lists(q, S), NEW place \in DOMAIN q
  PROVE  /\ Without(q, place) \in Seq(Requests)
         /\ Lists(Without(q, place), S \ {q[place]})
<1> DEFINE w == Without(q, place)
<1>1. Len(q) - 1 \in Nat /\ \A i \in 1..Len(q) : q[i] \in Requests
  OBVIOUS
<1>2. w \in [1..Len(q) - 1 -> Requests]
  BY <1>1 DEF Without
<1>3. w \in Seq(Requests) /\ Len(w) = Len(q) - 1
  BY <1>1, <1>2
<1>4. \A i \in 1..Len(q) - 1 : w[i] = IF i < place THEN q[i] ELSE q[i + 1]
  BY DEF Without
<1>5. QED
  BY <1>3, <1>4, ListsDrop

LEMMA ListsTail ==
  ASSUME NEW q \in Seq(Requests), NEW S, Lists(q, S), q # <<>>
  PROVE  /\ Tail(q) \in Seq(Requests)
         /\ Head(q) \in S /\ Head(q) \in Requests
         /\ Lists(Tail(q), S \ {Head(q)})
<1> DEFINE t == Tail(q)
<1>1. 1 \in DOMAIN q /\ Head(q) = q[1] /\ q[1] \in Requests
  OBVIOUS
<1>2. /\ t \in Seq(Requests) /\ Len(t) = Len(q) - 1
      /\ \A i \in 1..Len(q) - 1 : t[i] = IF i < 1 THEN q[i] ELSE q[i + 1]
  OBVIOUS
<1>3. QED
  BY <1>1, <1>2, ListsDrop

-----------------------------------------------------------------------------
(* The inductive invariant.                                                *)

\* A task waits in the queue only while no permit is free: a release that
\* forgot the queue would leave it waiting for ever.
NoIdlePermit == waiters # <<>> => permits = 0

\* The semaphore's queue holds exactly the waiting tasks, each once: a cancelled
\* task is never granted a permit that nobody would give back.
Waiting == {r \in Requests : task[r] = "waiting"}
QueueIsWaiting == Lists(waiters, Waiting)

\* The pool's backlog holds exactly the jobs that wait for a thread, each once,
\* and a task that has not handed its work over has no job.
BacklogIsQueued ==
  /\ Lists(backlog, {r \in Requests : job[r] = "queued"})
  /\ \A r \in Requests :
       task[r] \in {"idle", "reading", "waiting", "granted"} => job[r] = "none"

\* The permit ledger with the two queues it is kept by.
SlotInv ==
  /\ TypeOK
  /\ QueueIsWaiting
  /\ BacklogIsQueued
  /\ NoIdlePermit
  /\ PermitsConserved

\* A permit that comes back is free again or with the first waiter, who was
\* waiting and is granted it.
LEMMA ReleaseFacts ==
  ASSUME SlotInv,
         NEW others \in [Requests -> TaskStates],
         {r \in Requests : others[r] = "waiting"} = Waiting,
         NEW held, held = {r \in Requests : others[r] = "granted"},
         Release(waiters, others)
  PROVE  /\ task' \in [Requests -> TaskStates] /\ permits' \in Nat
         /\ waiters' \in Seq(Requests)
         /\ QueueIsWaiting' /\ NoIdlePermit'
         /\ permits' + Cardinality(Granted')
              = permits + Cardinality(held) + 1
         /\ \A r \in Requests : \/ task'[r] = others[r]
                                \/ task'[r] = "granted" /\ task[r] = "waiting"
<1> USE DEF SlotInv, TypeOK
<1>1. CASE waiters = <<>>
  <2>1. permits' = permits + 1 /\ waiters' = <<>> /\ task' = others
    BY <1>1 DEF Release
  <2>2. Granted' = held /\ Waiting' = Waiting
    BY <2>1 DEF Granted, Waiting
  <2>3. IsFiniteSet(held)
    BY FS_Subset, WorkSlotsAssumption
  <2>4. Cardinality(held) \in Nat
    BY <2>3, FS_CardinalityType
  <2>5. QED
    BY <1>1, <2>1, <2>2, <2>4 DEF QueueIsWaiting, NoIdlePermit
<1>2. CASE waiters # <<>>
  <2> DEFINE h == Head(waiters)
  <2>1. /\ permits' = permits /\ waiters' = Tail(waiters)
        /\ task' = [others EXCEPT ![h] = "granted"]
    BY <1>2 DEF Release
  <2>2. /\ Tail(waiters) \in Seq(Requests) /\ h \in Waiting /\ h \in Requests
        /\ Lists(Tail(waiters), Waiting \ {h})
    BY <1>2, ListsTail DEF QueueIsWaiting
  <2>3. others[h] = "waiting" /\ task[h] = "waiting"
    BY <2>2 DEF Waiting
  <2>4. permits = 0
    BY <1>2 DEF NoIdlePermit
  <2>5. Granted' = held \cup {h} /\ h \notin held
    BY <2>1, <2>2, <2>3 DEF Granted
  <2>6. Waiting' = Waiting \ {h}
    BY <2>1, <2>2, <2>3 DEF Waiting
  <2>7. IsFiniteSet(held)
    BY FS_Subset, WorkSlotsAssumption
  <2>8. Cardinality(Granted') = Cardinality(held) + 1 /\ Cardinality(held) \in Nat
    BY <2>5, <2>7, FS_AddElement, FS_CardinalityType
  <2>9. task' \in [Requests -> TaskStates]
    BY <2>1, <2>2 DEF TaskStates
  <2>10. \A r \in Requests : task'[r] = others[r] \/ r = h
    BY <2>1
  <2>11. QED
    BY <2>1, <2>2, <2>3, <2>4, <2>6, <2>8, <2>9, <2>10
       DEF QueueIsWaiting, NoIdlePermit
<1>3. QED
  BY <1>1, <1>2

\* Handing the work over turns a task without a job into one more active job.
LEMMA HandOverFacts ==
  ASSUME SlotInv, NEW r \in Requests, job[r] = "none", HandOver(r),
         task' = [task EXCEPT ![r] = "joining"]
  PROVE  /\ job' \in [Requests -> JobStates] /\ backlog' \in Seq(Requests)
         /\ BacklogIsQueued'
         /\ Cardinality(Active') = Cardinality(Active) + 1
<1> DEFINE queued == {q \in Requests : job[q] = "queued"}
<1> USE DEF SlotInv, TypeOK
<1>1. job' = [job EXCEPT ![r] = "queued"] /\ backlog' = Append(backlog, r)
  BY DEF HandOver
<1>2. Active' = Active \cup {r} /\ r \notin Active
  BY <1>1 DEF Active
<1>3. IsFiniteSet(Active)
  BY FS_Subset, WorkSlotsAssumption DEF Active
<1>4. Cardinality(Active') = Cardinality(Active) + 1
  BY <1>2, <1>3, FS_AddElement
<1>5. {q \in Requests : job'[q] = "queued"} = queued \cup {r} /\ r \notin queued
  BY <1>1
<1>6. Lists(backlog', queued \cup {r})
  BY <1>1, <1>5, ListsAppend DEF BacklogIsQueued
<1>7. \A q \in Requests :
        task'[q] \in {"idle", "reading", "waiting", "granted"} => job'[q] = "none"
  BY <1>1 DEF BacklogIsQueued
<1>8. BacklogIsQueued'
  BY <1>5, <1>6, <1>7 DEF BacklogIsQueued
<1>9. job' \in [Requests -> JobStates] /\ backlog' \in Seq(Requests)
  BY <1>1 DEF JobStates
<1>10. QED
  BY <1>4, <1>8, <1>9

LEMMA CardinalityFacts ==
  ASSUME SlotInv
  PROVE  /\ IsFiniteSet(Granted) /\ Cardinality(Granted) \in Nat
         /\ IsFiniteSet(Active) /\ Cardinality(Active) \in Nat
<1>1. IsFiniteSet(Granted) /\ IsFiniteSet(Active)
  BY FS_Subset, WorkSlotsAssumption DEF Granted, Active
<1>2. QED
  BY <1>1, FS_CardinalityType

\* Steps that move one task between states other than waiting and granted
\* leave every queue and every permit where it is.
LEMMA TaskStep ==
  ASSUME SlotInv, NEW r \in Requests, NEW s \in TaskStates,
         s \notin {"idle", "reading", "waiting", "granted"},
         task[r] \notin {"waiting", "granted"},
         task' = [task EXCEPT ![r] = s],
         UNCHANGED <<job, permits, waiters, backlog>>
  PROVE  /\ task' \in [Requests -> TaskStates]
         /\ QueueIsWaiting' /\ BacklogIsQueued' /\ NoIdlePermit' /\ PermitsConserved'
<1> USE DEF SlotInv, TypeOK
<1>1. Waiting' = Waiting /\ Granted' = Granted /\ Active' = Active
  BY DEF Waiting, Granted, Active
<1>2. task' \in [Requests -> TaskStates]
  OBVIOUS
<1>3. QueueIsWaiting' /\ NoIdlePermit'
  BY <1>1 DEF QueueIsWaiting, NoIdlePermit
<1>4. BacklogIsQueued'
  BY DEF BacklogIsQueued
<1>5. PermitsConserved'
  BY <1>1 DEF PermitsConserved
<1>6. QED
  BY <1>2, <1>3, <1>4, <1>5

\* Permits, grants and jobs add up to the slots, and queues agree with tasks and jobs.
THEOREM SlotInvariant == Spec => []SlotInv
<1>1. Init => SlotInv
  <2> SUFFICES ASSUME Init PROVE SlotInv
    OBVIOUS
  <2>1. TypeOK
    BY WorkSlotsAssumption
       DEF Init, TypeOK, TaskStates, JobStates, Answers
  <2>2. Waiting = {} /\ Granted = {} /\ Active = {}
    BY DEF Init, Waiting, Granted, Active
  <2>3. QueueIsWaiting /\ NoIdlePermit
    BY <2>2 DEF Init, QueueIsWaiting, NoIdlePermit, Lists
  <2>4. BacklogIsQueued
    <3>1. {r \in Requests : job[r] = "queued"} = {}
      BY DEF Init
    <3>2. QED
      BY <3>1 DEF Init, BacklogIsQueued, Lists
  <2>5. PermitsConserved
    BY <2>2, FS_EmptySet, WorkSlotsAssumption DEF Init, PermitsConserved
  <2>6. QED
    BY <2>1, <2>3, <2>4, <2>5 DEF SlotInv
<1>2. SlotInv /\ [Next]_vars => SlotInv'
  <2> SUFFICES ASSUME SlotInv, [Next]_vars PROVE SlotInv'
    OBVIOUS
  <2> USE DEF SlotInv, TypeOK
  <2>1. CASE UNCHANGED vars
    BY <2>1 DEF vars, QueueIsWaiting, BacklogIsQueued, NoIdlePermit,
                PermitsConserved, Waiting, Granted, Active
  <2>2. CASE StartJob
    <3> DEFINE h == Head(backlog)
               queued == {r \in Requests : job[r] = "queued"}
    <3>1. /\ backlog # <<>> /\ backlog' = Tail(backlog)
          /\ job' = [job EXCEPT ![h] = "running"]
          /\ UNCHANGED <<task, permits, waiters, answer>>
      BY <2>2 DEF StartJob
    <3>2. /\ Tail(backlog) \in Seq(Requests) /\ h \in queued /\ h \in Requests
          /\ Lists(Tail(backlog), queued \ {h})
      BY <3>1, ListsTail DEF BacklogIsQueued
    <3>3. {r \in Requests : job'[r] = "queued"} = queued \ {h}
      BY <3>1, <3>2
    <3>4. Active' = Active /\ Granted' = Granted /\ Waiting' = Waiting
      BY <3>1, <3>2 DEF Active, Granted, Waiting
    <3>5. job' \in [Requests -> JobStates] /\ backlog' \in Seq(Requests)
      BY <3>1, <3>2 DEF JobStates
    <3>6. BacklogIsQueued'
      BY <3>1, <3>2, <3>3 DEF BacklogIsQueued
    <3>7. QED
      BY <3>1, <3>4, <3>5, <3>6 DEF QueueIsWaiting, NoIdlePermit, PermitsConserved
  <2> SUFFICES ASSUME NEW r \in Requests,
                      \/ Arrive(r) \/ RefuseBody(r)
                      \/ AcquireAtOnce(r) \/ AwaitPermit(r)
                      \/ ResumeWithPermit(r) \/ Join(r)
                      \/ CancelReading(r) \/ CancelWaiting(r)
                      \/ CancelWithPermit(r) \/ CancelDuringWork(r)
                      \/ EndJob(r)
               PROVE  SlotInv'
    BY <2>1, <2>2 DEF Next
  <2>3. CASE Arrive(r)
    <3>1. task[r] = "idle" /\ job[r] = "none"
      BY <2>3 DEF Arrive, BacklogIsQueued
    <3>2. CASE answer' = answer /\ task' = [task EXCEPT ![r] = "reading"]
      <4>1. /\ Waiting' = Waiting /\ Granted' = Granted /\ Active' = Active
            /\ task' \in [Requests -> TaskStates]
        BY <2>3, <3>1, <3>2 DEF Arrive, Waiting, Granted, Active, TaskStates
      <4>2. BacklogIsQueued'
        BY <2>3, <3>1, <3>2 DEF Arrive, BacklogIsQueued
      <4>3. QED
        BY <2>3, <3>2, <4>1, <4>2
           DEF Arrive, QueueIsWaiting, NoIdlePermit, PermitsConserved
    <3>3. CASE /\ task' = [task EXCEPT ![r] = "answered"]
               /\ answer' = [answer EXCEPT ![r] = "refused"]
      BY <2>3, <3>1, <3>3, TaskStep DEF Arrive, TaskStates, Answers
    <3>4. QED
      BY <2>3, <3>2, <3>3 DEF Arrive
  <2>4. CASE RefuseBody(r)
    BY <2>4, TaskStep DEF RefuseBody, TaskStates, Answers
  <2>5. CASE AcquireAtOnce(r)
    <3>1. /\ task[r] = "reading" /\ job[r] = "none" /\ permits > 0
          /\ permits' = permits - 1 /\ task' = [task EXCEPT ![r] = "joining"]
          /\ HandOver(r) /\ waiters' = waiters /\ answer' = answer
      BY <2>5 DEF AcquireAtOnce, BacklogIsQueued
    <3>2. /\ job' \in [Requests -> JobStates] /\ backlog' \in Seq(Requests)
          /\ BacklogIsQueued' /\ Cardinality(Active') = Cardinality(Active) + 1
      BY <3>1, HandOverFacts
    <3>3. /\ Granted' = Granted /\ Waiting' = Waiting
          /\ task' \in [Requests -> TaskStates]
      BY <3>1 DEF Granted, Waiting, TaskStates
    <3>4. permits' \in Nat /\ permits' + 1 = permits
      BY <3>1
    <3>5. PermitsConserved'
      <4>1. Cardinality(Granted') = Cardinality(Granted)
        BY <3>3
      <4>2. permits' + Cardinality(Granted') + Cardinality(Active')
              = permits + Cardinality(Granted) + Cardinality(Active)
        <5>1. Cardinality(Granted) \in Nat /\ Cardinality(Active) \in Nat
          BY CardinalityFacts
        <5>2. /\ Cardinality(Active') = Cardinality(Active) + 1
              /\ permits' \in Nat /\ permits = permits' + 1
          BY <3>2, <3>4
        <5>3. QED
          BY ONLY <5>1, <5>2, <4>1
      <4>3. QED
        BY <4>2 DEF PermitsConserved
    <3>6. NoIdlePermit'
      BY <3>1 DEF NoIdlePermit
    <3>7. QED
      BY <3>1, <3>2, <3>3, <3>4, <3>5, <3>6 DEF QueueIsWaiting
  <2>6. CASE AwaitPermit(r)
    <3>1. /\ task[r] = "reading" /\ job[r] = "none" /\ permits = 0
          /\ task' = [task EXCEPT ![r] = "waiting"]
          /\ waiters' = Append(waiters, r)
          /\ UNCHANGED <<job, permits, backlog, answer>>
      BY <2>6 DEF AwaitPermit, BacklogIsQueued
    <3>2. Waiting' = Waiting \cup {r} /\ r \notin Waiting
      BY <3>1 DEF Waiting
    <3>3. QueueIsWaiting'
      BY <3>1, <3>2, ListsAppend DEF QueueIsWaiting
    <3>4. /\ Granted' = Granted /\ Active' = Active
          /\ task' \in [Requests -> TaskStates] /\ waiters' \in Seq(Requests)
      BY <3>1 DEF Granted, Active, TaskStates
    <3>5. BacklogIsQueued'
      BY <3>1 DEF BacklogIsQueued
    <3>6. QED
      BY <3>1, <3>3, <3>4, <3>5 DEF NoIdlePermit, PermitsConserved
  <2>7. CASE ResumeWithPermit(r)
    <3>1. /\ task[r] = "granted" /\ job[r] = "none"
          /\ task' = [task EXCEPT ![r] = "joining"] /\ HandOver(r)
          /\ UNCHANGED <<permits, waiters, answer>>
      BY <2>7 DEF ResumeWithPermit, BacklogIsQueued
    <3>2. /\ job' \in [Requests -> JobStates] /\ backlog' \in Seq(Requests)
          /\ BacklogIsQueued' /\ Cardinality(Active') = Cardinality(Active) + 1
      BY <3>1, HandOverFacts
    <3>3. /\ Granted' = Granted \ {r} /\ r \in Granted /\ Waiting' = Waiting
          /\ task' \in [Requests -> TaskStates]
      BY <3>1 DEF Granted, Waiting, TaskStates
    <3>4. Cardinality(Granted') = Cardinality(Granted) - 1
      BY <3>3, CardinalityFacts, FS_RemoveElement
    <3>5. PermitsConserved'
      BY <3>1, <3>2, <3>4, CardinalityFacts DEF PermitsConserved
    <3>6. QED
      BY <3>1, <3>2, <3>3, <3>5 DEF QueueIsWaiting, NoIdlePermit
  <2>8. CASE Join(r)
    <3>1. answer' \in [Requests -> Answers]
      BY <2>8 DEF Join, Answers
    <3>2. QED
      BY <2>8, <3>1, TaskStep DEF Join, TaskStates
  <2>9. CASE CancelReading(r)
    BY <2>9, TaskStep DEF CancelReading, TaskStates
  <2>10. CASE CancelWaiting(r)
    <3>1. PICK place \in DOMAIN waiters :
            waiters[place] = r /\ waiters' = Without(waiters, place)
      BY <2>10 DEF CancelWaiting
    <3>2. /\ task[r] = "waiting" /\ task' = [task EXCEPT ![r] = "cancelled"]
          /\ UNCHANGED <<job, permits, backlog, answer>>
      BY <2>10 DEF CancelWaiting
    <3>3. waiters' \in Seq(Requests) /\ Lists(waiters', Waiting \ {r})
      BY <3>1, ListsWithout DEF QueueIsWaiting
    <3>4. /\ Waiting' = Waiting \ {r} /\ Granted' = Granted /\ Active' = Active
          /\ task' \in [Requests -> TaskStates]
      BY <3>2 DEF Waiting, Granted, Active, TaskStates
    <3>5. BacklogIsQueued'
      BY <3>2 DEF BacklogIsQueued
    <3>6. waiters # <<>>
      BY <3>1
    <3>7. QED
      BY <3>2, <3>3, <3>4, <3>5, <3>6
         DEF QueueIsWaiting, NoIdlePermit, PermitsConserved
  <2>11. CASE CancelWithPermit(r)
    <3> DEFINE others == [task EXCEPT ![r] = "cancelled"]
    <3>1. /\ task[r] = "granted" /\ Release(waiters, others)
          /\ UNCHANGED <<job, backlog, answer>>
      BY <2>11 DEF CancelWithPermit
    <3>2. /\ others \in [Requests -> TaskStates]
          /\ {q \in Requests : others[q] = "waiting"} = Waiting
          /\ {q \in Requests : others[q] = "granted"} = Granted \ {r}
          /\ r \in Granted /\ Active' = Active
      BY <3>1 DEF TaskStates, Waiting, Granted, Active
    <3>3. Cardinality(Granted \ {r}) = Cardinality(Granted) - 1
      BY <3>2, CardinalityFacts, FS_RemoveElement
    <3>4. /\ task' \in [Requests -> TaskStates] /\ permits' \in Nat
          /\ waiters' \in Seq(Requests) /\ QueueIsWaiting' /\ NoIdlePermit'
          /\ permits' + Cardinality(Granted') = permits + Cardinality(Granted \ {r}) + 1
          /\ \A q \in Requests : \/ task'[q] = others[q]
                                 \/ task'[q] = "granted" /\ task[q] = "waiting"
      <4>1. Granted \ {r} = {q \in Requests : others[q] = "granted"}
        BY <3>2
      <4> HIDE DEF others
      <4>2. QED
        BY <3>1, <3>2, <4>1, ReleaseFacts
    <3>5. BacklogIsQueued'
      BY <3>1, <3>4 DEF BacklogIsQueued
    <3>6. PermitsConserved'
      BY <3>2, <3>3, <3>4, CardinalityFacts DEF PermitsConserved
    <3>7. QED
      BY <3>1, <3>4, <3>5, <3>6
  <2>12. CASE CancelDuringWork(r)
    BY <2>12, TaskStep DEF CancelDuringWork, TaskStates
  <2>13. CASE EndJob(r)
    <3>1. PICK end \in {"returned", "panicked"} : job' = [job EXCEPT ![r] = end]
      BY <2>13 DEF EndJob
    <3>2. /\ job[r] = "running" /\ Release(waiters, task)
          /\ backlog' = backlog /\ answer' = answer
      BY <2>13 DEF EndJob
    <3>3. Active' = Active \ {r} /\ r \in Active
      BY <3>1, <3>2 DEF Active
    <3>4. Cardinality(Active') = Cardinality(Active) - 1
      BY <3>3, CardinalityFacts, FS_RemoveElement
    <3>5. /\ {q \in Requests : task[q] = "waiting"} = Waiting
          /\ {q \in Requests : task[q] = "granted"} = Granted
      BY DEF Waiting, Granted
    <3>6. /\ task' \in [Requests -> TaskStates] /\ permits' \in Nat
          /\ waiters' \in Seq(Requests) /\ QueueIsWaiting' /\ NoIdlePermit'
          /\ permits' + Cardinality(Granted') = permits + Cardinality(Granted) + 1
          /\ \A q \in Requests : \/ task'[q] = task[q]
                                 \/ task'[q] = "granted" /\ task[q] = "waiting"
      BY <3>2, <3>5, ReleaseFacts
    <3>7. /\ {q \in Requests : job'[q] = "queued"} = {q \in Requests : job[q] = "queued"}
          /\ job' \in [Requests -> JobStates]
      BY <3>1, <3>2 DEF JobStates
    <3>8. BacklogIsQueued'
      <4>1. task[r] \notin {"idle", "reading", "waiting", "granted"}
        BY <3>2 DEF BacklogIsQueued
      <4>2. ASSUME NEW q \in Requests,
                   task'[q] \in {"idle", "reading", "waiting", "granted"}
            PROVE  job'[q] = "none"
        BY <3>1, <3>6, <4>1, <4>2 DEF BacklogIsQueued
      <4>3. QED
        BY <3>2, <3>7, <4>2 DEF BacklogIsQueued
    <3>9. PermitsConserved'
      BY <3>4, <3>6, CardinalityFacts DEF PermitsConserved
    <3>10. QED
      BY <3>2, <3>6, <3>7, <3>8, <3>9
  <2>14. QED
    BY <2>3, <2>4, <2>5, <2>6, <2>7, <2>8, <2>9, <2>10, <2>11, <2>12, <2>13
<1>3. QED
  BY <1>1, <1>2, PTL DEF Spec

\* No permit is lost or made, with any number of requests, cancellations and
\* panics (run_kernel_work).
THEOREM PermitConservation == Spec => []PermitsConserved
BY SlotInvariant, PTL DEF SlotInv

\* At most Slots blocking jobs exist at any time.
THEOREM BoundedJobs == Spec => []AtMostSlots
<1>1. SlotInv => AtMostSlots
  BY CardinalityFacts, WorkSlotsAssumption
     DEF SlotInv, TypeOK, PermitsConserved, AtMostSlots
<1>2. QED
  BY <1>1, SlotInvariant, PTL

-----------------------------------------------------------------------------
(* The router implements the safety part of BoundedWork: a job begins only  *)
(* for a request that had none and while fewer than Slots exist, and leaves *)
(* the count only by ending.                                                *)

\* Handing work over begins the request's first and only job.
LEMMA HandOverBegins ==
  ASSUME SlotInv, NEW r \in Requests, task[r] \in {"reading", "granted"},
         Cardinality(Active) < Slots, HandOver(r)
  PROVE  Promise!Next
<1>1. job[r] = "none" /\ job' = [job EXCEPT ![r] = "queued"]
  BY DEF SlotInv, BacklogIsQueued, HandOver
<1>2. /\ Active' = Active \cup {r} /\ Finished' = Finished
      /\ r \notin Active \cup Finished
  BY <1>1 DEF SlotInv, TypeOK, Active, Finished
<1>3. Promise!Cardinality(Active) = Cardinality(Active)
  BY DEF Promise!Cardinality, Cardinality, Promise!IsFiniteSet, IsFiniteSet
<1>4. Promise!Begin(r)
  BY <1>2, <1>3 DEF Promise!Begin
<1>5. QED
  BY <1>4 DEF Promise!Next

\* Every step of the router and its pool begins a job, ends one, or does
\* neither.
LEMMA StepKeepsPromise ==
  ASSUME SlotInv, [Next]_vars
  PROVE  [Promise!Next]_<<Active, Finished>>
<1>1. CASE UNCHANGED vars
  BY <1>1 DEF vars, Active, Finished
<1>2. CASE StartJob
  <2>1. backlog # <<>> /\ job' = [job EXCEPT ![Head(backlog)] = "running"]
    BY <1>2 DEF StartJob
  <2> DEFINE queued == {r \in Requests : job[r] = "queued"}
  <2>2. backlog \in Seq(Requests) /\ Lists(backlog, queued)
    BY DEF SlotInv, TypeOK, BacklogIsQueued
  <2>3. Head(backlog) \in queued
    BY <2>1, <2>2, ListsTail
  <2>4. QED
    BY <2>1, <2>3 DEF SlotInv, TypeOK, Active, Finished
<1>3. ASSUME NEW r \in Requests, AcquireAtOnce(r)
      PROVE  Promise!Next
  <2>1. task[r] = "reading" /\ permits > 0 /\ HandOver(r)
    BY <1>3 DEF AcquireAtOnce
  <2>2. Cardinality(Active) < Slots
    BY <2>1, CardinalityFacts, WorkSlotsAssumption
       DEF SlotInv, TypeOK, PermitsConserved
  <2>3. QED
    BY <2>1, <2>2, HandOverBegins
<1>4. ASSUME NEW r \in Requests, ResumeWithPermit(r)
      PROVE  Promise!Next
  <2>1. task[r] = "granted" /\ HandOver(r)
    BY <1>4 DEF ResumeWithPermit
  <2>2. Cardinality(Granted) # 0
    BY <2>1, CardinalityFacts, FS_EmptySet DEF Granted
  <2>3. Cardinality(Active) < Slots
    BY <2>2, CardinalityFacts, WorkSlotsAssumption
       DEF SlotInv, TypeOK, PermitsConserved
  <2>4. QED
    BY <2>1, <2>3, HandOverBegins
<1>5. ASSUME NEW r \in Requests, EndJob(r)
      PROVE  Promise!Next
  <2>1. PICK end \in {"returned", "panicked"} : job' = [job EXCEPT ![r] = end]
    BY <1>5 DEF EndJob
  <2>2. job[r] = "running"
    BY <1>5 DEF EndJob
  <2>3. /\ r \in Active /\ Active' = Active \ {r}
        /\ Finished' = Finished \cup {r}
    BY <2>1, <2>2 DEF SlotInv, TypeOK, Active, Finished
  <2>4. Promise!End(r)
    BY <2>3 DEF Promise!End
  <2>5. QED
    BY <2>4 DEF Promise!Next
<1>6. ASSUME NEW r \in Requests,
             \/ Arrive(r) \/ RefuseBody(r) \/ AwaitPermit(r) \/ Join(r)
             \/ CancelReading(r) \/ CancelWaiting(r) \/ CancelWithPermit(r)
             \/ CancelDuringWork(r)
      PROVE  UNCHANGED <<Active, Finished>>
  <2>1. job' = job
    BY <1>6 DEF Arrive, RefuseBody, AwaitPermit, Join, CancelReading,
                CancelWaiting, CancelWithPermit, CancelDuringWork
  <2>2. QED
    BY <2>1 DEF Active, Finished
<1>7. QED
  BY <1>1, <1>2, <1>3, <1>4, <1>5, <1>6 DEF Next

\* The router keeps the safety part of the promise of
\* max_concurrent_kernel_work, for any number of requests, slots and threads.
THEOREM KeepsPromise == Spec => Promise!Safety
<1>1. Init => Promise!Init
  BY DEF Init, Promise!Init, Active, Finished
<1>2. SlotInv /\ [Next]_vars => [Promise!Next]_<<Active, Finished>>
  BY StepKeepsPromise
<1>3. QED
  BY <1>1, <1>2, SlotInvariant, PTL DEF Spec, Promise!Safety
=============================================================================
