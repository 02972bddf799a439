----------------------------- MODULE WorkSlots ------------------------------
(***************************************************************************)
(* How the REST server bounds kernel work (crates/jsonrtl-api/src/lib.rs). *)
(*                                                                         *)
(* A request is an asynchronous task.  After it has read the body it takes *)
(* a permit of the router's semaphore and hands the work, with the permit, *)
(* to a blocking thread.  The client may go away at any await: the task is *)
(* then dropped, but a job that was handed over runs on.  The permit is    *)
(* released when the job leaves its closure, by return or by panic.        *)
(*                                                                         *)
(* tokio's semaphore and blocking pool are external: both are first come,  *)
(* first served, and a released permit belongs to the first waiter before  *)
(* that waiter has run again.                                              *)
(***************************************************************************)
EXTENDS Integers, Sequences, FiniteSets

CONSTANTS
  Requests,   \* requests the clients send
  Slots,      \* max_concurrent_kernel_work
  Threads     \* threads of the blocking pool

ASSUME WorkSlotsAssumption ==
  /\ IsFiniteSet(Requests)
  /\ Slots \in Nat \ {0}
  /\ Threads \in Nat \ {0}

VARIABLES
  task,       \* where the asynchronous handler of each request is
  job,        \* the blocking job of each request
  permits,    \* free permits of the semaphore
  waiters,    \* tasks queued on the semaphore
  backlog,    \* jobs queued for a blocking thread
  answer      \* what each client received

vars == <<task, job, permits, waiters, backlog, answer>>

TaskStates == {"idle", "reading", "waiting", "granted", "joining", "answered",
               "cancelled"}
JobStates  == {"none", "queued", "running", "returned", "panicked"}
Answers    == {"none", "refused", "response", "internal_error"}

Init ==
  /\ task = [r \in Requests |-> "idle"]
  /\ job = [r \in Requests |-> "none"]
  /\ permits = Slots
  /\ waiters = <<>>
  /\ backlog = <<>>
  /\ answer = [r \in Requests |-> "none"]

-----------------------------------------------------------------------------
(***************************************************************************)
(* The semaphore.                                                          *)
(***************************************************************************)
\* A permit comes back: it goes to the first of `queue`, or to the free pool.
\* `others` are the task states to update with the one of that waiter.
Release(queue, others) ==
  IF queue = <<>>
  THEN /\ permits' = permits + 1
       /\ waiters' = queue
       /\ task' = others
  ELSE /\ permits' = permits
       /\ waiters' = Tail(queue)
       /\ task' = [others EXCEPT ![Head(queue)] = "granted"]

\* A waiter that is dropped leaves its place, wherever it is.
Without(queue, place) ==
  [i \in 1..Len(queue) - 1 |-> IF i < place THEN queue[i] ELSE queue[i + 1]]

\* spawn_blocking: the permit moves into the closure.
HandOver(r) ==
  /\ job' = [job EXCEPT ![r] = "queued"]
  /\ backlog' = Append(backlog, r)

-----------------------------------------------------------------------------
(***************************************************************************)
(* The handlers validate and compile_verilog up to run_kernel_work.        *)
(***************************************************************************)
\* A request arrives; a content type other than JSON is refused at once (415).
Arrive(r) ==
  /\ task[r] = "idle"
  /\ \/ /\ task' = [task EXCEPT ![r] = "reading"]
        /\ UNCHANGED answer
     \/ /\ task' = [task EXCEPT ![r] = "answered"]
        /\ answer' = [answer EXCEPT ![r] = "refused"]
  /\ UNCHANGED <<job, permits, waiters, backlog>>

\* The body is over the limit (413) or cannot be read (500).
RefuseBody(r) ==
  /\ task[r] = "reading"
  /\ task' = [task EXCEPT ![r] = "answered"]
  /\ answer' = [answer EXCEPT ![r] = "refused"]
  /\ UNCHANGED <<job, permits, waiters, backlog>>

\* The body is there and a permit is free: the same poll hands the work over.
AcquireAtOnce(r) ==
  /\ task[r] = "reading"
  /\ permits > 0
  /\ permits' = permits - 1
  /\ task' = [task EXCEPT ![r] = "joining"]
  /\ HandOver(r)
  /\ UNCHANGED <<waiters, answer>>

\* No permit is free: the task yields in the semaphore's queue.
AwaitPermit(r) ==
  /\ task[r] = "reading"
  /\ permits = 0
  /\ task' = [task EXCEPT ![r] = "waiting"]
  /\ waiters' = Append(waiters, r)
  /\ UNCHANGED <<job, permits, backlog, answer>>

\* A task that was given a permit is polled again.
ResumeWithPermit(r) ==
  /\ task[r] = "granted"
  /\ task' = [task EXCEPT ![r] = "joining"]
  /\ HandOver(r)
  /\ UNCHANGED <<permits, waiters, answer>>

\* The job ended: its response, or the error envelope for a panic.
Join(r) ==
  /\ task[r] = "joining"
  /\ job[r] \in {"returned", "panicked"}
  /\ task' = [task EXCEPT ![r] = "answered"]
  /\ answer' = [answer EXCEPT ![r] =
                  IF job[r] = "returned" THEN "response" ELSE "internal_error"]
  /\ UNCHANGED <<job, permits, waiters, backlog>>

-----------------------------------------------------------------------------
(***************************************************************************)
(* The client disconnects and the task is dropped at its await.            *)
(***************************************************************************)
CancelReading(r) ==
  /\ task[r] = "reading"
  /\ task' = [task EXCEPT ![r] = "cancelled"]
  /\ UNCHANGED <<job, permits, waiters, backlog, answer>>

\* The wait is abandoned: the work is dropped with the task that owned it.
CancelWaiting(r) ==
  /\ task[r] = "waiting"
  /\ task' = [task EXCEPT ![r] = "cancelled"]
  /\ \E place \in DOMAIN waiters :
       waiters[place] = r /\ waiters' = Without(waiters, place)
  /\ UNCHANGED <<job, permits, backlog, answer>>

\* Fault: a permit that was assigned to a task is lost with it.
CancelForgetsPermit(r) ==
  /\ task[r] = "granted"
  /\ task' = [task EXCEPT ![r] = "cancelled"]
  /\ UNCHANGED <<job, permits, waiters, backlog, answer>>

\* The permit was assigned but the task never ran again: it goes back.
CancelWithPermit(r) ==
  /\ task[r] = "granted"
  /\ Release(waiters, [task EXCEPT ![r] = "cancelled"])
  /\ UNCHANGED <<job, backlog, answer>>

\* Fault: the permit is owned by the task and not by the job.
CancelGivesPermitBack(r) ==
  /\ task[r] = "joining"
  /\ job[r] \in {"queued", "running"}
  /\ Release(waiters, [task EXCEPT ![r] = "cancelled"])
  /\ UNCHANGED <<job, backlog, answer>>

\* Dropping the JoinHandle detaches the job; it keeps the permit.
CancelDuringWork(r) ==
  /\ task[r] = "joining"
  /\ task' = [task EXCEPT ![r] = "cancelled"]
  /\ UNCHANGED <<job, permits, waiters, backlog, answer>>

-----------------------------------------------------------------------------
(***************************************************************************)
(* The blocking pool.                                                      *)
(***************************************************************************)
Running == {r \in Requests : job[r] = "running"}

StartJob ==
  /\ backlog # <<>>
  /\ Cardinality(Running) < Threads
  /\ job' = [job EXCEPT ![Head(backlog)] = "running"]
  /\ backlog' = Tail(backlog)
  /\ UNCHANGED <<task, permits, waiters, answer>>

\* Fault: a panic leaves the permit taken.
EndJobPanicKeepsPermit(r) ==
  /\ job[r] = "running"
  /\ \/ /\ job' = [job EXCEPT ![r] = "returned"]
        /\ Release(waiters, task)
     \/ /\ job' = [job EXCEPT ![r] = "panicked"]
        /\ UNCHANGED <<permits, waiters, task>>
  /\ UNCHANGED <<backlog, answer>>

\* The closure is left by return or by unwinding; both drop the permit.
EndJob(r) ==
  /\ job[r] = "running"
  /\ \E end \in {"returned", "panicked"} : job' = [job EXCEPT ![r] = end]
  /\ Release(waiters, task)
  /\ UNCHANGED <<backlog, answer>>

-----------------------------------------------------------------------------
Next ==
  \/ \E r \in Requests :
       \/ Arrive(r) \/ RefuseBody(r)
       \/ AcquireAtOnce(r) \/ AwaitPermit(r) \/ ResumeWithPermit(r) \/ Join(r)
       \/ CancelReading(r) \/ CancelWaiting(r) \/ CancelWithPermit(r)
       \/ CancelDuringWork(r)
       \/ EndJob(r)
  \/ StartJob

\* The runtime polls a woken task and its pool takes the next job; the kernel's
\* work ends, because its inputs are bounded.  No client has to send its body.
Fairness ==
  /\ WF_vars(StartJob)
  /\ \A r \in Requests :
       WF_vars(ResumeWithPermit(r)) /\ WF_vars(Join(r)) /\ WF_vars(EndJob(r))

Spec == Init /\ [][Next]_vars /\ Fairness

-----------------------------------------------------------------------------
\* The variables hold task and job states, a permit count and queues of
\* requests.
TypeOK ==
  /\ task \in [Requests -> TaskStates]
  /\ job \in [Requests -> JobStates]
  /\ permits \in Nat
  /\ waiters \in Seq(Requests)
  /\ backlog \in Seq(Requests)
  /\ answer \in [Requests -> Answers]

\* A permit is with a task that was granted it or with a job that has not ended.
Granted == {r \in Requests : task[r] = "granted"}
Active  == {r \in Requests : job[r] \in {"queued", "running"}}

\* No permit is lost or made: through every cancellation and panic, the free
\* permits, those given to a waiter and those inside jobs are Slots in all.
PermitsConserved ==
  permits + Cardinality(Granted) + Cardinality(Active) = Slots

\* At most Slots blocking jobs exist, running or waiting for a thread, however
\* many requests were cancelled (doc comment of max_concurrent_kernel_work).
AtMostSlots == Cardinality(Active) <= Slots

\* A task that waits for a slot is answered unless its client leaves, even if
\* every earlier client left while its job was running, or its job panicked.
WaitingIsServed ==
  \A r \in Requests :
    task[r] = "waiting" ~> task[r] \in {"answered", "cancelled"}

\* The server implements the promise of the builder's documentation.
Finished == {r \in Requests : job[r] \in {"returned", "panicked"}}
Promise == INSTANCE BoundedWork WITH active <- Active, finished <- Finished
ImplementsPromise == Promise!Spec

=============================================================================
