----------------------------- MODULE ThreadPool -----------------------------
(***************************************************************************)
(* ThreadPool (ThreadPool.h), one step per stretch of code between two     *)
(* points where threads meet: queue_mutex_ and condition_.  One thread,    *)
(* here the owner, enqueues tasks and destroys the pool, as in main.cpp    *)
(* and in test/ThreadPool.cpp; no task of the program enqueues another.    *)
(* Tasks are numbered in the order in which they are enqueued.             *)
(***************************************************************************)
EXTENDS Naturals, Sequences, FiniteSets

CONSTANTS
  Workers,      \* workers_
  Owner,        \* the thread that uses the pool
  MaxTasks,     \* bound on the tasks it enqueues
  None

ASSUME PoolAssumption ==
  /\ IsFiniteSet(Workers) /\ Workers # {}
  /\ Owner \notin Workers /\ None \notin Workers \cup {Owner}
  /\ MaxTasks \in Nat

VARIABLES
  mutex,        \* the thread that holds queue_mutex_
  tasks,        \* tasks_
  stop,         \* stop_
  enqueued,     \* how many tasks were enqueued
  owner,        \* where the owner is
  worker,       \* where each worker is
  task          \* the task a worker has last taken

vars == <<mutex, tasks, stop, enqueued, owner, worker, task>>

OwnerPlaces ==
  {"outside", "enqueue", "push", "notify",
   "destroy", "stop", "wake all", "join", "gone"}

WorkerPlaces == {"lock", "test", "wait", "run", "return"}

TypeOK ==
  /\ mutex \in Workers \cup {Owner, None}
  /\ tasks \in Seq(Nat)
  /\ stop \in BOOLEAN
  /\ enqueued \in Nat
  /\ owner \in OwnerPlaces
  /\ worker \in [Workers -> WorkerPlaces]
  /\ task \in [Workers -> Nat]

Init ==
  /\ mutex = None
  /\ tasks = <<>>
  /\ stop = FALSE
  /\ enqueued = 0
  /\ owner = "outside"
  /\ worker = [w \in Workers |-> "lock"]
  /\ task = [w \in Workers |-> 0]

Waiting == {w \in Workers : worker[w] = "wait"}

-----------------------------------------------------------------------------
(* The owner: enqueue and the destructor.                                  *)

Enqueue ==
  /\ owner = "outside"
  /\ enqueued < MaxTasks
  /\ owner' = "enqueue"
  /\ UNCHANGED <<mutex, tasks, stop, enqueued, worker, task>>

Destroy ==
  /\ owner = "outside"
  /\ owner' = "destroy"
  /\ UNCHANGED <<mutex, tasks, stop, enqueued, worker, task>>

OwnerLock ==
  /\ owner \in {"enqueue", "destroy"}
  /\ mutex = None
  /\ mutex' = Owner
  /\ owner' = IF owner = "enqueue" THEN "push" ELSE "stop"
  /\ UNCHANGED <<tasks, stop, enqueued, worker, task>>

\* (That stop_ is set, which makes enqueue throw, cannot be: the owner sets it
\* itself, in its last call.)
Push ==
  /\ owner = "push"
  /\ tasks' = Append(tasks, enqueued + 1)
  /\ enqueued' = enqueued + 1
  /\ mutex' = None
  /\ owner' = "notify"
  /\ UNCHANGED <<stop, worker, task>>

\* Wrong variant: nobody is notified.
NotifyNobody ==
  /\ owner = "notify"
  /\ owner' = "outside"
  /\ UNCHANGED <<mutex, tasks, stop, enqueued, worker, task>>

\* notify_one, after the mutex was given up.
NotifyOne ==
  /\ owner = "notify"
  /\ owner' = "outside"
  /\ \/ Waiting = {} /\ UNCHANGED worker
     \/ \E w \in Waiting : worker' = [worker EXCEPT ![w] = "lock"]
  /\ UNCHANGED <<mutex, tasks, stop, enqueued, task>>

Stop ==
  /\ owner = "stop"
  /\ stop' = TRUE
  /\ mutex' = None
  /\ owner' = "wake all"
  /\ UNCHANGED <<tasks, enqueued, worker, task>>

NotifyAll ==
  /\ owner = "wake all"
  /\ owner' = "join"
  /\ worker' = [w \in Workers |-> IF w \in Waiting THEN "lock" ELSE worker[w]]
  /\ UNCHANGED <<mutex, tasks, stop, enqueued, task>>

Join ==
  /\ owner = "join"
  /\ \A w \in Workers : worker[w] = "return"
  /\ owner' = "gone"
  /\ UNCHANGED <<mutex, tasks, stop, enqueued, worker, task>>

-----------------------------------------------------------------------------
(* A worker.                                                               *)

\* At the start of a turn, or on its way out of condition_.wait.
Lock(w) ==
  /\ worker[w] = "lock"
  /\ mutex = None
  /\ mutex' = w
  /\ worker' = [worker EXCEPT ![w] = "test"]
  /\ UNCHANGED <<tasks, stop, enqueued, owner, task>>

\* Wrong variant: the worker returns as soon as stop_ is set.
TestStopFirst(w) ==
  /\ worker[w] = "test"
  /\ mutex' = None
  /\ IF tasks = <<>> \/ stop
       THEN /\ worker' = [worker EXCEPT ![w] = IF stop THEN "return" ELSE "wait"]
            /\ UNCHANGED <<tasks, task>>
       ELSE /\ worker' = [worker EXCEPT ![w] = "run"]
            /\ task' = [task EXCEPT ![w] = Head(tasks)]
            /\ tasks' = Tail(tasks)
  /\ UNCHANGED <<stop, enqueued, owner>>

\* The condition of condition_.wait, which gives up the mutex as it starts to
\* wait, and what follows it up to the end of the block.
Test(w) ==
  /\ worker[w] = "test"
  /\ mutex' = None
  /\ IF tasks = <<>>
       THEN /\ worker' = [worker EXCEPT ![w] = IF stop THEN "return" ELSE "wait"]
            /\ UNCHANGED <<tasks, task>>
       ELSE /\ worker' = [worker EXCEPT ![w] = "run"]
            /\ task' = [task EXCEPT ![w] = Head(tasks)]
            /\ tasks' = Tail(tasks)
  /\ UNCHANGED <<stop, enqueued, owner>>

\* A task comes to its end (an exception it throws goes into its future).
Run(w) ==
  /\ worker[w] = "run"
  /\ worker' = [worker EXCEPT ![w] = "lock"]
  /\ UNCHANGED <<mutex, tasks, stop, enqueued, owner, task>>

\* condition_.wait may return without a notification.
WakeSpuriously(w) ==
  /\ worker[w] = "wait"
  /\ worker' = [worker EXCEPT ![w] = "lock"]
  /\ UNCHANGED <<mutex, tasks, stop, enqueued, owner, task>>

-----------------------------------------------------------------------------
OwnerStep == OwnerLock \/ Push \/ NotifyOne \/ Stop \/ NotifyAll \/ Join

WorkerStep(w) == Lock(w) \/ Test(w) \/ Run(w)

\* When the pool is gone nothing is left to happen.
Ended == owner = "gone" /\ UNCHANGED vars

Next ==
  \/ Enqueue \/ Destroy \/ OwnerStep
  \/ \E w \in Workers : WorkerStep(w) \/ WakeSpuriously(w)
  \/ Ended

Spec == Init /\ [][Next]_vars

\* Every thread is scheduled and every task ends.  Nothing makes the owner
\* call anything, and no wait ends unless it is notified.
FairSpec ==
  /\ Spec
  /\ WF_vars(OwnerStep)
  /\ \A w \in Workers : WF_vars(WorkerStep(w))

-----------------------------------------------------------------------------
(* Properties.                                                             *)

\* The pool runs what it is given as TaskPool says, and its destructor
\* returns: enqueue, the workers and the destructor together.
Pool ==
  INSTANCE TaskPool WITH
    Threads   <- Workers,
    MaxTasks  <- MaxTasks,
    submitted <- enqueued,
    started   <- enqueued - Len(tasks),
    running   <- [w \in Workers |-> IF worker[w] = "run" THEN task[w] ELSE 0],
    phase     <- IF owner = "gone" THEN "closed"
                 ELSE IF stop THEN "closing" ELSE "open"

ImplementsTaskPool == Pool!Spec

\* No task waits while every worker sleeps, unless one is about to be woken:
\* the notification that follows the unlocking of the mutex is never lost.
NoLostWakeup ==
  tasks # <<>> /\ owner # "notify" => \E w \in Workers : worker[w] \in {"lock", "test", "run"}
=============================================================================
