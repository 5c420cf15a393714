-------------------------- MODULE ThreadPoolProofs --------------------------
(***************************************************************************)
(* ThreadPool for any number of workers and tasks: its types, that no      *)
(* wakeup is lost, and that what it does is what TaskPool says (the safety *)
(* part; that tasks and the destructor come to their end is TLC's).        *)
(***************************************************************************)
EXTENDS ThreadPool, TLAPS

Busy == {w \in Workers : worker[w] = "run"}

\* The critical sections: who holds the mutex is in one, and nobody else.
MutexInv ==
  /\ mutex = Owner <=> owner \in {"push", "stop"}
  /\ \A w \in Workers : mutex = w <=> worker[w] = "test"

\* The destructor is the owner's last call, and a worker returns only after
\* it, when no task is left.
StopInv ==
  /\ stop <=> owner \in {"wake all", "join", "gone"}
  /\ \A w \in Workers : worker[w] = "return" => stop /\ tasks = <<>>
  /\ owner = "gone" => \A w \in Workers : worker[w] = "return"

\* The queue holds the numbers that were not taken yet, in order; the tasks
\* that run have lower numbers, each on one worker.
QueueInv ==
  /\ Len(tasks) <= enqueued
  /\ owner \in {"enqueue", "push"} => enqueued < MaxTasks
  /\ \A i \in 1..Len(tasks) : tasks[i] = (enqueued - Len(tasks)) + i
  /\ \A w \in Busy : task[w] \in 1..(enqueued - Len(tasks))
  /\ \A v, w \in Busy : task[v] = task[w] => v = w

PoolInv == TypeOK /\ MutexInv /\ StopInv /\ QueueInv /\ NoLostWakeup

\* What Append and taking the head do to a queue of numbers.
LEMMA Appended ==
  ASSUME NEW q \in Seq(Nat), NEW n \in Nat
  PROVE  /\ Len(q) \in Nat /\ Len(Append(q, n)) = Len(q) + 1
         /\ \A i \in 1..Len(q) : Append(q, n)[i] = q[i]
         /\ Append(q, n)[Len(q) + 1] = n
OBVIOUS

\* The queue without its first task.
LEMMA HeadTaken ==
  ASSUME NEW q \in Seq(Nat), q # <<>>
  PROVE  /\ Len(q) \in Nat \ {0} /\ Head(q) = q[1] /\ Head(q) \in Nat
         /\ Tail(q) \in Seq(Nat) /\ Len(Tail(q)) = Len(q) - 1
         /\ \A i \in 1..Len(Tail(q)) : Tail(q)[i] = q[i + 1]
<1>1. Len(q) \in Nat \ {0}
  OBVIOUS
<1>2. Head(q) = q[1] /\ Head(q) \in Nat
  BY <1>1
<1>3. Tail(q) \in Seq(Nat) /\ Len(Tail(q)) = Len(q) - 1
  BY <1>1
<1>4. \A i \in 1..Len(Tail(q)) : Tail(q)[i] = q[i + 1]
  BY <1>1, <1>3
<1>5. QED
  BY <1>1, <1>2, <1>3, <1>4

\* All workers are before the lock, and there are no tasks.
LEMMA PoolInvInit == Init => PoolInv
<1> SUFFICES ASSUME Init PROVE PoolInv
  OBVIOUS
<1>1. TypeOK
  <2>1. tasks \in Seq(Nat)
    BY DEF Init
  <2>2. QED
    BY <2>1 DEF Init, TypeOK, OwnerPlaces, WorkerPlaces
<1>2. MutexInv /\ StopInv
  BY PoolAssumption DEF Init, MutexInv, StopInv
<1>3. QueueInv /\ NoLostWakeup
  BY DEF Init, QueueInv, NoLostWakeup, Busy
<1>4. QED
  BY <1>1, <1>2, <1>3 DEF PoolInv

\* No step leads out of the types.
LEMMA TypesStep == TypeOK /\ [Next]_vars => TypeOK'
<1> SUFFICES ASSUME TypeOK, [Next]_vars PROVE TypeOK'
  OBVIOUS
<1> USE DEF TypeOK, OwnerPlaces, WorkerPlaces
<1>1. CASE Enqueue
  BY <1>1 DEF Enqueue
<1>2. CASE Destroy
  BY <1>2 DEF Destroy
<1>3. CASE OwnerLock
  BY <1>3 DEF OwnerLock
<1>4. CASE Push
  BY <1>4 DEF Push
<1>5. CASE NotifyOne
  BY <1>5 DEF NotifyOne, Waiting
<1>6. CASE Stop
  BY <1>6 DEF Stop
<1>7. CASE NotifyAll
  BY <1>7 DEF NotifyAll, Waiting
<1>8. CASE Join
  BY <1>8 DEF Join
<1>9. ASSUME NEW w \in Workers, Lock(w) PROVE TypeOK'
  BY <1>9 DEF Lock
<1>10. ASSUME NEW w \in Workers, Test(w) PROVE TypeOK'
  <2>1. CASE tasks = <<>>
    <3>1. worker' \in [Workers -> WorkerPlaces] /\ UNCHANGED <<tasks, task>>
      BY <1>10, <2>1 DEF Test
    <3>2. QED
      BY <1>10, <3>1 DEF Test
  <2>2. CASE tasks # <<>>
    <3>1. Head(tasks) \in Nat /\ Tail(tasks) \in Seq(Nat)
      BY <2>2, HeadTaken
    <3>2. QED
      BY <1>10, <2>2, <3>1 DEF Test
  <2>3. QED
    BY <2>1, <2>2
<1>11. ASSUME NEW w \in Workers, Run(w) PROVE TypeOK'
  BY <1>11 DEF Run
<1>12. ASSUME NEW w \in Workers, WakeSpuriously(w) PROVE TypeOK'
  BY <1>12 DEF WakeSpuriously
<1>13. CASE UNCHANGED vars
  BY <1>13 DEF vars
<1>14. QED
  BY <1>1, <1>2, <1>3, <1>4, <1>5, <1>6, <1>7, <1>8, <1>9, <1>10, <1>11, <1>12, <1>13
     DEF Next, OwnerStep, WorkerStep, Ended

\* The mutex has one holder, in a critical section, and workers return only
\* after stop_.
LEMMA SectionsStep ==
  ASSUME PoolInv, TypeOK', [Next]_vars
  PROVE  MutexInv' /\ StopInv'
<1> USE PoolAssumption DEF PoolInv, TypeOK, MutexInv, StopInv, Waiting
<1>1. CASE Enqueue
  BY <1>1 DEF Enqueue
<1>2. CASE Destroy
  BY <1>2 DEF Destroy
<1>3. CASE OwnerLock
  BY <1>3 DEF OwnerLock
<1>4. CASE Push
  BY <1>4 DEF Push
<1>5. CASE NotifyOne
  BY <1>5 DEF NotifyOne
<1>6. CASE Stop
  BY <1>6 DEF Stop
<1>7. CASE NotifyAll
  BY <1>7 DEF NotifyAll
<1>8. CASE Join
  BY <1>8 DEF Join
<1>9. ASSUME NEW w \in Workers, Lock(w) PROVE MutexInv' /\ StopInv'
  BY <1>9 DEF Lock
<1>10. ASSUME NEW w \in Workers, Test(w) PROVE MutexInv' /\ StopInv'
  BY <1>10 DEF Test
<1>11. ASSUME NEW w \in Workers, Run(w) PROVE MutexInv' /\ StopInv'
  BY <1>11 DEF Run
<1>12. ASSUME NEW w \in Workers, WakeSpuriously(w) PROVE MutexInv' /\ StopInv'
  BY <1>12 DEF WakeSpuriously
<1>13. CASE UNCHANGED vars
  BY <1>13 DEF vars
<1>14. QED
  BY <1>1, <1>2, <1>3, <1>4, <1>5, <1>6, <1>7, <1>8, <1>9, <1>10, <1>11, <1>12, <1>13
     DEF Next, OwnerStep, WorkerStep, Ended

\* A queued task keeps a worker that will take it.
LEMMA WakeupStep ==
  ASSUME PoolInv, TypeOK', [Next]_vars
  PROVE  NoLostWakeup'
<1> USE DEF PoolInv, TypeOK, StopInv, Waiting, NoLostWakeup, WorkerPlaces
<1>1. CASE Enqueue
  BY <1>1 DEF Enqueue
<1>2. CASE Destroy
  BY <1>2 DEF Destroy
<1>3. CASE OwnerLock
  BY <1>3 DEF OwnerLock
<1>4. CASE Push
  BY <1>4 DEF Push
<1>5. CASE NotifyOne
  BY <1>5, PoolAssumption DEF NotifyOne
<1>6. CASE Stop
  BY <1>6 DEF Stop
<1>7. CASE NotifyAll
  BY <1>7 DEF NotifyAll
<1>8. CASE Join
  BY <1>8 DEF Join
<1>9. ASSUME NEW w \in Workers, Lock(w) PROVE NoLostWakeup'
  BY <1>9 DEF Lock
<1>10. ASSUME NEW w \in Workers, Test(w) PROVE NoLostWakeup'
  BY <1>10 DEF Test
<1>11. ASSUME NEW w \in Workers, Run(w) PROVE NoLostWakeup'
  BY <1>11 DEF Run
<1>12. ASSUME NEW w \in Workers, WakeSpuriously(w) PROVE NoLostWakeup'
  BY <1>12 DEF WakeSpuriously
<1>13. CASE UNCHANGED vars
  BY <1>13 DEF vars
<1>14. QED
  BY <1>1, <1>2, <1>3, <1>4, <1>5, <1>6, <1>7, <1>8, <1>9, <1>10, <1>11, <1>12, <1>13
     DEF Next, OwnerStep, WorkerStep, Ended

\* The queue stays the interval of the numbers not taken.
LEMMA QueueStep ==
  ASSUME PoolInv, TypeOK', [Next]_vars
  PROVE  QueueInv'
<1> USE DEF PoolInv, TypeOK, QueueInv, Busy
<1>1. CASE Enqueue
  BY <1>1 DEF Enqueue
<1>2. CASE Destroy
  BY <1>2 DEF Destroy
<1>3. CASE OwnerLock
  BY <1>3 DEF OwnerLock
<1>4. CASE Push
  <2>1. /\ Len(tasks') = Len(tasks) + 1 /\ enqueued' = enqueued + 1
        /\ \A i \in 1..Len(tasks) : tasks'[i] = tasks[i]
        /\ tasks'[Len(tasks) + 1] = enqueued + 1
    BY <1>4, Appended DEF Push
  <2>2. enqueued' - Len(tasks') = enqueued - Len(tasks)
    BY <2>1
  <2>3. ASSUME NEW i \in 1..Len(tasks')
        PROVE  tasks'[i] = (enqueued' - Len(tasks')) + i
    <3>1. CASE i \in 1..Len(tasks)
      BY <2>1, <2>2, <3>1
    <3>2. CASE i = Len(tasks) + 1
      BY <2>1, <2>2, <3>2
    <3>3. QED
      BY <2>1, <3>1, <3>2
  <2>4. QED
    BY <1>4, <2>1, <2>2, <2>3 DEF Push
<1>5. CASE NotifyOne
  BY <1>5 DEF NotifyOne, Waiting
<1>6. CASE Stop
  BY <1>6 DEF Stop
<1>7. CASE NotifyAll
  BY <1>7 DEF NotifyAll, Waiting
<1>8. CASE Join
  BY <1>8 DEF Join
<1>9. ASSUME NEW w \in Workers, Lock(w) PROVE QueueInv'
  BY <1>9 DEF Lock
<1>10. ASSUME NEW w \in Workers, Test(w) PROVE QueueInv'
  <2>1. CASE tasks = <<>>
    BY <1>10, <2>1 DEF Test
  <2>2. CASE tasks # <<>>
    <3>1. /\ Len(tasks') = Len(tasks) - 1
          /\ \A i \in 1..Len(tasks') : tasks'[i] = tasks[i + 1]
          /\ task'[w] = tasks[1] /\ task'[w] = (enqueued - Len(tasks)) + 1
          /\ \A v \in Workers \ {w} : task'[v] = task[v] /\ worker'[v] = worker[v]
          /\ UNCHANGED <<enqueued, owner>>
      <4>1. tasks' = Tail(tasks) /\ task' = [task EXCEPT ![w] = Head(tasks)]
        BY <1>10, <2>2 DEF Test
      <4>2. /\ Len(tasks') = Len(tasks) - 1
            /\ \A i \in 1..Len(tasks') : tasks'[i] = tasks[i + 1]
            /\ Head(tasks) = tasks[1] /\ Len(tasks) \in Nat \ {0}
        BY <4>1, <2>2, HeadTaken
      <4>3. tasks[1] = (enqueued - Len(tasks)) + 1
        BY <4>2
      <4>4. QED
        BY <1>10, <2>2, <4>1, <4>2, <4>3 DEF Test
    <3>2. enqueued' - Len(tasks') = (enqueued - Len(tasks)) + 1
      BY <3>1
    <3>3. \A i \in 1..Len(tasks') : tasks'[i] = (enqueued' - Len(tasks')) + i
      BY <3>1, <3>2
    <3>4. \A v \in Busy' : v # w => v \in Busy /\ task'[v] \in 1..(enqueued - Len(tasks))
      BY <3>1
    <3>5. Len(tasks') <= enqueued' /\ Len(tasks) \in Nat \ {0}
      BY <3>1, <2>2, HeadTaken
    <3>6. \A v \in Busy' : task'[v] \in 1..(enqueued' - Len(tasks'))
      BY <3>1, <3>2, <3>4, <3>5
    <3>7. \A v \in Busy' : v # w => task'[v] # task'[w]
      BY <3>1, <3>4, <3>5
    <3>8. \A u, v \in Busy' : task'[u] = task'[v] => u = v
      BY <3>1, <3>4, <3>7
    <3>9. owner' \in {"enqueue", "push"} => enqueued' < MaxTasks
      BY <3>1
    <3>10. QED
      BY <3>3, <3>5, <3>6, <3>8, <3>9
  <2>3. QED
    BY <2>1, <2>2
<1>11. ASSUME NEW w \in Workers, Run(w) PROVE QueueInv'
  BY <1>11 DEF Run
<1>12. ASSUME NEW w \in Workers, WakeSpuriously(w) PROVE QueueInv'
  BY <1>12 DEF WakeSpuriously
<1>13. CASE UNCHANGED vars
  BY <1>13 DEF vars
<1>14. QED
  BY <1>1, <1>2, <1>3, <1>4, <1>5, <1>6, <1>7, <1>8, <1>9, <1>10, <1>11, <1>12, <1>13
     DEF Next, OwnerStep, WorkerStep, Ended

\* The invariant of the pool.
LEMMA PoolInvariant == Spec => []PoolInv
<1>1. PoolInv /\ [Next]_vars => PoolInv'
  BY TypesStep, SectionsStep, WakeupStep, QueueStep DEF PoolInv
<1>2. QED
  BY <1>1, PoolInvInit, PTL DEF Spec

\* A queued task always has a worker that is awake, or about to be woken.
THEOREM NoLostWakeupHolds == Spec => []NoLostWakeup
<1>1. PoolInv => NoLostWakeup
  BY DEF PoolInv
<1>2. QED
  BY <1>1, PoolInvariant, PTL

-----------------------------------------------------------------------------
(* The refinement: what a step of the pool is to TaskPool.                 *)

Started == enqueued - Len(tasks)
Running == [w \in Workers |-> IF worker[w] = "run" THEN task[w] ELSE 0]
Phase == IF owner = "gone" THEN "closed" ELSE IF stop THEN "closing" ELSE "open"

\* How the pool starts, and what it leaves alone, in terms of TaskPool.
LEMMA Mapped ==
  /\ Pool!Init <=> enqueued = 0 /\ Started = 0 /\ Running = [w \in Workers |-> 0] /\ Phase = "open"
  /\ UNCHANGED <<enqueued, Started, Running, Phase>> => UNCHANGED Pool!vars
  BY DEF Pool!Init, Pool!vars, Started, Running, Phase

\* A worker that finds a task is one that ran nothing, and takes the next.
LEMMA TestStarts ==
  ASSUME PoolInv, NEW w \in Workers, Test(w), tasks # <<>>
  PROVE  Pool!Start(w)
<1> USE DEF PoolInv, TypeOK
<1>1. /\ tasks' = Tail(tasks) /\ task' = [task EXCEPT ![w] = Head(tasks)]
      /\ worker' = [worker EXCEPT ![w] = "run"]
      /\ worker[w] = "test" /\ UNCHANGED <<stop, enqueued, owner>>
  BY DEF Test
<1>2. /\ Len(tasks) \in Nat \ {0} /\ Len(tasks') = Len(tasks) - 1
      /\ Head(tasks) = Started + 1
  BY <1>1, HeadTaken DEF QueueInv, Started
<1>3. Started < enqueued /\ Started' = Started + 1
  BY <1>1, <1>2 DEF Started
<1>4. Running[w] = 0 /\ Running' = [Running EXCEPT ![w] = Started + 1]
  BY <1>1, <1>2 DEF Running
<1>5. UNCHANGED <<enqueued, Phase>>
  BY <1>1 DEF Phase
<1>6. QED
  BY <1>3, <1>4, <1>5 DEF Pool!Start, Started, Running, Phase

\* A worker that comes back from its task has finished it.
LEMMA RunFinishes ==
  ASSUME PoolInv, NEW w \in Workers, Run(w)
  PROVE  Pool!Finish(w)
<1> USE DEF PoolInv, TypeOK
<1>1. Running[w] # 0
  BY DEF Run, Running, QueueInv, Busy
<1>2. Running' = [Running EXCEPT ![w] = 0]
  BY DEF Run, Running
<1>3. UNCHANGED <<enqueued, Started, Phase>>
  BY DEF Run, Started, Phase
<1>4. QED
  BY <1>1, <1>2, <1>3 DEF Pool!Finish, Started, Running, Phase

\* enqueue submits where it pushes, the destructor closes where it sets stop_
\* and has closed when it has joined the workers.
LEMMA OwnerSteps ==
  ASSUME PoolInv
  PROVE  /\ Push => Pool!Submit
         /\ Stop => Pool!Close
         /\ Join => Pool!Closed
<1> USE DEF PoolInv, TypeOK, StopInv
<1>1. ASSUME Push PROVE Pool!Submit
  <2>1. Phase = "open" /\ Phase' = "open" /\ Running' = Running
    BY <1>1 DEF Push, Phase, Running
  <2>2. enqueued < MaxTasks /\ enqueued' = enqueued + 1
    BY <1>1 DEF Push, QueueInv
  <2>3. Started' = Started
    BY <1>1, Appended DEF Push, Started
  <2>4. QED
    BY <2>1, <2>2, <2>3 DEF Pool!Submit, Started, Running, Phase
<1>2. ASSUME Stop PROVE Pool!Close
  <2>1. Phase = "open" /\ Phase' = "closing"
    BY <1>2 DEF Stop, Phase
  <2>2. UNCHANGED <<enqueued, Started, Running>>
    BY <1>2 DEF Stop, Started, Running
  <2>3. QED
    BY <2>1, <2>2 DEF Pool!Close, Started, Running, Phase
<1>3. ASSUME Join PROVE Pool!Closed
  <2>1. Phase = "closing" /\ Phase' = "closed"
    BY <1>3 DEF Join, Phase
  <2>2. Started = enqueued
    BY <1>3, PoolAssumption DEF Join, Started
  <2>3. \A w \in Workers : Running[w] = 0
    BY <1>3 DEF Join, Running
  <2>4. UNCHANGED <<enqueued, Started, Running>>
    BY <1>3 DEF Join, Started, Running
  <2>5. QED
    BY <2>1, <2>2, <2>3, <2>4 DEF Pool!Closed, Started, Running, Phase
<1>4. QED
  BY <1>1, <1>2, <1>3

\* Every other step, the passing of the mutex and of notifications, is one
\* TaskPool does not see.
LEMMA OtherSteps ==
  ASSUME PoolInv,
         \/ Enqueue \/ Destroy \/ OwnerLock \/ NotifyOne \/ NotifyAll
         \/ \E w \in Workers : Lock(w) \/ WakeSpuriously(w) \/ (Test(w) /\ tasks = <<>>)
         \/ UNCHANGED vars
  PROVE  UNCHANGED Pool!vars
<1> USE DEF PoolInv, TypeOK, StopInv, Started, Running, Phase
<1> SUFFICES UNCHANGED <<enqueued, Started, Running, Phase>>
  BY Mapped
<1>1. CASE Enqueue \/ Destroy \/ OwnerLock
  <2>1. UNCHANGED <<tasks, enqueued, worker, task, stop>>
    BY <1>1 DEF Enqueue, Destroy, OwnerLock
  <2>2. owner # "gone" /\ owner' # "gone"
    BY <1>1 DEF Enqueue, Destroy, OwnerLock
  <2>3. QED
    BY <2>1, <2>2
<1>2. CASE NotifyOne \/ NotifyAll
  <2>1. UNCHANGED <<tasks, enqueued, task, stop>> /\ owner # "gone" /\ owner' # "gone"
    BY <1>2 DEF NotifyOne, NotifyAll
  <2>2. Running' = Running
    <3>1. \A w \in Workers : /\ worker'[w] = "run" <=> worker[w] = "run"
                             /\ task'[w] = task[w]
      BY <1>2, <2>1 DEF NotifyOne, NotifyAll, Waiting
    <3>2. QED
      BY <3>1
  <2>3. QED
    BY <2>1, <2>2
<1>3. ASSUME NEW w \in Workers, Lock(w) \/ WakeSpuriously(w) \/ (Test(w) /\ tasks = <<>>)
      PROVE  UNCHANGED <<enqueued, Started, Running, Phase>>
  <2>1. UNCHANGED <<tasks, enqueued, task, stop, owner>>
    BY <1>3 DEF Lock, WakeSpuriously, Test
  <2>2. Running' = Running
    <3>1. \A v \in Workers : /\ worker'[v] = "run" <=> worker[v] = "run"
                             /\ task'[v] = task[v]
      BY <1>3, <2>1 DEF Lock, WakeSpuriously, Test
    <3>2. QED
      BY <3>1
  <2>3. QED
    BY <2>1, <2>2
<1>4. CASE UNCHANGED vars
  BY <1>4 DEF vars
<1>5. QED
  BY <1>1, <1>2, <1>3, <1>4

\* The pool runs every task it is given once, in the order in which it was
\* given them, and its destructor leaves none: its steps are TaskPool's.
THEOREM RefinesTaskPool == Spec => Pool!Safety
<1>1. Init => Pool!Init
  <2>1. Init => enqueued = 0 /\ Started = 0 /\ Running = [w \in Workers |-> 0] /\ Phase = "open"
    <3>1. Init => Started = 0
      <4>1. Init => enqueued = 0 /\ Len(tasks) = 0
        BY DEF Init
      <4>2. \A m, n \in Nat : m = 0 /\ n = 0 => m - n = 0
        OBVIOUS
      <4>3. QED
        BY <4>1, <4>2 DEF Started
    <3>2. Init => Running = [w \in Workers |-> 0]
      BY DEF Init, Running
    <3>3. Init => enqueued = 0 /\ Phase = "open"
      BY DEF Init, Phase
    <3>4. QED
      BY <3>1, <3>2, <3>3
  <2>2. QED
    BY <2>1, Mapped
<1>2. PoolInv /\ [Next]_vars => [Pool!Next]_(Pool!vars)
  <2> SUFFICES ASSUME PoolInv, [Next]_vars
               PROVE  Pool!Next \/ UNCHANGED Pool!vars
    OBVIOUS
  <2>1. ASSUME NEW w \in Workers, WorkerStep(w)
        PROVE  Pool!Next \/ UNCHANGED Pool!vars
    BY <2>1, TestStarts, RunFinishes, OtherSteps DEF WorkerStep, Pool!Next
  <2>2. CASE OwnerStep
    BY <2>2, OwnerSteps, OtherSteps DEF OwnerStep, Pool!Next
  <2>3. CASE \/ Enqueue \/ Destroy \/ Ended \/ UNCHANGED vars
             \/ \E w \in Workers : WakeSpuriously(w)
    BY <2>3, OtherSteps DEF Ended
  <2>4. QED
    BY <2>1, <2>2, <2>3 DEF Next
<1>3. QED
  BY <1>1, <1>2, PoolInvariant, PTL DEF Spec, Pool!Safety

=============================================================================
