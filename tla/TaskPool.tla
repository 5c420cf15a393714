------------------------------ MODULE TaskPool ------------------------------
(***************************************************************************)
(* What the thread pool promises to those who give it work: tasks, which   *)
(* are numbered as they are submitted, start in that order, each once, on  *)
(* a thread that runs nothing else; and closing the pool waits for every   *)
(* task that was submitted.                                                *)
(***************************************************************************)
EXTENDS Naturals

CONSTANTS
  Threads,
  MaxTasks      \* bound on the tasks submitted

VARIABLES
  submitted,    \* how many tasks were submitted
  started,      \* how many of them have started
  running,      \* the task each thread runs, 0 if none
  phase         \* "open", "closing" or "closed"

vars == <<submitted, started, running, phase>>

Init ==
  /\ submitted = 0
  /\ started = 0
  /\ running = [t \in Threads |-> 0]
  /\ phase = "open"

Submit ==
  /\ phase = "open"
  /\ submitted < MaxTasks
  /\ submitted' = submitted + 1
  /\ UNCHANGED <<started, running, phase>>

Start(t) ==
  /\ started < submitted
  /\ running[t] = 0
  /\ started' = started + 1
  /\ running' = [running EXCEPT ![t] = started + 1]
  /\ UNCHANGED <<submitted, phase>>

Finish(t) ==
  /\ running[t] # 0
  /\ running' = [running EXCEPT ![t] = 0]
  /\ UNCHANGED <<submitted, started, phase>>

Close ==
  /\ phase = "open"
  /\ phase' = "closing"
  /\ UNCHANGED <<submitted, started, running>>

Closed ==
  /\ phase = "closing"
  /\ started = submitted
  /\ \A t \in Threads : running[t] = 0
  /\ phase' = "closed"
  /\ UNCHANGED <<submitted, started, running>>

Next == Submit \/ Close \/ Closed \/ \E t \in Threads : Start(t) \/ Finish(t)

Safety == Init /\ [][Next]_vars

\* Every task that was submitted starts and finishes.
TasksFinish ==
  \A n \in 1..MaxTasks :
    (submitted >= n) ~> (started >= n /\ \A t \in Threads : running[t] # n)

\* Closing the pool comes to its end.
CloseReturns == (phase = "closing") ~> (phase = "closed")

Spec == Safety /\ TasksFinish /\ CloseReturns
=============================================================================
