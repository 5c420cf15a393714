----------------------------- MODULE FrameCache -----------------------------
(***************************************************************************)
(* The prefetching of frames, H264MediaSource and AACMediaSource alike.  A *)
(* source keeps up to max_frame_size_ frames in frames_.  Its constructor  *)
(* and every ReadFrame queue a task of the shared thread pool; the task    *)
(* takes the next frame out of the file, under the mutex of the source,    *)
(* and notifies ReadFrame, which the timer of the track runs on the thread *)
(* of the event loop.  The frames of a file are numbered from 1.           *)
(***************************************************************************)
EXTENDS Naturals, Sequences, FiniteSets

CONSTANTS
  Sources,        \* the media sources that share the pool
  Workers,        \* its threads (4 in main.cpp)
  MaxFrames,      \* max_frame_size_ (8)
  FileFrames,     \* how many frames a file yields before its end
  None

ASSUME CacheAssumption ==
  /\ IsFiniteSet(Sources) /\ IsFiniteSet(Workers)
  /\ MaxFrames \in Nat \ {0}
  /\ FileFrames \in [Sources -> Nat]
  /\ None \notin Sources \cup Workers

VARIABLES
  toPrime,    \* the CacheFrame calls the constructor of a source has to go
  tasks,      \* tasks_ of the pool: the source each queued task is for
  worker,     \* what a thread of the pool is doing, and for which source
  mutex,      \* the worker that holds mutex_ of a source
  position,   \* how many frames were taken out of the file of a source
  frames,     \* frames_
  played,     \* how many frames ReadFrame has returned
  loop        \* what the event loop is doing, and for which source

vars == <<toPrime, tasks, worker, mutex, position, frames, played, loop>>

Idle == [at |-> "idle", source |-> None]
At(step, s) == [at |-> step, source |-> s]

WorkerStates ==
  {Idle} \cup {At(step, s) : step \in {"task", "reading", "notify"}, s \in Sources}

LoopStates ==
  {Idle} \cup {At(step, s) : step \in {"read", "asleep", "cache"}, s \in Sources}

TypeOK ==
  /\ toPrime \in [Sources -> 0..MaxFrames]
  /\ tasks \in Seq(Sources)
  /\ worker \in [Workers -> WorkerStates]
  /\ mutex \in [Sources -> Workers \cup {None}]
  /\ position \in [Sources -> Nat]
  /\ frames \in [Sources -> Seq(Nat)]
  /\ played \in [Sources -> Nat]
  /\ loop \in LoopStates

Init ==
  /\ toPrime = [s \in Sources |-> MaxFrames]
  /\ tasks = <<>>
  /\ worker = [w \in Workers |-> Idle]
  /\ mutex = [s \in Sources |-> None]
  /\ position = [s \in Sources |-> 0]
  /\ frames = [s \in Sources |-> <<>>]
  /\ played = [s \in Sources |-> 0]
  /\ loop = Idle

-----------------------------------------------------------------------------
(* The thread of main and of the event loop.                               *)

\* CacheFrame: one more task for the pool.
CacheFrame(s) == tasks' = Append(tasks, s)

\* Wrong variant: the constructor counts to max_frame_size_ inclusive.
PrimeOneMore(s) ==
  /\ loop = Idle
  /\ toPrime[s] + 1 > 0
  /\ \A r \in Sources \ {s} : toPrime[r] \in {0, MaxFrames}
  /\ toPrime' = [toPrime EXCEPT ![s] = @ - 1]
  /\ CacheFrame(s)
  /\ UNCHANGED <<worker, mutex, position, frames, played, loop>>

\* One turn of the loop in the constructor of a source; main constructs one
\* source after the other.
Prime(s) ==
  /\ loop = Idle
  /\ toPrime[s] > 0
  /\ \A r \in Sources \ {s} : toPrime[r] \in {0, MaxFrames}
  /\ toPrime' = [toPrime EXCEPT ![s] = @ - 1]
  /\ CacheFrame(s)
  /\ UNCHANGED <<worker, mutex, position, frames, played, loop>>

\* The timer of the track expires: Sink::handleTimeout calls ReadFrame.  The
\* event loop starts when every source has been constructed.
HandleTimeout(s) ==
  /\ loop = Idle
  /\ \A r \in Sources : toPrime[r] = 0
  /\ loop' = At("read", s)
  /\ UNCHANGED <<toPrime, tasks, worker, mutex, position, frames, played>>

\* ReadFrame has the mutex: it takes the oldest frame, or sleeps on cv_.
ReadFrame(s) ==
  /\ loop = At("read", s)
  /\ mutex[s] = None
  /\ IF frames[s] # <<>>
       THEN /\ frames' = [frames EXCEPT ![s] = Tail(@)]
            /\ played' = [played EXCEPT ![s] = @ + 1]
            /\ loop' = At("cache", s)
       ELSE /\ loop' = At("asleep", s)
            /\ UNCHANGED <<frames, played>>
  /\ UNCHANGED <<toPrime, tasks, worker, mutex, position>>

\* cv_.wait may also return without a notification, to test its condition again.
WakeSpuriously(s) ==
  /\ loop = At("asleep", s)
  /\ loop' = At("read", s)
  /\ UNCHANGED <<toPrime, tasks, worker, mutex, position, frames, played>>

\* Wrong variant: a second task, to be ahead.
RefillTwice(s) ==
  /\ loop = At("cache", s)
  /\ loop' = Idle
  /\ tasks' = tasks \o <<s, s>>
  /\ UNCHANGED <<toPrime, worker, mutex, position, frames, played>>

\* The end of ReadFrame: the task that replaces the frame it took.
Refill(s) ==
  /\ loop = At("cache", s)
  /\ loop' = Idle
  /\ CacheFrame(s)
  /\ UNCHANGED <<toPrime, worker, mutex, position, frames, played>>

-----------------------------------------------------------------------------
(* A thread of the pool.                                                   *)

TakeTask(w) ==
  /\ worker[w] = Idle
  /\ tasks # <<>>
  /\ worker' = [worker EXCEPT ![w] = At("task", Head(tasks))]
  /\ tasks' = Tail(tasks)
  /\ UNCHANGED <<toPrime, mutex, position, frames, played, loop>>

\* Wrong variant: the task reads the file before it locks.
LockNothing(w, s) ==
  /\ worker[w] = At("task", s)
  /\ worker' = [worker EXCEPT ![w] = At("reading", s)]
  /\ UNCHANGED <<toPrime, tasks, mutex, position, frames, played, loop>>

Lock(w, s) ==
  /\ worker[w] = At("task", s)
  /\ mutex[s] = None
  /\ mutex' = [mutex EXCEPT ![s] = w]
  /\ worker' = [worker EXCEPT ![w] = At("reading", s)]
  /\ UNCHANGED <<toPrime, tasks, position, frames, played, loop>>

\* Wrong variant: at the end of the file the task caches an old frame again.
CacheAnyFrame(w, s) ==
  /\ worker[w] = At("reading", s)
  /\ frames' = [frames EXCEPT ![s] = Append(@, position[s] + 1)]
  /\ position' = IF position[s] < FileFrames[s]
                   THEN [position EXCEPT ![s] = @ + 1] ELSE position
  /\ mutex' = [mutex EXCEPT ![s] = None]
  /\ worker' = [worker EXCEPT ![w] = At("notify", s)]
  /\ UNCHANGED <<toPrime, tasks, played, loop>>

(* GetFrameFromFile, and the frame, if there is one, joins frames_; then   *)
(* the mutex is given up.  Past the end of the file the frame is empty and *)
(* is dropped: nothing replaces the one the task was queued for.           *)
Cache(w, s) ==
  /\ worker[w] = At("reading", s)
  /\ IF position[s] < FileFrames[s]
       THEN /\ position' = [position EXCEPT ![s] = @ + 1]
            /\ frames' = [frames EXCEPT ![s] = Append(@, position[s] + 1)]
       ELSE UNCHANGED <<position, frames>>
  /\ mutex' = [mutex EXCEPT ![s] = None]
  /\ worker' = [worker EXCEPT ![w] = At("notify", s)]
  /\ UNCHANGED <<toPrime, tasks, played, loop>>

\* Wrong variant: nobody is notified.
NotifyNobody(w, s) ==
  /\ worker[w] = At("notify", s)
  /\ worker' = [worker EXCEPT ![w] = Idle]
  /\ UNCHANGED <<toPrime, tasks, mutex, position, frames, played, loop>>

\* cv_.notify_all, after the mutex was given up.
Notify(w, s) ==
  /\ worker[w] = At("notify", s)
  /\ worker' = [worker EXCEPT ![w] = Idle]
  /\ loop' = IF loop = At("asleep", s) THEN At("read", s) ELSE loop
  /\ UNCHANGED <<toPrime, tasks, mutex, position, frames, played>>

-----------------------------------------------------------------------------
LoopStep(s) == Prime(s) \/ ReadFrame(s) \/ Refill(s)

WorkerStep(w) ==
  TakeTask(w) \/ \E s \in Sources : Lock(w, s) \/ Cache(w, s) \/ Notify(w, s)

Next ==
  \/ \E s \in Sources : LoopStep(s) \/ HandleTimeout(s) \/ WakeSpuriously(s)
  \/ \E w \in Workers : WorkerStep(w)

Spec == Init /\ [][Next]_vars

\* The threads are scheduled and a free mutex is not refused for ever; nothing
\* says that a timer expires again, or that cv_ wakes without a notification.
FairSpec ==
  /\ Spec
  /\ \A s \in Sources : WF_vars(LoopStep(s))
  /\ \A w \in Workers : WF_vars(WorkerStep(w))

-----------------------------------------------------------------------------
(* Properties.                                                             *)

\* "concurrent call is not allowed" (H264MediaSource.cpp:40): two tasks never
\* take a frame out of the same file at once, so its RingBuffer needs no lock.
OneReader ==
  \A v, w \in Workers, s \in Sources :
    worker[v] = At("reading", s) /\ worker[w] = At("reading", s) => v = w

\* Frames are returned in the order of the file, none twice and none left out,
\* whichever workers fetched them: frames_ continues where ReadFrame is.
InOrder ==
  \A s \in Sources :
    /\ position[s] = played[s] + Len(frames[s])
    /\ \A i \in DOMAIN frames[s] : frames[s][i] = played[s] + i

\* What a source has cached, queued, in the hands of a worker or about to queue.
Outstanding(s) ==
  toPrime[s]
    + Cardinality({i \in DOMAIN tasks : tasks[i] = s})
    + Cardinality({w \in Workers : worker[w] \in {At("task", s), At("reading", s)}})
    + Len(frames[s])
    + (IF loop = At("cache", s) THEN 1 ELSE 0)

\* Every frame taken is replaced by one task: a source never caches more than
\* max_frame_size_ frames, and before the end of its file never works on fewer.
Replaced ==
  \A s \in Sources :
    /\ Outstanding(s) <= MaxFrames
    /\ position[s] < FileFrames[s] => Outstanding(s) = MaxFrames

\* ReadFrame returns as long as the file has a frame it has not returned, also
\* while other sources have come to their end: no notification is lost.
FramePlayed ==
  \A s \in Sources :
    (loop = At("read", s) /\ played[s] < FileFrames[s]) ~> (loop = At("cache", s))

\* A timer only paces the packets of its track and leaves the thread to the
\* sockets (README.md:11): what the event loop started, it comes back from.
LoopReturns == (loop # Idle) ~> (loop = Idle)
=============================================================================
