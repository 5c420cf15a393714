-------------------------- MODULE FrameCacheProofs --------------------------
(***************************************************************************)
(* Proofs about FrameCache, for any number of sources and workers, files   *)
(* and caches of any length: a file has one reader at a time, and frames   *)
(* are cached and returned in its order.  Both follow from the mutex being *)
(* held by whoever reads, which is what makes them inductive.  And every   *)
(* frame that is returned is replaced, once (Replaced): the cached frames, *)
(* the queued tasks and those under way are counted, step by step.         *)
(***************************************************************************)
EXTENDS FrameCache, FiniteSetTheorems, TLAPS

\* The program counters the actions assign are states of workers and of the loop.
LEMMA States ==
  /\ Idle \in WorkerStates /\ Idle \in LoopStates
  /\ \A s \in Sources : /\ At("task", s) \in WorkerStates
                        /\ At("reading", s) \in WorkerStates
                        /\ At("notify", s) \in WorkerStates
                        /\ At("read", s) \in LoopStates
                        /\ At("asleep", s) \in LoopStates
                        /\ At("cache", s) \in LoopStates
BY DEF WorkerStates, LoopStates

\* No step leads out of the types.
LEMMA TypeStep ==
  ASSUME TypeOK, [Next]_vars
  PROVE  TypeOK'
<1> USE CacheAssumption, States
<1>1. ASSUME NEW s \in Sources, Prime(s) PROVE TypeOK'
  BY <1>1 DEF TypeOK, Prime, CacheFrame
<1>2. ASSUME NEW s \in Sources, HandleTimeout(s) PROVE TypeOK'
  BY <1>2 DEF TypeOK, HandleTimeout
<1>3. ASSUME NEW s \in Sources, ReadFrame(s) PROVE TypeOK'
  <2>1. CASE frames[s] # <<>>
    <3>1. Tail(frames[s]) \in Seq(Nat) /\ played[s] + 1 \in Nat
      BY <2>1 DEF TypeOK
    <3>2. /\ frames' = [frames EXCEPT ![s] = Tail(frames[s])]
          /\ played' = [played EXCEPT ![s] = played[s] + 1]
          /\ loop' = At("cache", s)
          /\ UNCHANGED <<toPrime, tasks, worker, mutex, position>>
      BY <1>3, <2>1 DEF ReadFrame
    <3>3. frames' \in [Sources -> Seq(Nat)] /\ played' \in [Sources -> Nat]
      BY <3>1, <3>2 DEF TypeOK
    <3>4. QED
      BY <3>2, <3>3 DEF TypeOK
  <2>2. CASE frames[s] = <<>>
    BY <1>3, <2>2 DEF TypeOK, ReadFrame
  <2>3. QED
    BY <2>1, <2>2
<1>4. ASSUME NEW s \in Sources, WakeSpuriously(s) PROVE TypeOK'
  BY <1>4 DEF TypeOK, WakeSpuriously
<1>5. ASSUME NEW s \in Sources, Refill(s) PROVE TypeOK'
  BY <1>5 DEF TypeOK, Refill, CacheFrame
<1>6. ASSUME NEW w \in Workers, TakeTask(w) PROVE TypeOK'
  <2>1. Head(tasks) \in Sources /\ Tail(tasks) \in Seq(Sources)
    BY <1>6 DEF TypeOK, TakeTask
  <2>2. QED
    BY <1>6, <2>1 DEF TypeOK, TakeTask
<1>7. ASSUME NEW w \in Workers, NEW s \in Sources, Lock(w, s) PROVE TypeOK'
  BY <1>7 DEF TypeOK, Lock
<1>8. ASSUME NEW w \in Workers, NEW s \in Sources, Cache(w, s) PROVE TypeOK'
  <2>1. position[s] + 1 \in Nat /\ Append(frames[s], position[s] + 1) \in Seq(Nat)
    BY DEF TypeOK
  <2>2. /\ position' \in [Sources -> Nat]
        /\ frames' \in [Sources -> Seq(Nat)]
    <3>1. CASE UNCHANGED <<position, frames>>
      BY <3>1 DEF TypeOK
    <3>2. CASE /\ position' = [position EXCEPT ![s] = position[s] + 1]
               /\ frames' = [frames EXCEPT ![s] = Append(frames[s], position[s] + 1)]
      BY <2>1, <3>2 DEF TypeOK
    <3>3. QED
      BY <1>8, <3>1, <3>2 DEF Cache
  <2>3. /\ mutex' \in [Sources -> Workers \cup {None}]
        /\ worker' \in [Workers -> WorkerStates]
        /\ UNCHANGED <<toPrime, tasks, played, loop>>
    BY <1>8 DEF TypeOK, Cache
  <2>4. QED
    BY <2>2, <2>3 DEF TypeOK
<1>9. ASSUME NEW w \in Workers, NEW s \in Sources, Notify(w, s) PROVE TypeOK'
  BY <1>9 DEF TypeOK, Notify
<1>10. CASE UNCHANGED vars
  BY <1>10 DEF TypeOK, vars
<1>11. QED
  BY <1>1, <1>2, <1>3, <1>4, <1>5, <1>6, <1>7, <1>8, <1>9, <1>10
     DEF Next, LoopStep, WorkerStep

\* Every variable keeps its type, for any parameters.
THEOREM TypeCorrect == Spec => []TypeOK
<1>1. Init => TypeOK
  <2>1. <<>> \in Seq(Sources) /\ <<>> \in Seq(Nat)
    OBVIOUS
  <2>2. QED
    BY <2>1, CacheAssumption, States DEF Init, TypeOK
<1>2. TypeOK /\ [Next]_vars => TypeOK'
  BY TypeStep
<1>3. QED
  BY <1>1, <1>2, PTL DEF Spec

-----------------------------------------------------------------------------
\* Whoever takes a frame out of a file holds the mutex of its source.
ReaderLocks ==
  \A w \in Workers, s \in Sources : worker[w] = At("reading", s) => mutex[s] = w

\* Program counters differ when their steps or their sources do.
LEMMA Steps ==
  /\ \A s \in Sources : At("reading", s) # Idle /\ At("cache", s) # Idle
  /\ \A s, t \in Sources : /\ At("task", s) # At("reading", t)
                           /\ At("notify", s) # At("reading", t)
                           /\ At("reading", s) = At("reading", t) => s = t
BY DEF At, Idle

\* No two tasks take frames out of the same file at once.
THEOREM OneReaderHolds == Spec => []OneReader
<1>1. Init => ReaderLocks
  BY Steps DEF Init, ReaderLocks
<1>2. TypeOK /\ ReaderLocks /\ [Next]_vars => ReaderLocks'
  <2> SUFFICES ASSUME TypeOK, ReaderLocks, [Next]_vars PROVE ReaderLocks'
    OBVIOUS
  <2> USE CacheAssumption, Steps DEF TypeOK, ReaderLocks
  <2>1. ASSUME NEW s \in Sources,
               LoopStep(s) \/ HandleTimeout(s) \/ WakeSpuriously(s)
        PROVE  ReaderLocks'
    BY <2>1 DEF LoopStep, Prime, ReadFrame, Refill, HandleTimeout, WakeSpuriously
  <2>2. ASSUME NEW w \in Workers, TakeTask(w) PROVE ReaderLocks'
    <3>1. Head(tasks) \in Sources
      BY <2>2 DEF TakeTask
    <3>2. QED
      BY <2>2, <3>1 DEF TakeTask
  <2>3. ASSUME NEW w \in Workers, NEW s \in Sources, Lock(w, s) PROVE ReaderLocks'
    BY <2>3 DEF Lock
  <2>4. ASSUME NEW w \in Workers, NEW s \in Sources, Cache(w, s) PROVE ReaderLocks'
    BY <2>4 DEF Cache
  <2>5. ASSUME NEW w \in Workers, NEW s \in Sources, Notify(w, s) PROVE ReaderLocks'
    BY <2>5 DEF Notify
  <2>6. CASE UNCHANGED vars
    BY <2>6 DEF vars
  <2>7. QED
    BY <2>1, <2>2, <2>3, <2>4, <2>5, <2>6 DEF Next, WorkerStep
<1>3. ReaderLocks => OneReader
  BY DEF ReaderLocks, OneReader
<1>4. QED
  BY <1>1, <1>2, <1>3, TypeCorrect, PTL DEF Spec

\* The frames of a queue numbered from m + 1 stay numbered when one is taken
\* from its head or the next one joins its end.
LEMMA NumberedTail ==
  ASSUME NEW q \in Seq(Nat), NEW m \in Nat, q # <<>>,
         \A i \in 1..Len(q) : q[i] = m + i
  PROVE  /\ Len(Tail(q)) = Len(q) - 1
         /\ \A i \in 1..Len(Tail(q)) : Tail(q)[i] = (m + 1) + i
<1>1. Len(q) \in Nat /\ Len(Tail(q)) = Len(q) - 1
  OBVIOUS
<1>2. ASSUME NEW i \in 1..Len(Tail(q)) PROVE Tail(q)[i] = (m + 1) + i
  <2>1. Tail(q)[i] = q[i + 1] /\ i + 1 \in 1..Len(q) /\ i \in Nat
    BY <1>1
  <2>2. QED
    BY <2>1
<1>3. QED
  BY <1>1, <1>2

\* A queue of consecutive numbers, with the next one added.
LEMMA NumberedAppend ==
  ASSUME NEW q \in Seq(Nat), NEW m \in Nat, NEW n \in Nat, n = m + Len(q),
         \A i \in 1..Len(q) : q[i] = m + i
  PROVE  /\ Len(Append(q, n + 1)) = Len(q) + 1
         /\ \A i \in 1..Len(Append(q, n + 1)) : Append(q, n + 1)[i] = m + i
OBVIOUS

\* What a source has cached continues what it has returned, in file order.
THEOREM InOrderHolds == Spec => []InOrder
<1>1. Init => InOrder
  BY DEF Init, InOrder
<1>2. TypeOK /\ InOrder /\ [Next]_vars => InOrder'
  <2> SUFFICES ASSUME TypeOK, InOrder, [Next]_vars PROVE InOrder'
    OBVIOUS
  <2>1. CASE UNCHANGED <<position, frames, played>>
    BY <2>1 DEF InOrder
  <2>2. ASSUME NEW s \in Sources, frames[s] # <<>>,
               frames' = [frames EXCEPT ![s] = Tail(frames[s])],
               played' = [played EXCEPT ![s] = played[s] + 1],
               position' = position
        PROVE  InOrder'
    <3>1. /\ frames[s] \in Seq(Nat) /\ Len(frames[s]) \in Nat /\ played[s] \in Nat
          /\ frames'[s] = Tail(frames[s]) /\ played'[s] = played[s] + 1
          /\ \A r \in Sources \ {s} : frames'[r] = frames[r] /\ played'[r] = played[r]
          /\ frames'[s] \in Seq(Nat)
      BY <2>2 DEF TypeOK
    <3>2. /\ position[s] = played[s] + Len(frames[s])
          /\ \A i \in 1..Len(frames[s]) : frames[s][i] = played[s] + i
      BY <3>1 DEF InOrder
    <3>3. /\ Len(frames'[s]) = Len(frames[s]) - 1
          /\ \A i \in 1..Len(frames'[s]) : frames'[s][i] = played'[s] + i
      <4>1. /\ Len(Tail(frames[s])) = Len(frames[s]) - 1
            /\ \A i \in 1..Len(Tail(frames[s])) :
                 Tail(frames[s])[i] = (played[s] + 1) + i
        BY <2>2, <3>1, <3>2, NumberedTail
      <4>2. QED
        BY <4>1, <3>1
    <3>4. position'[s] = played'[s] + Len(frames'[s])
      BY <2>2, <3>1, <3>2, <3>3
    <3>5. DOMAIN frames'[s] = 1..Len(frames'[s])
      BY <3>1
    <3>6. ASSUME NEW r \in Sources
          PROVE  /\ position'[r] = played'[r] + Len(frames'[r])
                 /\ \A i \in DOMAIN frames'[r] : frames'[r][i] = played'[r] + i
      <4>1. CASE r = s
        BY <4>1, <3>3, <3>4, <3>5
      <4>2. CASE r # s
        BY <4>2, <2>2, <3>1 DEF InOrder
      <4>3. QED
        BY <4>1, <4>2
    <3>7. QED
      BY <3>6 DEF InOrder
  <2>3. ASSUME NEW s \in Sources,
               position' = [position EXCEPT ![s] = position[s] + 1],
               frames' = [frames EXCEPT ![s] = Append(frames[s], position[s] + 1)],
               played' = played
        PROVE  InOrder'
    <3>1. /\ frames[s] \in Seq(Nat) /\ Len(frames[s]) \in Nat
          /\ played[s] \in Nat /\ position[s] \in Nat
          /\ position'[s] = position[s] + 1
          /\ frames'[s] = Append(frames[s], position[s] + 1)
          /\ frames'[s] \in Seq(Nat)
          /\ \A r \in Sources \ {s} : frames'[r] = frames[r] /\ position'[r] = position[r]
      BY <2>3 DEF TypeOK
    <3>2. /\ position[s] = played[s] + Len(frames[s])
          /\ \A i \in 1..Len(frames[s]) : frames[s][i] = played[s] + i
      BY <3>1 DEF InOrder
    <3>3. /\ Len(frames'[s]) = Len(frames[s]) + 1
          /\ \A i \in 1..Len(frames'[s]) : frames'[s][i] = played[s] + i
      <4>1. LET q == Append(frames[s], position[s] + 1)
            IN  /\ Len(q) = Len(frames[s]) + 1
                /\ \A i \in 1..Len(q) : q[i] = played[s] + i
        BY <3>1, <3>2, NumberedAppend
      <4>2. QED
        BY <4>1, <3>1
    <3>4. position'[s] = played[s] + Len(frames'[s])
      BY <3>1, <3>2, <3>3
    <3>5. DOMAIN frames'[s] = 1..Len(frames'[s])
      BY <3>1
    <3>6. ASSUME NEW r \in Sources
          PROVE  /\ position'[r] = played'[r] + Len(frames'[r])
                 /\ \A i \in DOMAIN frames'[r] : frames'[r][i] = played'[r] + i
      <4>1. played'[r] = played[r]
        BY <2>3
      <4>2. CASE r = s
        BY <3>3, <3>4, <3>5, <4>1, <4>2
      <4>3. CASE r # s
        BY <3>1, <4>1, <4>3 DEF InOrder
      <4>4. QED
        BY <4>2, <4>3
    <3>7. QED
      BY <3>6 DEF InOrder
  <2>4. ASSUME NEW s \in Sources, ReadFrame(s) PROVE InOrder'
    BY <2>1, <2>2, <2>4 DEF ReadFrame
  <2>5. ASSUME NEW w \in Workers, NEW s \in Sources, Cache(w, s) PROVE InOrder'
    BY <2>1, <2>3, <2>5 DEF Cache
  <2>6. QED
    BY <2>1, <2>4, <2>5 DEF Next, LoopStep, WorkerStep, Prime, Refill, HandleTimeout,
       WakeSpuriously, TakeTask, Lock, Notify, vars
<1>3. QED
  BY <1>1, <1>2, TypeCorrect, PTL DEF Spec

-----------------------------------------------------------------------------
(* Counting what a source has outstanding.                                 *)

Queued(s)      == {i \in DOMAIN tasks : tasks[i] = s}
Fetching(s)    == {w \in Workers : worker[w] \in {At("task", s), At("reading", s)}}
NumQueued(s)   == Cardinality(Queued(s))
NumFetching(s) == Cardinality(Fetching(s))
Taken(s)       == IF loop = At("cache", s) THEN 1 ELSE 0

\* A source has five kinds of things outstanding, each a number of them.
Account(s) ==
  /\ Outstanding(s) = toPrime[s] + NumQueued(s) + NumFetching(s) + Len(frames[s]) + Taken(s)
  /\ NumQueued(s) \in Nat /\ NumFetching(s) \in Nat
  /\ Len(frames[s]) \in Nat /\ toPrime[s] \in Nat /\ Taken(s) \in Nat
  /\ position[s] \in Nat /\ FileFrames[s] \in Nat /\ MaxFrames \in Nat

\* What Account counts are finite sets, and so has a number.
LEMMA Accounts ==
  ASSUME TypeOK, NEW s \in Sources
  PROVE  Account(s) /\ IsFiniteSet(Queued(s)) /\ IsFiniteSet(Fetching(s))
<1>1. Outstanding(s) = toPrime[s] + NumQueued(s) + NumFetching(s) + Len(frames[s]) + Taken(s)
  BY DEF Outstanding, NumQueued, NumFetching, Queued, Fetching, Taken
<1>2. IsFiniteSet(Queued(s))
  <2>1. Len(tasks) \in Nat /\ Queued(s) \subseteq 1..Len(tasks)
    BY DEF TypeOK, Queued
  <2>2. IsFiniteSet(1..Len(tasks))
    BY <2>1, FS_Interval
  <2>3. QED
    BY <2>1, <2>2, FS_Subset
<1>3. IsFiniteSet(Fetching(s))
  BY CacheAssumption, FS_Subset DEF Fetching
<1>4. Len(frames[s]) \in Nat /\ toPrime[s] \in Nat /\ position[s] \in Nat
  BY CacheAssumption DEF TypeOK
<1>5. QED
  BY <1>1, <1>2, <1>3, <1>4, FS_CardinalityType, CacheAssumption
     DEF Taken, NumQueued, NumFetching, Account

\* The same of the next state, where it follows from the types alone.
LEMMA AccountsNext == TypeOK' => (\A s \in Sources : Account(s))'
<1>1. TypeOK => \A s \in Sources : Account(s)
  BY Accounts
<1>2. QED
  BY <1>1, PTL

\* A queue with one more task.
LEMMA CountAppend ==
  ASSUME NEW q \in Seq(Sources), NEW t \in Sources, NEW s \in Sources,
         IsFiniteSet({i \in DOMAIN q : q[i] = s})
  PROVE  Cardinality({i \in DOMAIN Append(q, t) : Append(q, t)[i] = s})
           = Cardinality({i \in DOMAIN q : q[i] = s}) + (IF s = t THEN 1 ELSE 0)
<1> DEFINE S == {i \in DOMAIN q : q[i] = s}
           T == {i \in DOMAIN Append(q, t) : Append(q, t)[i] = s}
           n == Len(q) + 1
<1>1. /\ Len(q) \in Nat /\ DOMAIN q = 1..Len(q) /\ DOMAIN Append(q, t) = 1..n
      /\ Append(q, t)[n] = t
      /\ \A i \in 1..Len(q) : Append(q, t)[i] = q[i]
  OBVIOUS
<1>2. n \notin S /\ T = IF s = t THEN S \cup {n} ELSE S
  BY <1>1
<1>3. Cardinality(S \cup {n}) = Cardinality(S) + 1
  BY <1>2, FS_AddElement
<1>4. Cardinality(S) \in Nat
  BY FS_CardinalityType
<1>5. Cardinality(T) = Cardinality(S) + (IF s = t THEN 1 ELSE 0)
  <2> HIDE DEF S, T
  <2>1. QED
    BY <1>2, <1>3, <1>4
<1>6. QED
  BY <1>5

\* A queue without its first task.
LEMMA CountTail ==
  ASSUME NEW q \in Seq(Sources), q # <<>>, NEW s \in Sources,
         IsFiniteSet({i \in DOMAIN q : q[i] = s})
  PROVE  Cardinality({i \in DOMAIN q : q[i] = s})
           = Cardinality({i \in DOMAIN Tail(q) : Tail(q)[i] = s})
               + (IF s = Head(q) THEN 1 ELSE 0)
<1> DEFINE S == {i \in DOMAIN q : q[i] = s}
           T == {i \in DOMAIN Tail(q) : Tail(q)[i] = s}
           f == [i \in S \ {1} |-> i - 1]
<1>1. /\ Len(q) \in Nat /\ Len(q) >= 1 /\ DOMAIN q = 1..Len(q)
      /\ DOMAIN Tail(q) = 1..(Len(q) - 1) /\ Head(q) = q[1]
      /\ \A i \in 1..(Len(q) - 1) : Tail(q)[i] = q[i + 1]
  OBVIOUS
<1>2. \A i \in S \ {1} : i - 1 \in T /\ i \in Nat
  BY <1>1
<1>3. \A i \in T : i + 1 \in S \ {1} /\ (i + 1) - 1 = i
  BY <1>1
<1>4. f \in Bijection(S \ {1}, T)
  <2>1. f \in [S \ {1} -> T]
    BY <1>2
  <2>2. \A i, j \in S \ {1} : f[i] = f[j] => i = j
    BY <1>2
  <2>3. \A j \in T : \E i \in S \ {1} : f[i] = j
    BY <1>3
  <2>4. QED
    BY <2>1, <2>2, <2>3 DEF Bijection, Injection, Surjection, IsInjective
<1>5. IsFiniteSet(S \ {1}) /\ Cardinality(S \ {1}) = Cardinality(T)
  <2>1. IsFiniteSet(S \ {1})
    BY FS_RemoveElement
  <2>2. ExistsBijection(S \ {1}, T)
    BY <1>4, Zenon DEF ExistsBijection
  <2> HIDE DEF S, T, f
  <2>3. QED
    BY <2>1, <2>2, FS_Bijection
<1>6. Cardinality(S \ {1}) = IF 1 \in S THEN Cardinality(S) - 1 ELSE Cardinality(S)
  BY FS_RemoveElement
<1>7. 1 \in S <=> s = Head(q)
  BY <1>1
<1>8. Cardinality(S) \in Nat
  BY FS_CardinalityType
<1>9. Cardinality(S) = Cardinality(T) + (IF s = Head(q) THEN 1 ELSE 0)
  <2> HIDE DEF S, T, f
  <2>1. QED
    BY <1>5, <1>6, <1>7, <1>8
<1>10. QED
  BY <1>9

-----------------------------------------------------------------------------
(* Replaced is inductive, given the types: a step moves what is            *)
(* outstanding from one of the five to another, or drops it once the file  *)
(* has come to its end.                                                    *)

\* The workers on tasks of a source, when one of them turns to something else.
LEMMA FetchingTurns ==
  ASSUME TypeOK, NEW w \in Workers, NEW s \in Sources, NEW x,
         worker' = [worker EXCEPT ![w] = x]
  PROVE  NumFetching(s)' =
           NumFetching(s)
             + (IF x \in {At("task", s), At("reading", s)} THEN 1 ELSE 0)
             - (IF worker[w] \in {At("task", s), At("reading", s)} THEN 1 ELSE 0)
<1> DEFINE on == {At("task", s), At("reading", s)}
<1>1. /\ worker'[w] = x /\ \A v \in Workers \ {w} : worker'[v] = worker[v]
  BY DEF TypeOK
<1>2. Fetching(s)' = IF x \in on THEN Fetching(s) \cup {w} ELSE Fetching(s) \ {w}
  BY <1>1 DEF Fetching
<1>3. w \in Fetching(s) <=> worker[w] \in on
  BY DEF Fetching
<1>4. IsFiniteSet(Fetching(s)) /\ Cardinality(Fetching(s)) \in Nat
  BY Accounts, FS_CardinalityType
<1>5. /\ Cardinality(Fetching(s) \cup {w}) =
           IF w \in Fetching(s) THEN Cardinality(Fetching(s)) ELSE Cardinality(Fetching(s)) + 1
      /\ Cardinality(Fetching(s) \ {w}) =
           IF w \in Fetching(s) THEN Cardinality(Fetching(s)) - 1 ELSE Cardinality(Fetching(s))
  BY <1>4, FS_AddElement, FS_RemoveElement
<1> HIDE DEF on
<1>6. NumFetching(s)' = NumFetching(s)
             + (IF x \in on THEN 1 ELSE 0) - (IF worker[w] \in on THEN 1 ELSE 0)
  BY <1>2, <1>3, <1>4, <1>5 DEF NumFetching
<1>7. QED
  BY <1>6 DEF on

\* The states of workers and of the loop tell steps and sources apart.
LEMMA Apart ==
  \A s, t \in Sources :
    /\ At("task", s) \in {At("task", t), At("reading", t)} <=> s = t
    /\ At("reading", s) \in {At("task", t), At("reading", t)} <=> s = t
    /\ At("notify", s) \notin {At("task", t), At("reading", t)}
    /\ Idle \notin {At("task", t), At("reading", t)}
    /\ At("cache", s) = At("cache", t) <=> s = t
    /\ At("read", s) # At("cache", t) /\ At("asleep", s) # At("cache", t)
    /\ Idle # At("cache", t)
BY DEF At, Idle

\* A step leaves as much outstanding as there was, but for a task that finds the
\* end of the file.
LEMMA OutstandingStep ==
  ASSUME TypeOK, [Next]_vars, NEW s \in Sources
  PROVE  /\ position[s] <= position'[s]
         /\ \/ Outstanding(s)' = Outstanding(s)
            \/ /\ Outstanding(s)' = Outstanding(s) - 1
               /\ position'[s] >= FileFrames[s]
<1> DEFINE one(t) == IF s = t THEN 1 ELSE 0
           Goal == /\ position[s] <= position'[s]
                   /\ \/ Outstanding(s)' = Outstanding(s)
                      \/ /\ Outstanding(s)' = Outstanding(s) - 1
                         /\ position'[s] >= FileFrames[s]
<1>1. /\ Outstanding(s) = toPrime[s] + NumQueued(s) + NumFetching(s) + Len(frames[s]) + Taken(s)
      /\ NumQueued(s) \in Nat /\ NumFetching(s) \in Nat /\ Len(frames[s]) \in Nat
      /\ toPrime[s] \in Nat /\ Taken(s) \in Nat
  BY Accounts DEF Account
<1>2. /\ Outstanding(s)' = toPrime'[s] + NumQueued(s)' + NumFetching(s)' + Len(frames'[s]) + Taken(s)'
      /\ NumQueued(s)' \in Nat /\ NumFetching(s)' \in Nat /\ Len(frames'[s]) \in Nat
      /\ toPrime'[s] \in Nat /\ Taken(s)' \in Nat
  BY TypeStep, AccountsNext DEF Account
<1>0. position[s] \in Nat /\ FileFrames[s] \in Nat /\ position'[s] \in Nat
  BY TypeStep, Accounts, AccountsNext DEF Account
<1>3. /\ tasks' = tasks => NumQueued(s)' = NumQueued(s)
      /\ worker' = worker => NumFetching(s)' = NumFetching(s)
      /\ loop' = loop => Taken(s)' = Taken(s)
  BY DEF NumQueued, NumFetching, Queued, Fetching, Taken
<1>4. ASSUME NEW t \in Sources, CacheFrame(t)
      PROVE  NumQueued(s)' = NumQueued(s) + one(t)
  <2>1. tasks \in Seq(Sources) /\ tasks' = Append(tasks, t)
    BY <1>4 DEF TypeOK, CacheFrame
  <2>2. IsFiniteSet({i \in DOMAIN tasks : tasks[i] = s})
    BY Accounts DEF Queued
  <2>3. Queued(s)' = {i \in DOMAIN Append(tasks, t) : Append(tasks, t)[i] = s}
    BY <2>1 DEF Queued
  <2>4. QED
    BY <2>1, <2>2, <2>3, CountAppend DEF NumQueued, Queued
<1>5. ASSUME NEW w \in Workers, NEW x, worker' = [worker EXCEPT ![w] = x]
      PROVE  NumFetching(s)' = NumFetching(s)
               + (IF x \in {At("task", s), At("reading", s)} THEN 1 ELSE 0)
               - (IF worker[w] \in {At("task", s), At("reading", s)} THEN 1 ELSE 0)
  BY <1>5, FetchingTurns
<1>6. ASSUME NEW t \in Sources, Prime(t) PROVE Goal
  <2>0. one(t) \in Nat
    OBVIOUS
  <2>1. /\ toPrime' = [toPrime EXCEPT ![t] = toPrime[t] - 1] /\ CacheFrame(t)
        /\ UNCHANGED <<worker, position, frames, loop>>
    BY <1>6 DEF Prime
  <2>2. toPrime'[s] = toPrime[s] - one(t)
    BY <1>1, <2>1 DEF TypeOK
  <2>3. /\ toPrime'[s] = toPrime[s] - one(t)
        /\ NumQueued(s)' = NumQueued(s) + one(t)
        /\ NumFetching(s)' = NumFetching(s)
        /\ Len(frames'[s]) = Len(frames[s])
        /\ Taken(s)' = Taken(s)
    BY <1>3, <1>4, <2>1, <2>2
  <2>4. Outstanding(s)' = Outstanding(s)
    <3> HIDE DEF one
    <3>1. QED
      BY ONLY <1>1, <1>2, <2>3, <2>0
  <2>5. QED
    BY <1>0, <2>1, <2>4
<1>7. ASSUME NEW t \in Sources, HandleTimeout(t) \/ WakeSpuriously(t) PROVE Goal
  <2>0. one(t) \in Nat
    OBVIOUS
  <2>1. /\ UNCHANGED <<toPrime, tasks, worker, position, frames>>
        /\ loop' = At("read", t)
        /\ loop = Idle \/ loop = At("asleep", t)
    BY <1>7 DEF HandleTimeout, WakeSpuriously
  <2>2. Taken(s)' = 0 /\ Taken(s) = 0
    BY <2>1, Apart DEF Taken
  <2>3. /\ toPrime'[s] = toPrime[s]
        /\ NumQueued(s)' = NumQueued(s)
        /\ NumFetching(s)' = NumFetching(s)
        /\ Len(frames'[s]) = Len(frames[s])
        /\ Taken(s)' = Taken(s)
    BY <1>3, <2>1, <2>2
  <2>4. Outstanding(s)' = Outstanding(s)
    <3> HIDE DEF one
    <3>1. QED
      BY ONLY <1>1, <1>2, <2>3, <2>0
  <2>5. QED
    BY <1>0, <2>1, <2>4
<1>8. ASSUME NEW t \in Sources, ReadFrame(t) PROVE Goal
  <2>0. one(t) \in Nat
    OBVIOUS
  <2>1. UNCHANGED <<toPrime, tasks, worker, position>> /\ loop = At("read", t)
    BY <1>8 DEF ReadFrame
  <2>2. Taken(s) = 0
    BY <2>1, Apart DEF Taken
  <2>3. CASE frames[t] # <<>>
    <3>1. frames' = [frames EXCEPT ![t] = Tail(frames[t])] /\ loop' = At("cache", t)
      BY <1>8, <2>3 DEF ReadFrame
    <3>2. frames[t] \in Seq(Nat) /\ Len(Tail(frames[t])) = Len(frames[t]) - 1
      BY <2>3 DEF TypeOK
    <3>3. Len(frames'[s]) = Len(frames[s]) - one(t)
      BY <1>1, <3>1, <3>2 DEF TypeOK
    <3>4. Taken(s)' = one(t)
      BY <3>1, Apart DEF Taken
    <3>5. /\ toPrime'[s] = toPrime[s]
          /\ NumQueued(s)' = NumQueued(s)
          /\ NumFetching(s)' = NumFetching(s)
          /\ Len(frames'[s]) = Len(frames[s]) - one(t)
          /\ Taken(s)' = Taken(s) + one(t)
      BY <1>3, <2>1, <2>2, <3>3, <3>4
    <3>6. Outstanding(s)' = Outstanding(s)
      <4> HIDE DEF one
      <4>1. QED
        BY ONLY <1>1, <1>2, <3>5, <2>0
    <3>7. QED
      BY <1>0, <2>1, <3>6
  <2>4. CASE frames[t] = <<>>
    <3>1. frames' = frames /\ loop' = At("asleep", t)
      BY <1>8, <2>4 DEF ReadFrame
    <3>2. Taken(s)' = 0
      BY <3>1, Apart DEF Taken
    <3>3. /\ toPrime'[s] = toPrime[s]
          /\ NumQueued(s)' = NumQueued(s)
          /\ NumFetching(s)' = NumFetching(s)
          /\ Len(frames'[s]) = Len(frames[s])
          /\ Taken(s)' = Taken(s)
      BY <1>3, <2>1, <2>2, <3>1, <3>2
    <3>4. Outstanding(s)' = Outstanding(s)
      <4> HIDE DEF one
      <4>1. QED
        BY ONLY <1>1, <1>2, <3>3, <2>0
    <3>5. QED
      BY <1>0, <2>1, <3>4
  <2>5. QED
    BY <2>3, <2>4
<1>9. ASSUME NEW t \in Sources, Refill(t) PROVE Goal
  <2>0. one(t) \in Nat
    OBVIOUS
  <2>1. /\ CacheFrame(t) /\ loop = At("cache", t) /\ loop' = Idle
        /\ UNCHANGED <<toPrime, worker, position, frames>>
    BY <1>9 DEF Refill
  <2>2. Taken(s) = one(t) /\ Taken(s)' = 0
    BY <2>1, Apart DEF Taken
  <2>3. /\ toPrime'[s] = toPrime[s]
        /\ NumQueued(s)' = NumQueued(s) + one(t)
        /\ NumFetching(s)' = NumFetching(s)
        /\ Len(frames'[s]) = Len(frames[s])
        /\ Taken(s)' = Taken(s) - one(t)
    BY <1>3, <1>4, <2>1, <2>2
  <2>4. Outstanding(s)' = Outstanding(s)
    <3> HIDE DEF one
    <3>1. QED
      BY ONLY <1>1, <1>2, <2>3, <2>0, SMTT(30)
  <2>5. QED
    BY <1>0, <2>1, <2>4
<1>10. ASSUME NEW w \in Workers, TakeTask(w) PROVE Goal
  <2> DEFINE t == Head(tasks)
  <2>0. one(t) \in Nat
    OBVIOUS
  <2>1. /\ tasks \in Seq(Sources) /\ tasks # <<>> /\ t \in Sources
        /\ worker[w] = Idle /\ worker' = [worker EXCEPT ![w] = At("task", t)]
        /\ tasks' = Tail(tasks)
        /\ UNCHANGED <<toPrime, position, frames, loop>>
    BY <1>10 DEF TakeTask, TypeOK
  <2> HIDE DEF t
  <2>2. NumQueued(s) = NumQueued(s)' + one(t)
    <3>1. IsFiniteSet({i \in DOMAIN tasks : tasks[i] = s})
      BY Accounts DEF Queued
    <3>2. Queued(s)' = {i \in DOMAIN Tail(tasks) : Tail(tasks)[i] = s}
      BY <2>1 DEF Queued
    <3>3. QED
      BY <2>1, <3>1, <3>2, CountTail DEF NumQueued, Queued, t
  <2>3. NumFetching(s)' = NumFetching(s) + one(t)
    <3>1. NumFetching(s)' = NumFetching(s)
            + (IF At("task", t) \in {At("task", s), At("reading", s)} THEN 1 ELSE 0)
            - (IF Idle \in {At("task", s), At("reading", s)} THEN 1 ELSE 0)
      BY <2>1, FetchingTurns
    <3>2. /\ Idle \notin {At("task", s), At("reading", s)}
          /\ At("task", t) \in {At("task", s), At("reading", s)} <=> s = t
      BY <2>1, Apart
    <3>3. QED
      BY ONLY <1>1, <3>1, <3>2
  <2>4. NumQueued(s)' \in Nat
    BY TypeStep, AccountsNext DEF Account
  <2>5. /\ toPrime'[s] = toPrime[s]
        /\ NumQueued(s) = NumQueued(s)' + one(t)
        /\ NumFetching(s)' = NumFetching(s) + one(t)
        /\ Len(frames'[s]) = Len(frames[s])
        /\ Taken(s)' = Taken(s)
    BY <1>3, <2>1, <2>2, <2>3
  <2>6. Outstanding(s)' = Outstanding(s)
    <3> HIDE DEF one
    <3>1. QED
      BY ONLY <1>1, <1>2, <2>5, <2>4, <2>0
  <2>7. QED
    BY <1>0, <2>1, <2>6
<1>11. ASSUME NEW w \in Workers, NEW t \in Sources, Lock(w, t) PROVE Goal
  <2>0. one(t) \in Nat
    OBVIOUS
  <2>1. /\ worker[w] = At("task", t) /\ worker' = [worker EXCEPT ![w] = At("reading", t)]
        /\ UNCHANGED <<toPrime, tasks, position, frames, loop>>
    BY <1>11 DEF Lock
  <2>2. NumFetching(s)' = NumFetching(s)
    <3>1. NumFetching(s)' = NumFetching(s)
            + (IF At("reading", t) \in {At("task", s), At("reading", s)} THEN 1 ELSE 0)
            - (IF At("task", t) \in {At("task", s), At("reading", s)} THEN 1 ELSE 0)
      BY <2>1, FetchingTurns
    <3>2. /\ At("task", t) \in {At("task", s), At("reading", s)} <=> s = t
          /\ At("reading", t) \in {At("task", s), At("reading", s)} <=> s = t
      BY <2>1, Apart
    <3>3. QED
      BY ONLY <1>1, <3>1, <3>2
  <2>3. /\ toPrime'[s] = toPrime[s]
        /\ NumQueued(s)' = NumQueued(s)
        /\ NumFetching(s)' = NumFetching(s)
        /\ Len(frames'[s]) = Len(frames[s])
        /\ Taken(s)' = Taken(s)
    BY <1>3, <2>1, <2>2
  <2>4. Outstanding(s)' = Outstanding(s)
    <3> HIDE DEF one
    <3>1. QED
      BY ONLY <1>1, <1>2, <2>3, <2>0
  <2>5. QED
    BY <1>0, <2>1, <2>4
<1>12. ASSUME NEW w \in Workers, NEW t \in Sources, Cache(w, t) PROVE Goal
  <2>0. one(t) \in Nat
    OBVIOUS
  <2>1. /\ worker[w] = At("reading", t) /\ worker' = [worker EXCEPT ![w] = At("notify", t)]
        /\ UNCHANGED <<toPrime, tasks, loop>>
    BY <1>12 DEF Cache
  <2>2. NumFetching(s)' = NumFetching(s) - one(t)
    <3>1. NumFetching(s)' = NumFetching(s)
            + (IF At("notify", t) \in {At("task", s), At("reading", s)} THEN 1 ELSE 0)
            - (IF At("reading", t) \in {At("task", s), At("reading", s)} THEN 1 ELSE 0)
      BY <2>1, FetchingTurns
    <3>2. /\ At("reading", t) \in {At("task", s), At("reading", s)} <=> s = t
          /\ At("notify", t) \notin {At("task", s), At("reading", s)}
      BY <2>1, Apart
    <3>3. QED
      BY ONLY <1>1, <3>1, <3>2
  <2>3. CASE position[t] < FileFrames[t]
    <3>1. /\ position' = [position EXCEPT ![t] = position[t] + 1]
          /\ frames' = [frames EXCEPT ![t] = Append(frames[t], position[t] + 1)]
      BY <1>12, <2>3 DEF Cache
    <3>2. position[s] <= position'[s]
      BY <1>0, <3>1 DEF TypeOK
    <3>3. Len(Append(frames[t], position[t] + 1)) = Len(frames[t]) + 1
      <4>1. frames[t] \in Seq(Nat)
        BY DEF TypeOK
      <4>2. QED
        BY <4>1
    <3>4. Len(frames'[s]) = Len(frames[s]) + one(t)
      BY <1>1, <3>1, <3>3 DEF TypeOK
    <3>5. /\ toPrime'[s] = toPrime[s]
          /\ NumQueued(s)' = NumQueued(s)
          /\ NumFetching(s)' = NumFetching(s) - one(t)
          /\ Len(frames'[s]) = Len(frames[s]) + one(t)
          /\ Taken(s)' = Taken(s)
      BY <1>3, <2>1, <2>2, <3>2, <3>4
    <3>6. Outstanding(s)' = Outstanding(s)
      <4> HIDE DEF one
      <4>1. QED
        BY ONLY <1>1, <1>2, <3>5, <2>0
    <3>7. QED
      BY <1>0, <3>2, <3>6
  <2>4. CASE ~(position[t] < FileFrames[t])
    <3>1. position' = position /\ frames' = frames
      BY <1>12, <2>4 DEF Cache
    <3>2. s = t => position'[s] >= FileFrames[s]
      BY <1>0, <2>4, <3>1
    <3>3. /\ toPrime'[s] = toPrime[s]
          /\ NumQueued(s)' = NumQueued(s)
          /\ NumFetching(s)' = NumFetching(s) - one(t)
          /\ Len(frames'[s]) = Len(frames[s])
          /\ Taken(s)' = Taken(s)
      BY <1>3, <2>1, <2>2, <3>1
    <3>4. Outstanding(s)' = Outstanding(s) - one(t)
      <4> HIDE DEF one
      <4>1. QED
        BY ONLY <1>1, <1>2, <3>3, <2>0, SMTT(30)
    <3>5. one(t) = IF s = t THEN 1 ELSE 0
      OBVIOUS
    <3>6. CASE s = t
      BY ONLY <1>0, <3>1, <3>2, <3>4, <3>5, <3>6
    <3>7. CASE s # t
      <4>1. Outstanding(s)' = Outstanding(s) - 0
        BY ONLY <3>4, <3>5, <3>7
      <4>2. Outstanding(s) - 0 = Outstanding(s)
        BY ONLY <1>1
      <4>3. QED
        BY ONLY <1>0, <3>1, <4>1, <4>2
    <3>8. QED
      BY <3>6, <3>7
  <2>5. QED
    BY <2>3, <2>4
<1>13. ASSUME NEW w \in Workers, NEW t \in Sources, Notify(w, t) PROVE Goal
  <2>0. one(t) \in Nat
    OBVIOUS
  <2>1. /\ worker[w] = At("notify", t) /\ worker' = [worker EXCEPT ![w] = Idle]
        /\ UNCHANGED <<toPrime, tasks, position, frames>>
        /\ loop' = IF loop = At("asleep", t) THEN At("read", t) ELSE loop
    BY <1>13 DEF Notify
  <2>2. NumFetching(s)' = NumFetching(s)
    <3>1. NumFetching(s)' = NumFetching(s)
            + (IF Idle \in {At("task", s), At("reading", s)} THEN 1 ELSE 0)
            - (IF At("notify", t) \in {At("task", s), At("reading", s)} THEN 1 ELSE 0)
      BY <2>1, FetchingTurns
    <3>2. /\ At("notify", t) \notin {At("task", s), At("reading", s)}
          /\ Idle \notin {At("task", s), At("reading", s)}
      BY <2>1, Apart
    <3>3. QED
      BY ONLY <1>1, <3>1, <3>2
  <2>3. Taken(s)' = Taken(s)
    BY <2>1, Apart DEF Taken
  <2>4. /\ toPrime'[s] = toPrime[s]
        /\ NumQueued(s)' = NumQueued(s)
        /\ NumFetching(s)' = NumFetching(s)
        /\ Len(frames'[s]) = Len(frames[s])
        /\ Taken(s)' = Taken(s)
    BY <1>3, <2>1, <2>2, <2>3
  <2>5. Outstanding(s)' = Outstanding(s)
    <3> HIDE DEF one
    <3>1. QED
      BY ONLY <1>1, <1>2, <2>4, <2>0
  <2>6. QED
    BY <1>0, <2>1, <2>5
<1>14. CASE UNCHANGED vars
  BY <1>0, <1>1, <1>2, <1>3, <1>14 DEF vars
<1>15. QED
  BY <1>6, <1>7, <1>8, <1>9, <1>10, <1>11, <1>12, <1>13, <1>14
     DEF Next, LoopStep, WorkerStep

\* Every step that takes a frame, makes a task, starts or ends one keeps the
\* balance of Replaced; the others leave its terms alone.
LEMMA ReplacedStep ==
  ASSUME TypeOK, Replaced, [Next]_vars
  PROVE  Replaced'
<1> SUFFICES ASSUME NEW s \in Sources
             PROVE  /\ Outstanding(s)' <= MaxFrames
                    /\ position'[s] < FileFrames[s] => Outstanding(s)' = MaxFrames
  BY DEF Replaced
<1>1. /\ Outstanding(s) = toPrime[s] + NumQueued(s) + NumFetching(s) + Len(frames[s]) + Taken(s)
      /\ toPrime[s] \in Nat /\ NumQueued(s) \in Nat /\ NumFetching(s) \in Nat
      /\ Len(frames[s]) \in Nat /\ Taken(s) \in Nat
      /\ position[s] \in Nat /\ FileFrames[s] \in Nat /\ MaxFrames \in Nat
  BY Accounts DEF Account
<1>2. Outstanding(s) \in Nat
  BY ONLY <1>1
<1>3. position'[s] \in Nat
  BY TypeStep, AccountsNext DEF Account
<1>4. /\ Outstanding(s) <= MaxFrames
      /\ position[s] < FileFrames[s] => Outstanding(s) = MaxFrames
  BY DEF Replaced
<1>5. /\ position[s] <= position'[s]
      /\ \/ Outstanding(s)' = Outstanding(s)
         \/ /\ Outstanding(s)' = Outstanding(s) - 1
            /\ position'[s] >= FileFrames[s]
  BY OutstandingStep
<1>6. QED
  BY ONLY <1>1, <1>2, <1>3, <1>4, <1>5

\* Whatever a source has cached, queued, in the hands of a worker or about to
\* queue is max_frame_size_ frames, and fewer only after the end of its file.
THEOREM ReplacedHolds == Spec => []Replaced
<1>1. Init => Replaced
  <2> SUFFICES ASSUME Init, NEW s \in Sources PROVE Outstanding(s) = MaxFrames
    BY CacheAssumption DEF Replaced
  <2>1. Queued(s) = {} /\ Fetching(s) = {} /\ Taken(s) = 0
    BY Apart DEF Init, Queued, Fetching, Taken
  <2>2. Outstanding(s) = toPrime[s] + NumQueued(s) + NumFetching(s) + Len(frames[s]) + Taken(s)
    BY DEF Outstanding, NumQueued, NumFetching, Queued, Fetching, Taken
  <2>3. QED
    BY <2>1, <2>2, FS_EmptySet, CacheAssumption DEF Init, NumQueued, NumFetching
<1>2. TypeOK /\ Replaced /\ [Next]_vars => Replaced'
  BY ReplacedStep
<1>3. QED
  BY <1>1, <1>2, TypeCorrect, PTL DEF Spec
=============================================================================
