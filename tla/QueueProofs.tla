----------------------------- MODULE QueueProofs -----------------------------
(***************************************************************************)
(* Proofs about TasksQueue, for any number of connections, acceptors and   *)
(* workers and a ring of any size: no connection is in two places, no      *)
(* wake-up is lost, and each step is a step of TaskFifo or changes nothing *)
(* that TaskFifo sees.                                                     *)
(*                                                                         *)
(* The invariant ties the two ends of the ring to its size, and where a    *)
(* thread is to whether it holds a connection.                             *)
(***************************************************************************)
EXTENDS TasksQueue, SequenceTheorems, TLAPS

Threads == Acceptors \cup Pool

\* The ring has size tasks from tail on, and ends at head.
Ends == head = (tail + size) % ThreadPoolSz

\* What waits is a connection, never a slot that was not written.
Written == \A i \in 1..size : Waiting[i] \in Connections

\* An acceptor holds a connection until it has enqueued it, a worker from when
\* it has dequeued it.
Holding ==
  /\ \A a \in Acceptors : task[a] = NoTask <=> at[a] \in {"outside", "signal"}
  /\ \A w \in Pool : task[w] = NoTask <=> at[w] \in {"lock", "wait"}

QueueInv == TypeOK /\ Ends /\ Written /\ Holding /\ HandedOverOnce

-----------------------------------------------------------------------------
(* The ring                                                                *)

\* A number below twice the size of the ring wraps round at most once.
LEMMA Wraps ==
  ASSUME NEW x \in 0..(2 * ThreadPoolSz - 1)
  PROVE  /\ x % ThreadPoolSz \in 0..(ThreadPoolSz - 1)
         /\ x < ThreadPoolSz => x % ThreadPoolSz = x
         /\ x >= ThreadPoolSz => x % ThreadPoolSz = x - ThreadPoolSz
<1>1. ThreadPoolSz \in Nat \ {0} /\ x \in Nat
  BY QueueAssumption
<1>2. x % ThreadPoolSz \in 0..(ThreadPoolSz - 1)
  BY <1>1
<1>3. x < ThreadPoolSz => x % ThreadPoolSz = x
  BY <1>1
<1>4. x >= ThreadPoolSz => x % ThreadPoolSz = x - ThreadPoolSz
  BY <1>1
<1> QED BY <1>2, <1>3, <1>4

\* Where the i-th task of a ring is that starts at l
Place(l, i) ==
  IF l + i - 1 < ThreadPoolSz THEN l + i - 1 ELSE l + i - 1 - ThreadPoolSz

LEMMA PlaceIs ==
  ASSUME NEW l \in 0..(ThreadPoolSz - 1), NEW i \in 1..(ThreadPoolSz + 1)
  PROVE  /\ (l + i - 1) % ThreadPoolSz = Place(l, i)
         /\ Place(l, i) \in 0..(ThreadPoolSz - 1) /\ Place(l, i) \in Slots
<1>1. ThreadPoolSz \in Nat \ {0}
  BY QueueAssumption
<1>2. l + i - 1 \in 0..(2 * ThreadPoolSz - 1)
  BY <1>1
<1> QED BY <1>1, <1>2, Wraps DEF Place, Slots

\* Different tasks of a ring are in different slots.
LEMMA PlacesDiffer ==
  ASSUME NEW l \in 0..(ThreadPoolSz - 1), NEW i \in 1..ThreadPoolSz,
         NEW j \in 1..ThreadPoolSz, Place(l, i) = Place(l, j)
  PROVE  i = j
BY QueueAssumption DEF Place

\* Waiting is a sequence, and where its elements are
Ring ==
  /\ DOMAIN Waiting = 1..size /\ Waiting \in Seq(Connections \cup {NoTask})
  /\ Len(Waiting) = size
  /\ \A i \in 1..size : /\ i \in 1..(ThreadPoolSz + 1)
                        /\ Place(tail, i) \in Slots
                        /\ Waiting[i] = tasks[Place(tail, i)]

LEMMA WaitingIs == TypeOK => Ring
<1> SUFFICES ASSUME TypeOK PROVE Ring
  OBVIOUS
<1>1. ThreadPoolSz \in Nat \ {0} /\ size \in Nat /\ size <= ThreadPoolSz
      /\ tail \in 0..(ThreadPoolSz - 1)
  BY QueueAssumption DEF TypeOK
<1>2. \A i \in 1..size : /\ i \in 1..(ThreadPoolSz + 1)
                         /\ Place(tail, i) \in Slots
                         /\ (tail + i - 1) % ThreadPoolSz = Place(tail, i)
  BY <1>1, PlaceIs
<1>3. \A i \in 1..size : tasks[(tail + i - 1) % ThreadPoolSz] \in Connections \cup {NoTask}
  BY <1>2 DEF TypeOK
<1>4. Waiting \in Seq(Connections \cup {NoTask}) /\ Len(Waiting) = size
  BY <1>1, <1>3 DEF Waiting
<1>5. DOMAIN Waiting = 1..size
      /\ \A i \in 1..size : Waiting[i] = tasks[(tail + i - 1) % ThreadPoolSz]
  BY DEF Waiting
<1> QED BY <1>2, <1>4, <1>5 DEF Ring

LEMMA WaitingIsNext ==
  TypeOK' =>
    /\ DOMAIN Waiting' = 1..size' /\ Waiting' \in Seq(Connections \cup {NoTask})
    /\ Len(Waiting') = size'
    /\ \A i \in 1..size' : /\ Place(tail', i) \in Slots
                           /\ Waiting'[i] = tasks'[Place(tail', i)]
<1>1. (TypeOK => Ring)'
  BY WaitingIs, PTL
<1> QED BY <1>1 DEF Ring, Place

\* What enqueue writes at head is the last task of the ring.
LEMMA EnqueueIs ==
  ASSUME QueueInv, NEW a \in Acceptors, Enqueue(a)
  PROVE  /\ task[a] \in Connections /\ size < ThreadPoolSz
         /\ TypeOK' /\ Ends' /\ size' = size + 1
         /\ \A i \in 1..size : Waiting'[i] = Waiting[i]
         /\ Waiting'[size + 1] = task[a]
<1>1. /\ ThreadPoolSz \in Nat \ {0} /\ size \in Nat /\ size < ThreadPoolSz
      /\ tail \in 0..(ThreadPoolSz - 1) /\ head \in 0..(ThreadPoolSz - 1)
      /\ head \in Slots /\ a \in Threads /\ task[a] \in Connections
  <2>1. task[a] \in Connections /\ a \in Threads
    BY DEF QueueInv, TypeOK, Holding, Enqueue, Threads
  <2> QED BY <2>1, QueueAssumption DEF QueueInv, TypeOK, Enqueue, Slots
<1>2. head = Place(tail, size + 1)
  <2>1. size + 1 \in 1..(ThreadPoolSz + 1) /\ tail + (size + 1) - 1 = tail + size
    BY <1>1
  <2> QED BY <1>1, <2>1, PlaceIs DEF QueueInv, Ends
<1>3. TypeOK' /\ size' = size + 1 /\ tail' = tail
  <2>1. head' \in 0..(ThreadPoolSz - 1)
    BY <1>1 DEF Enqueue
  <2>2. size' \in 0..ThreadPoolSz
    BY <1>1 DEF Enqueue
  <2>3. tasks' \in [Slots -> Connections \cup {NoTask}]
    BY <1>1 DEF Enqueue, QueueInv, TypeOK
  <2>4. /\ task' \in [Acceptors \cup Pool -> Connections \cup {NoTask}]
        /\ at' \in [Acceptors \cup Pool -> Places]
    BY <1>1 DEF Enqueue, QueueInv, TypeOK, Move, Threads, Places
  <2> QED BY <2>1, <2>2, <2>3, <2>4 DEF Enqueue, QueueInv, TypeOK
<1>4. Ends'
  <2>1. head' = (head + 1) % ThreadPoolSz /\ size' = size + 1 /\ tail' = tail
    BY DEF Enqueue
  <2>2. (head + 1) % ThreadPoolSz = (tail + (size + 1)) % ThreadPoolSz
    <3>1. head = (tail + size) % ThreadPoolSz
      BY DEF QueueInv, Ends
    <3>2. /\ tail + size \in 0..(2 * ThreadPoolSz - 1)
          /\ tail + (size + 1) \in 0..(2 * ThreadPoolSz - 1)
          /\ head + 1 \in 0..(2 * ThreadPoolSz - 1)
      BY <1>1
    <3> QED BY <1>1, <3>1, <3>2, Wraps
  <2> QED BY <2>1, <2>2 DEF Ends
<1>5. tasks' = [tasks EXCEPT ![head] = task[a]]
      /\ \A k \in Slots : tasks'[k] = IF k = head THEN task[a] ELSE tasks[k]
  BY DEF Enqueue, QueueInv, TypeOK
<1>6. \A i \in 1..(size + 1) :
        Waiting'[i] = tasks'[Place(tail, i)] /\ Place(tail, i) \in Slots
  BY <1>3, WaitingIsNext
<1>7. \A i \in 1..size : Waiting'[i] = Waiting[i]
  <2> SUFFICES ASSUME NEW i \in 1..size PROVE Waiting'[i] = Waiting[i]
    OBVIOUS
  <2>1. /\ i \in 1..ThreadPoolSz /\ size + 1 \in 1..ThreadPoolSz
        /\ i # size + 1 /\ i \in 1..(size + 1)
    BY <1>1
  <2>2. Place(tail, i) # head
    BY <1>1, <1>2, <2>1, PlacesDiffer
  <2>3. Waiting[i] = tasks[Place(tail, i)]
    BY WaitingIs DEF QueueInv, Ring
  <2> QED BY <1>5, <1>6, <2>1, <2>2, <2>3
<1>8. Waiting'[size + 1] = task[a]
  BY <1>1, <1>2, <1>5, <1>6
<1> QED BY <1>1, <1>3, <1>4, <1>7, <1>8

\* What dequeue reads at tail is the first task of the ring.
LEMMA DequeueIs ==
  ASSUME QueueInv, NEW w \in Pool, Dequeue(w)
  PROVE  /\ size > 0 /\ task'[w] = Waiting[1] /\ Waiting[1] \in Connections
         /\ TypeOK' /\ Ends' /\ size' = size - 1
         /\ \A i \in 1..(size - 1) : i + 1 \in 1..size /\ Waiting'[i] = Waiting[i + 1]
<1>1. /\ ThreadPoolSz \in Nat \ {0} /\ size \in Nat \ {0} /\ size <= ThreadPoolSz
      /\ tail \in 0..(ThreadPoolSz - 1) /\ head \in 0..(ThreadPoolSz - 1)
      /\ w \in Threads /\ 1 \in 1..size
  BY QueueAssumption DEF QueueInv, TypeOK, Dequeue, Threads
<1>2. /\ tasks' = tasks /\ head' = head /\ size' = size - 1
      /\ tail' = (tail + 1) % ThreadPoolSz /\ tail' \in 0..(ThreadPoolSz - 1)
      /\ tail' = IF tail + 1 < ThreadPoolSz THEN tail + 1 ELSE tail + 1 - ThreadPoolSz
  <2>1. tail + 1 \in 0..(2 * ThreadPoolSz - 1)
    BY <1>1
  <2> QED BY <1>1, <2>1, Wraps DEF Dequeue
<1>3. Waiting[1] = tasks[tail] /\ Waiting[1] \in Connections
  <2>1. Place(tail, 1) = tail
    BY <1>1 DEF Place
  <2> QED BY <1>1, <2>1, WaitingIs DEF QueueInv, Ring, Written
<1>4. TypeOK'
  <2>1. size' \in 0..ThreadPoolSz
    BY <1>1, <1>2
  <2>2. /\ task' \in [Acceptors \cup Pool -> Connections \cup {NoTask}]
        /\ at' \in [Acceptors \cup Pool -> Places]
    BY <1>1, <1>3 DEF Dequeue, QueueInv, TypeOK, Move, Threads, Places
  <2> QED BY <1>2, <2>1, <2>2 DEF QueueInv, TypeOK
<1>5. Ends'
  <2>1. /\ tail + size \in 0..(2 * ThreadPoolSz - 1)
        /\ tail' + size' \in 0..(2 * ThreadPoolSz - 1)
    BY <1>1, <1>2
  <2>2. head = (tail + size) % ThreadPoolSz
    BY DEF QueueInv, Ends
  <2>3. head = (tail' + size') % ThreadPoolSz
    <3>1. CASE tail + 1 < ThreadPoolSz
      <4>1. tail' + size' = tail + size
        BY <1>1, <1>2, <3>1
      <4> QED BY <2>2, <4>1
    <3>2. CASE tail + 1 >= ThreadPoolSz
      <4>1. /\ tail + size >= ThreadPoolSz /\ tail' + size' = tail + size - ThreadPoolSz
            /\ tail' + size' < ThreadPoolSz
        BY <1>1, <1>2, <3>2
      <4>2. (tail + size) % ThreadPoolSz = tail + size - ThreadPoolSz
        BY <1>1, <2>1, <4>1
      <4>3. (tail' + size') % ThreadPoolSz = tail' + size'
        BY <2>1, <4>1, Wraps
      <4> QED BY <2>2, <4>1, <4>2, <4>3
    <3> QED BY <1>1, <3>1, <3>2
  <2> QED BY <1>2, <2>3 DEF Ends
<1>6. task'[w] = Waiting[1]
  BY <1>1, <1>3 DEF Dequeue, QueueInv, TypeOK, Threads
<1>7. ASSUME NEW i \in 1..(size - 1)
      PROVE  i + 1 \in 1..size /\ Waiting'[i] = Waiting[i + 1]
  <2>1. i + 1 \in 1..size /\ i \in 1..size'
    BY <1>1, <1>2
  <2>2. Waiting'[i] = tasks'[Place(tail', i)]
    <3>1. \A j \in 1..size' : Waiting'[j] = tasks'[Place(tail', j)]
      BY <1>4, WaitingIsNext
    <3> QED BY <2>1, <3>1
  <2>3. Waiting[i + 1] = tasks[Place(tail, i + 1)]
    BY <2>1, WaitingIs DEF QueueInv, Ring
  <2>4. Place(tail', i) = Place(tail, i + 1)
    BY <1>1, <1>2 DEF Place
  <2> QED BY <1>2, <2>1, <2>2, <2>3, <2>4
<1>8. size > 0
  BY <1>1
<1> QED BY <1>2, <1>3, <1>4, <1>5, <1>6, <1>7, <1>8

-----------------------------------------------------------------------------
(* The invariant                                                           *)

LEMMA ThreadsApart ==
  ASSUME NEW t \in Threads PROVE t \in Pool <=> t \notin Acceptors
BY QueueAssumption DEF Threads

LEMMA SameRing ==
  ASSUME UNCHANGED queueVars PROVE Waiting' = Waiting /\ size' = size
BY DEF queueVars, Waiting

\* A step that moves no connection keeps the invariant, when it takes a thread
\* only to where it may be with what it holds.
LEMMA MoveKeeps ==
  ASSUME QueueInv, UNCHANGED <<queueVars, task>>, at' \in [Threads -> Places],
         \A a \in Acceptors : at'[a] \in {"outside", "signal"}
                               <=> at[a] \in {"outside", "signal"},
         \A w \in Pool : at'[w] \in {"lock", "wait"} <=> at[w] \in {"lock", "wait"}
  PROVE  QueueInv'
<1>1. Waiting' = Waiting /\ size' = size
  BY SameRing
<1>2. TypeOK' /\ Ends'
  BY DEF QueueInv, TypeOK, Ends, queueVars, Threads
<1>3. Written' /\ HandedOverOnce'
  BY <1>1 DEF QueueInv, Written, HandedOverOnce
<1>4. Holding'
  BY DEF QueueInv, Holding
<1> QED BY <1>2, <1>3, <1>4 DEF QueueInv

LEMMA SignalKeeps ==
  ASSUME QueueInv, NEW t \in Threads, NEW S \in SUBSET Threads, at[t] = "signal",
         Signal(t, "outside", S), UNCHANGED <<queueVars, task>>
  PROVE  QueueInv'
<1>1. at \in [Threads -> Places] /\ "outside" \in Places /\ "lock" \in Places
  BY DEF QueueInv, TypeOK, Threads, Places
<1>2. CASE at' = [at EXCEPT ![t] = "outside"]
  <2>1. at' \in [Threads -> Places] /\ at'[t] = "outside"
        /\ \A s \in Threads : s # t => at'[s] = at[s]
    BY <1>1, <1>2
  <2> QED BY <2>1, MoveKeeps, ThreadsApart DEF Threads, QueueInv, Holding
<1>3. ASSUME NEW w \in S, at[w] = "wait",
             at' = [at EXCEPT ![t] = "outside", ![w] = "lock"]
      PROVE  QueueInv'
  <2>1. at' \in [Threads -> Places] /\ at'[t] = "outside" /\ at'[w] = "lock"
        /\ \A s \in Threads : s # t /\ s # w => at'[s] = at[s]
    BY <1>1, <1>3
  <2>2. \A a \in Acceptors : at'[a] \in {"outside", "signal"}
                              <=> at[a] \in {"outside", "signal"}
    BY <1>3, <2>1 DEF Threads
  <2>3. \A v \in Pool : at'[v] \in {"lock", "wait"} <=> at[v] \in {"lock", "wait"}
    BY <1>3, <2>1 DEF Threads
  <2> QED BY <2>1, <2>2, <2>3, MoveKeeps
<1> QED BY <1>2, <1>3 DEF Signal, Move

\* A thread between the lock and the wait set moves nothing that QueueInv counts.
MovesAround(t) ==
  \/ at[t] = "lock" /\ Move(t, "wait")
  \/ at[t] = "wait" /\ Move(t, "lock")

\* So the queue keeps its invariant when a thread blocks or wakes.
LEMMA WaitKeeps ==
  ASSUME QueueInv, NEW t \in Threads, MovesAround(t),
         UNCHANGED <<queueVars, task>>
  PROVE  QueueInv'
<1>1. at \in [Threads -> Places] /\ "wait" \in Places /\ "lock" \in Places
  BY DEF QueueInv, TypeOK, Threads, Places
<1>2. /\ at' \in [Threads -> Places]
      /\ at[t] \in {"lock", "wait"} /\ at'[t] \in {"lock", "wait"}
      /\ \A s \in Threads : s # t => at'[s] = at[s]
  BY <1>1 DEF Move, MovesAround
<1>3. \A a \in Acceptors : at'[a] \in {"outside", "signal"}
                            <=> at[a] \in {"outside", "signal"}
  BY <1>2 DEF Threads
<1>4. \A v \in Pool : at'[v] \in {"lock", "wait"} <=> at[v] \in {"lock", "wait"}
  BY <1>2 DEF Threads
<1> QED BY <1>2, <1>3, <1>4, MoveKeeps

\* The descriptor that accept returns is nowhere else.
LEMMA AcceptKeeps ==
  ASSUME QueueInv, NEW a \in Acceptors, Accept(a) PROVE QueueInv'
<1>1. PICK c \in Connections :
        /\ \A t \in Threads : task[t] # c
        /\ c \notin Ready
        /\ task' = [task EXCEPT ![a] = c]
  BY DEF Accept, Threads
<1>2. /\ a \in Threads /\ at' = [at EXCEPT ![a] = "lock"] /\ UNCHANGED queueVars
      /\ at \in [Threads -> Places] /\ task \in [Threads -> Connections \cup {NoTask}]
      /\ "lock" \in Places
  BY DEF Accept, Move, Threads, QueueInv, TypeOK, Places
<1>3. /\ task'[a] = c /\ at'[a] = "lock" /\ c # NoTask
      /\ \A t \in Threads : t # a => task'[t] = task[t] /\ at'[t] = at[t]
  BY <1>1, <1>2, QueueAssumption
<1>4. Waiting' = Waiting /\ size' = size
  BY <1>2, SameRing
<1>5. TypeOK' /\ Ends'
  <2>1. task' \in [Threads -> Connections \cup {NoTask}] /\ at' \in [Threads -> Places]
    BY <1>1, <1>2
  <2> QED BY <1>2, <2>1 DEF QueueInv, TypeOK, Ends, queueVars, Threads
<1>6. Written'
  BY <1>4 DEF QueueInv, Written
<1>7. Holding'
  BY <1>3, ThreadsApart DEF QueueInv, Holding, Threads
<1>8. \A i \in 1..size : Waiting[i] # c
  <2> SUFFICES ASSUME NEW i \in 1..size PROVE Waiting[i] \in Ready
    BY <1>1
  <2>1. i - 1 \in 0..(size - 1) /\ tail + i - 1 = tail + (i - 1)
    BY DEF QueueInv, TypeOK
  <2>2. Waiting[i] = tasks[(tail + (i - 1)) % ThreadPoolSz]
    BY <2>1 DEF Waiting
  <2> QED BY <2>1, <2>2 DEF Ready
<1>9. HandedOverOnce'
  <2>1. \A t, s \in Threads : task'[t] = task'[s] /\ task'[t] # NoTask => t = s
    BY <1>1, <1>3 DEF QueueInv, HandedOverOnce, Threads
  <2>2. \A t \in Threads, i \in 1..size : task'[t] # Waiting[i]
    BY <1>3, <1>8 DEF QueueInv, HandedOverOnce, Threads
  <2> QED BY <1>4, <2>1, <2>2 DEF QueueInv, HandedOverOnce, Threads
<1> QED BY <1>5, <1>6, <1>7, <1>9 DEF QueueInv

LEMMA EnqueueKeeps ==
  ASSUME QueueInv, NEW a \in Acceptors, Enqueue(a) PROVE QueueInv'
<1>1. /\ task[a] \in Connections /\ TypeOK' /\ Ends' /\ size' = size + 1
      /\ \A i \in 1..size : Waiting'[i] = Waiting[i]
      /\ Waiting'[size + 1] = task[a] /\ size \in Nat
  BY EnqueueIs DEF QueueInv, TypeOK
<1>2. \A i \in 1..size' : i \in 1..size \/ i = size + 1
  BY <1>1
<1>3. /\ a \in Threads /\ task'[a] = NoTask /\ at'[a] = "signal"
      /\ \A t \in Threads : t # a => task'[t] = task[t] /\ at'[t] = at[t]
  BY DEF Enqueue, Move, QueueInv, TypeOK, Threads
<1>4. Written'
  BY <1>1, <1>2 DEF QueueInv, Written
<1>5. Holding'
  BY <1>3, ThreadsApart DEF QueueInv, Holding, Threads
<1>6. HandedOverOnce'
  <2>1. \A i \in 1..size : Waiting[i] # task[a]
    BY <1>3 DEF QueueInv, HandedOverOnce, Threads
  <2>2. \A i, j \in 1..size' : Waiting'[i] = Waiting'[j] => i = j
    BY <1>1, <1>2, <2>1 DEF QueueInv, HandedOverOnce
  <2>3. \A t, s \in Threads : task'[t] = task'[s] /\ task'[t] # NoTask => t = s
    BY <1>3 DEF QueueInv, HandedOverOnce, Threads
  <2>4. \A t \in Threads, i \in 1..size' : task'[t] # Waiting'[i]
    <3> SUFFICES ASSUME NEW t \in Threads, NEW i \in 1..size'
                 PROVE  task'[t] # Waiting'[i]
      OBVIOUS
    <3>1. CASE t = a
      <4>1. Waiting'[i] \in Connections
        BY <1>4 DEF Written
      <4> QED BY <1>3, <3>1, <4>1, QueueAssumption
    <3>2. CASE t # a
      <4>1. task'[t] = task[t]
        BY <1>3, <3>2
      <4>2. CASE i \in 1..size
        BY <1>1, <4>1, <4>2 DEF QueueInv, HandedOverOnce, Threads
      <4>3. CASE i = size + 1
        <5>1. task[a] # NoTask
          BY <1>1, QueueAssumption
        <5> QED BY <1>1, <1>3, <3>2, <4>1, <4>3, <5>1
                DEF QueueInv, HandedOverOnce, Threads
      <4> QED BY <1>2, <4>2, <4>3
    <3> QED BY <3>1, <3>2
  <2> QED BY <2>2, <2>3, <2>4 DEF HandedOverOnce, Threads
<1> QED BY <1>1, <1>4, <1>5, <1>6 DEF QueueInv

LEMMA DequeueKeepsInv ==
  ASSUME QueueInv, NEW w \in Pool, Dequeue(w) PROVE QueueInv'
<1>1. /\ TypeOK' /\ Ends' /\ size' = size - 1 /\ size > 0 /\ size \in Nat
      /\ task'[w] = Waiting[1] /\ Waiting[1] \in Connections
      /\ \A i \in 1..size' : i + 1 \in 1..size /\ Waiting'[i] = Waiting[i + 1]
  BY DequeueIs DEF QueueInv, TypeOK
<1>2. 1 \in 1..size /\ \A i \in 1..size' : i + 1 # 1
  BY <1>1
<1>3. /\ w \in Threads /\ at'[w] = "signal"
      /\ \A t \in Threads : t # w => task'[t] = task[t] /\ at'[t] = at[t]
  BY DEF Dequeue, Move, QueueInv, TypeOK, Threads
<1>4. Written'
  BY <1>1 DEF QueueInv, Written
<1>5. Holding'
  <2>1. task'[w] # NoTask
    BY <1>1, QueueAssumption
  <2> QED BY <1>3, <2>1, ThreadsApart DEF QueueInv, Holding, Threads
<1>6. HandedOverOnce'
  <2>1. \A i, j \in 1..size' : Waiting'[i] = Waiting'[j] => i = j
    <3> SUFFICES ASSUME NEW i \in 1..size', NEW j \in 1..size', Waiting'[i] = Waiting'[j]
                 PROVE  i = j
      OBVIOUS
    <3>1. i + 1 = j + 1
      BY <1>1 DEF QueueInv, HandedOverOnce
    <3> QED BY <3>1, <1>1
  <2>2. \A t \in Threads : t # w => task'[t] # task'[w]
    BY <1>1, <1>2, <1>3 DEF QueueInv, HandedOverOnce, Threads
  <2>3. \A t, s \in Threads : task'[t] = task'[s] /\ task'[t] # NoTask => t = s
    BY <1>3, <2>2 DEF QueueInv, HandedOverOnce, Threads
  <2>4. \A t \in Threads, i \in 1..size' : task'[t] # Waiting'[i]
    BY <1>1, <1>2, <1>3 DEF QueueInv, HandedOverOnce, Threads
  <2> QED BY <2>1, <2>3, <2>4 DEF HandedOverOnce, Threads
<1> QED BY <1>1, <1>4, <1>5, <1>6 DEF QueueInv

LEMMA ServeKeeps ==
  ASSUME QueueInv, NEW w \in Pool, Serve(w) PROVE QueueInv'
<1>1. /\ w \in Threads /\ task' = [task EXCEPT ![w] = NoTask] /\ UNCHANGED queueVars
      /\ at' = [at EXCEPT ![w] = "lock"] /\ "lock" \in Places
      /\ at \in [Threads -> Places] /\ task \in [Threads -> Connections \cup {NoTask}]
  BY DEF Serve, Move, Threads, Places, QueueInv, TypeOK
<1>2. /\ task'[w] = NoTask /\ at'[w] = "lock"
      /\ \A t \in Threads : t # w => task'[t] = task[t] /\ at'[t] = at[t]
  BY <1>1
<1>3. Waiting' = Waiting /\ size' = size
  BY <1>1, SameRing
<1>4. TypeOK' /\ Ends'
  <2>1. task' \in [Threads -> Connections \cup {NoTask}] /\ at' \in [Threads -> Places]
    BY <1>1
  <2> QED BY <1>1, <2>1 DEF QueueInv, TypeOK, Ends, queueVars, Threads
<1>5. Written'
  BY <1>3 DEF QueueInv, Written
<1>6. Holding'
  BY <1>2, ThreadsApart DEF QueueInv, Holding, Threads
<1>7. HandedOverOnce'
  <2>1. \A i \in 1..size : Waiting[i] # NoTask
    BY QueueAssumption DEF QueueInv, Written
  <2> QED BY <1>2, <1>3, <2>1 DEF QueueInv, HandedOverOnce, Threads
<1> QED BY <1>4, <1>5, <1>6, <1>7 DEF QueueInv

LEMMA InitHolds == Init => QueueInv
<1> SUFFICES ASSUME Init PROVE QueueInv
  OBVIOUS
<1>1. TypeOK
  BY QueueAssumption DEF Init, TypeOK, Places, Slots
<1>2. Ends
  BY QueueAssumption DEF Init, Ends
<1>3. size = 0 /\ 1..size = {} /\ \A t \in Threads : task[t] = NoTask
  BY DEF Init, Threads
<1>4. Written /\ HandedOverOnce
  BY <1>3 DEF Written, HandedOverOnce, Threads
<1>5. Holding
  BY QueueAssumption DEF Init, Holding
<1> QED BY <1>1, <1>2, <1>4, <1>5 DEF QueueInv

LEMMA NextKeeps == QueueInv /\ [Next]_vars => QueueInv'
<1> SUFFICES ASSUME QueueInv, [Next]_vars PROVE QueueInv'
  OBVIOUS
<1>1. CASE UNCHANGED vars
  <2>1. at' \in [Threads -> Places]
    BY <1>1 DEF vars, QueueInv, TypeOK, Threads
  <2> QED BY <1>1, <2>1, MoveKeeps DEF vars
<1>2. ASSUME NEW a \in Acceptors, Accept(a) PROVE QueueInv'
  BY <1>2, AcceptKeeps
<1>3. ASSUME NEW a \in Acceptors, AcceptorRuns(a) PROVE QueueInv'
  <2>1. ASSUME WaitNotFull(a) PROVE QueueInv'
    <3>1. a \in Threads
      BY DEF Threads
    <3>2. at[a] = "lock" /\ Move(a, "wait") /\ UNCHANGED <<queueVars, task>>
      BY <2>1 DEF WaitNotFull
    <3>3. MovesAround(a)
      BY <3>2 DEF MovesAround
    <3> QED BY <3>1, <3>2, <3>3, WaitKeeps, Zenon
  <2>2. ASSUME SignalNotEmpty(a) PROVE QueueInv'
    <3>1. a \in Threads /\ Pool \in SUBSET Threads
      BY DEF Threads
    <3>2. at[a] = "signal" /\ Signal(a, "outside", Pool)
          /\ UNCHANGED <<queueVars, task>>
      BY <2>2 DEF SignalNotEmpty
    <3> QED BY <3>1, <3>2, SignalKeeps, Zenon
  <2> QED BY <1>3, <2>1, <2>2, EnqueueKeeps DEF AcceptorRuns
<1>4. ASSUME NEW w \in Pool, WorkerRuns(w) PROVE QueueInv'
  <2>1. ASSUME WaitNotEmpty(w) PROVE QueueInv'
    <3>1. w \in Threads
      BY DEF Threads
    <3>2. at[w] = "lock" /\ Move(w, "wait") /\ UNCHANGED <<queueVars, task>>
      BY <2>1 DEF WaitNotEmpty
    <3>3. MovesAround(w)
      BY <3>2 DEF MovesAround
    <3> QED BY <3>1, <3>2, <3>3, WaitKeeps, Zenon
  <2>2. ASSUME SignalNotFull(w) PROVE QueueInv'
    <3>1. w \in Threads /\ Acceptors \in SUBSET Threads
      BY DEF Threads
    <3>2. at[w] = "signal" /\ Signal(w, "outside", Acceptors)
          /\ UNCHANGED <<queueVars, task>>
      BY <2>2 DEF SignalNotFull
    <3> QED BY <3>1, <3>2, SignalKeeps, Zenon
  <2> QED BY <1>4, <2>1, <2>2, DequeueKeepsInv, ServeKeeps DEF WorkerRuns
<1>5. ASSUME NEW t \in Threads, SpuriousWakeup(t) PROVE QueueInv'
  BY <1>5, WaitKeeps DEF SpuriousWakeup, MovesAround
<1> QED BY <1>1, <1>2, <1>3, <1>4, <1>5 DEF Next, Threads

\* The ends of the ring fit its size, and each connection is in one place.
THEOREM QueueInvHolds == Spec => []QueueInv
BY InitHolds, NextKeeps, PTL DEF Spec

\* The size never passes the ends of the array, and head and tail stay in it,
\* however the threads interleave (enqueue and dequeue).
THEOREM TypeOKHolds == Spec => []TypeOK
<1>1. QueueInv => TypeOK
  BY DEF QueueInv
<1> QED BY <1>1, QueueInvHolds, PTL

\* No connection waits twice, or waits while it is served, or has two workers,
\* for any number of workers and a ring of any size.
THEOREM HandedOverOnceHolds == Spec => []HandedOverOnce
<1>1. QueueInv => HandedOverOnce
  BY DEF QueueInv
<1> QED BY <1>1, QueueInvHolds, PTL

-----------------------------------------------------------------------------
(* Wake-ups                                                                *)

\* The code has one acceptor and 30 workers.  Of two acceptors a signal would wake
\* one, and the other would go on waiting beside a free slot.
OneAcceptor == \A a, b \in Acceptors : a = b

\* A signal that finds someone waiting wakes one of them, and moves nobody else.
LEMMA SignalIs ==
  ASSUME TypeOK, NEW t \in Threads, NEW S \in SUBSET Threads, at[t] = "signal",
         Signal(t, "outside", S)
  PROVE  /\ \/ \A s \in S : at'[s] # "wait"
            \/ \E s \in S : at[s] = "wait" /\ at'[s] = "lock"
         /\ \A s \in Threads \ S : s # t => at'[s] = at[s]
         /\ \A s \in Threads : at'[s] = "wait" => at[s] = "wait"
<1>1. at \in [Threads -> Places]
  BY DEF TypeOK, Threads
<1>2. CASE at' = [at EXCEPT ![t] = "outside"] /\ \A s \in S : at[s] # "wait"
  BY <1>1, <1>2
<1>3. ASSUME NEW w \in S, at[w] = "wait",
             at' = [at EXCEPT ![t] = "outside", ![w] = "lock"]
      PROVE  /\ at'[w] = "lock"
             /\ \A s \in Threads : s # t /\ s # w => at'[s] = at[s]
             /\ at'[t] # "wait"
  BY <1>1, <1>3
<1> QED BY <1>2, <1>3 DEF Signal, Move

LEMMA NoSleepersKept ==
  ASSUME OneAcceptor, Pool # {}, TypeOK, NoSleepers, [Next]_vars
  PROVE  NoSleepers'
<1>1. /\ at \in [Threads -> Places] /\ size \in 0..ThreadPoolSz
      /\ Pool \in SUBSET Threads /\ Acceptors \in SUBSET Threads
      /\ ThreadPoolSz \in Nat /\ Acceptors \cap Pool = {}
  BY QueueAssumption DEF TypeOK, Threads
<1>2. PICK v \in Pool : TRUE
  OBVIOUS
<1>3. CASE UNCHANGED vars
  BY <1>3 DEF vars, queueVars, NoSleepers
<1>4. ASSUME NEW a \in Acceptors, Accept(a) \/ WaitNotFull(a) PROVE NoSleepers'
  BY <1>1, <1>4 DEF Accept, WaitNotFull, Move, queueVars, NoSleepers
<1>5. ASSUME NEW a \in Acceptors, Enqueue(a) PROVE NoSleepers'
  BY <1>1, <1>5 DEF Enqueue, Move, NoSleepers
<1>6. ASSUME NEW a \in Acceptors, SignalNotEmpty(a) PROVE NoSleepers'
  <2>1. /\ \E w \in Pool : at'[w] # "wait"
        /\ \A s \in Threads : at'[s] = "wait" => at[s] = "wait"
        /\ UNCHANGED size
    BY <1>1, <1>2, <1>6, SignalIs DEF SignalNotEmpty, queueVars
  <2>2. \A w \in Pool : at[w] = "signal" => at'[w] = "signal"
    BY <1>1, <1>6 DEF SignalNotEmpty, Signal, Move
  <2> QED BY <1>1, <2>1, <2>2 DEF NoSleepers
<1>7. ASSUME NEW w \in Pool, Dequeue(w) PROVE NoSleepers'
  BY <1>1, <1>7 DEF Dequeue, Move, NoSleepers
<1>8. ASSUME NEW w \in Pool, WaitNotEmpty(w) \/ Serve(w) PROVE NoSleepers'
  BY <1>1, <1>8 DEF WaitNotEmpty, Serve, Move, queueVars, NoSleepers
<1>9. ASSUME NEW w \in Pool, SignalNotFull(w) PROVE NoSleepers'
  <2>1. /\ \A a \in Acceptors : at'[a] # "wait"
        /\ at'[w] # "wait" /\ UNCHANGED size
    BY <1>1, <1>9, SignalIs DEF SignalNotFull, queueVars, OneAcceptor
  <2> QED BY <1>1, <2>1 DEF NoSleepers
<1>10. ASSUME NEW t \in Threads, SpuriousWakeup(t) PROVE NoSleepers'
  BY <1>1, <1>10 DEF SpuriousWakeup, Move, queueVars, NoSleepers
<1> QED BY <1>3, <1>4, <1>5, <1>6, <1>7, <1>8, <1>9, <1>10
        DEF Next, AcceptorRuns, WorkerRuns, Threads

\* No wake-up is lost although the signals follow the unlock and waiting threads
\* may wake for no reason: with the one acceptor of the code and any number of
\* workers, nobody sleeps beside work or a free slot with no signal on its way.
THEOREM NoSleepersHolds ==
  ASSUME OneAcceptor, Pool # {} PROVE Spec => []NoSleepers
<1>1. Init => NoSleepers
  BY DEF Init, NoSleepers
<1>2. TypeOK /\ NoSleepers /\ [Next]_vars => NoSleepers'
  BY NoSleepersKept
<1> QED BY <1>1, <1>2, TypeOKHolds, PTL DEF Spec

-----------------------------------------------------------------------------
(* Refinement of TaskFifo                                                  *)

\* The ring grows at one end and shrinks at the other, as a queue does.
LEMMA EnqueueAppends ==
  ASSUME QueueInv, NEW a \in Acceptors, Enqueue(a)
  PROVE  Len(Waiting) < ThreadPoolSz /\ Waiting' = Append(Waiting, task[a])
<1> DEFINE S == Connections \cup {NoTask}
<1>1. /\ task[a] \in S /\ size < ThreadPoolSz /\ size' = size + 1 /\ TypeOK'
      /\ \A i \in 1..size : Waiting'[i] = Waiting[i]
      /\ Waiting'[size + 1] = task[a]
  BY EnqueueIs
<1>2. /\ Waiting \in Seq(S) /\ Len(Waiting) = size
      /\ Waiting' \in Seq(S) /\ Len(Waiting') = size'
  BY <1>1, WaitingIs, WaitingIsNext DEF QueueInv, Ring
<1>3. size \in Nat
  BY DEF QueueInv, TypeOK
<1> HIDE DEF S
<1>4. /\ Append(Waiting, task[a]) \in Seq(S)
      /\ Len(Append(Waiting, task[a])) = size + 1
      /\ \A i \in 1..size : Append(Waiting, task[a])[i] = Waiting[i]
      /\ Append(Waiting, task[a])[size + 1] = task[a]
  BY <1>1, <1>2, <1>3, AppendProperties
<1>5. \A i \in 1..Len(Waiting') : Waiting'[i] = Append(Waiting, task[a])[i]
  <2>1. \A i \in 1..Len(Waiting') : i \in 1..size \/ i = size + 1
    BY <1>1, <1>2, <1>3
  <2> QED BY <1>1, <1>4, <2>1
<1> QED BY <1>1, <1>2, <1>4, <1>5, SeqEqual

LEMMA DequeueTakesHead ==
  ASSUME QueueInv, NEW w \in Pool, Dequeue(w)
  PROVE  /\ Waiting # <<>> /\ task'[w] = Head(Waiting)
         /\ Waiting' = Tail(Waiting)
<1> DEFINE S == Connections \cup {NoTask}
<1>1. /\ size > 0 /\ task'[w] = Waiting[1] /\ size' = size - 1 /\ TypeOK'
      /\ \A i \in 1..(size - 1) : Waiting'[i] = Waiting[i + 1]
  BY DequeueIs
<1>2. /\ Waiting \in Seq(S) /\ Len(Waiting) = size
      /\ Waiting' \in Seq(S) /\ Len(Waiting') = size'
  BY <1>1, WaitingIs, WaitingIsNext DEF QueueInv, Ring
<1>3. size \in Nat
  BY DEF QueueInv, TypeOK
<1> HIDE DEF S
<1>4. Waiting # <<>> /\ Head(Waiting) = Waiting[1]
  BY <1>1, <1>2, <1>3
<1>5. /\ Tail(Waiting) \in Seq(S) /\ Len(Tail(Waiting)) = size - 1
      /\ \A i \in 1..(size - 1) : Tail(Waiting)[i] = Waiting[i + 1]
  BY <1>2, <1>4, HeadTailProperties
<1>6. Waiting' = Tail(Waiting)
  BY <1>1, <1>2, <1>5, SeqEqual
<1> QED BY <1>1, <1>4, <1>6

\* FifoSpec without its fairness
InOrder == Fifo!FifoInit /\ [][Fifo!FifoNext]_(Fifo!fifoVars)

LEMMA InitIsFifoInit == Init => Fifo!FifoInit
<1> SUFFICES ASSUME Init PROVE Fifo!FifoInit
  OBVIOUS
<1>1. Waiting = <<>>
  <2>1. size = 0 /\ Waiting = [i \in 1..0 |-> tasks[(tail + i - 1) % ThreadPoolSz]]
    BY DEF Init, Waiting
  <2> QED BY <2>1
<1> QED BY <1>1 DEF Init, Fifo!FifoInit

LEMMA StepIsFifoStep ==
  QueueInv /\ [Next]_vars => [Fifo!FifoNext]_(Fifo!fifoVars)
<1> SUFFICES ASSUME QueueInv, [Next]_vars PROVE [Fifo!FifoNext]_(Fifo!fifoVars)
  OBVIOUS
<1>1. ASSUME UNCHANGED <<queueVars, task>> PROVE UNCHANGED Fifo!fifoVars
  BY <1>1, SameRing DEF Fifo!fifoVars
<1>2. ASSUME NEW a \in Acceptors, Accept(a)
      PROVE  \E c \in Connections : Fifo!Accept(a, c)
  <2>1. PICK c \in Connections : task' = [task EXCEPT ![a] = c]
    BY <1>2 DEF Accept
  <2>2. task[a] = NoTask /\ task \in [Threads -> Connections \cup {NoTask}]
    BY <1>2 DEF Accept, QueueInv, TypeOK, Holding, Threads
  <2>3. /\ [b \in Acceptors |-> task'[b]] = [[b \in Acceptors |-> task[b]] EXCEPT ![a] = c]
        /\ [v \in Pool |-> task'[v]] = [v \in Pool |-> task[v]]
    BY <2>1, <2>2, QueueAssumption DEF Threads
  <2>4. Waiting' = Waiting
    BY <1>2, SameRing DEF Accept
  <2> QED BY <2>2, <2>3, <2>4 DEF Fifo!Accept
<1>3. ASSUME NEW a \in Acceptors, Enqueue(a) PROVE Fifo!HandOver(a)
  <2>1. /\ task[a] # NoTask /\ task \in [Threads -> Connections \cup {NoTask}]
        /\ task' = [task EXCEPT ![a] = NoTask]
    BY <1>3 DEF Enqueue, QueueInv, TypeOK, Holding, Threads
  <2>2. /\ [b \in Acceptors |-> task'[b]]
              = [[b \in Acceptors |-> task[b]] EXCEPT ![a] = NoTask]
        /\ [v \in Pool |-> task'[v]] = [v \in Pool |-> task[v]]
    BY <2>1, QueueAssumption DEF Threads
  <2> QED BY <1>3, <2>1, <2>2, EnqueueAppends DEF Fifo!HandOver
<1>4. ASSUME NEW w \in Pool, Dequeue(w) PROVE Fifo!Take(w)
  <2>1. /\ task[w] = NoTask /\ task \in [Threads -> Connections \cup {NoTask}]
        /\ task' = [task EXCEPT ![w] = tasks[tail]]
    BY <1>4 DEF Dequeue, QueueInv, TypeOK, Holding, Threads
  <2>2. task'[w] = tasks[tail]
    BY <2>1 DEF Threads
  <2>3. /\ [v \in Pool |-> task'[v]] = [[v \in Pool |-> task[v]] EXCEPT ![w] = tasks[tail]]
        /\ [b \in Acceptors |-> task'[b]] = [b \in Acceptors |-> task[b]]
    BY <2>1, QueueAssumption DEF Threads
  <2> QED BY <1>4, <2>1, <2>2, <2>3, DequeueTakesHead DEF Fifo!Take
<1>5. ASSUME NEW w \in Pool, Serve(w) PROVE Fifo!Close(w)
  <2>1. /\ task[w] # NoTask /\ task \in [Threads -> Connections \cup {NoTask}]
        /\ task' = [task EXCEPT ![w] = NoTask]
    BY <1>5 DEF Serve, QueueInv, TypeOK, Holding, Threads
  <2>2. /\ [v \in Pool |-> task'[v]] = [[v \in Pool |-> task[v]] EXCEPT ![w] = NoTask]
        /\ [b \in Acceptors |-> task'[b]] = [b \in Acceptors |-> task[b]]
    BY <2>1, QueueAssumption DEF Threads
  <2>3. Waiting' = Waiting
    BY <1>5, SameRing DEF Serve
  <2> QED BY <2>1, <2>2, <2>3 DEF Fifo!Close
<1>6. \/ UNCHANGED <<queueVars, task>>
      \/ \E a \in Acceptors : Accept(a) \/ Enqueue(a)
      \/ \E w \in Pool : Dequeue(w) \/ Serve(w)
  BY DEF Next, vars, AcceptorRuns, WorkerRuns, WaitNotFull, SignalNotEmpty,
         WaitNotEmpty, SignalNotFull, SpuriousWakeup
<1> QED BY <1>1, <1>2, <1>3, <1>4, <1>5, <1>6 DEF Fifo!FifoNext

\* The ring hands connections over in the order of arrival, each once and never
\* more than THREAD_POOL_SZ waiting: it implements TaskFifo, but for the fairness.
THEOREM ServesInOrderSafely == Spec => InOrder
BY InitIsFifoInit, StepIsFifoStep, QueueInvHolds, PTL DEF Spec, InOrder
==============================================================================
