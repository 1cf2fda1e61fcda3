----------------------------- MODULE TasksQueue -----------------------------
(***************************************************************************)
(* The queue between the thread that accepts TCP connections and the       *)
(* workers (src/server/tasks_queue.c, and its two users in server.c): a    *)
(* ring of tasks, a mutex and two condition variables.                     *)
(*                                                                         *)
(* What a thread does between lock and unlock, or between lock and wait,   *)
(* is one step.  A thread that waits runs again when it is signalled, or   *)
(* for no reason, as POSIX allows; it then takes the mutex and looks at    *)
(* the size again.  The signal is sent after the unlock, in a step of its  *)
(* own.                                                                    *)
(***************************************************************************)
EXTENDS Naturals, Sequences, FiniteSets

CONSTANTS
  Connections,   \* descriptors of accepted connections
  Acceptors,     \* the thread that accepts (one in the code)
  Pool,          \* the workers (30 in the code)
  ThreadPoolSz,  \* THREAD_POOL_SZ
  NoTask

ASSUME QueueAssumption ==
  /\ ThreadPoolSz \in Nat \ {0}
  /\ NoTask \notin Connections
  /\ Acceptors \cap Pool = {}

VARIABLES
  tasks, size, head, tail,  \* struct tasks_queue
  at,                       \* where a thread is
  task                      \* the connection a thread holds

queueVars == <<tasks, size, head, tail>>
vars == <<queueVars, at, task>>

Slots == 0..(2 * ThreadPoolSz - 1)
Places == {"outside", "lock", "wait", "signal"}

TypeOK ==
  /\ tasks \in [Slots -> Connections \cup {NoTask}]
  /\ size \in 0..ThreadPoolSz
  /\ head \in 0..(ThreadPoolSz - 1)
  /\ tail \in 0..(ThreadPoolSz - 1)
  /\ at \in [Acceptors \cup Pool -> Places]
  /\ task \in [Acceptors \cup Pool -> Connections \cup {NoTask}]

\* init_queue.  The memory of tasks is malloc'ed, and never read before written.
Init ==
  /\ tasks = [i \in Slots |-> NoTask]
  /\ size = 0 /\ head = 0 /\ tail = 0
  /\ at = [t \in Acceptors \cup Pool |->
             IF t \in Acceptors THEN "outside" ELSE "lock"]
  /\ task = [t \in Acceptors \cup Pool |-> NoTask]

Move(t, place) == at' = [at EXCEPT ![t] = place]

\* pthread_cond_signal: one of the threads that wait, if there is one, runs.
\* Nobody waits on not_empty but workers, nor on not_full but acceptors.
Signal(t, place, threads) ==
  LET waiting == {w \in threads : at[w] = "wait"} IN
  IF waiting = {} THEN Move(t, place)
  ELSE \E w \in waiting : at' = [at EXCEPT ![t] = place, ![w] = "lock"]

\* The connections in the ring
Ready == {tasks[(tail + i) % ThreadPoolSz] : i \in 0..(size - 1)}

\* tcp_server_thread_fn: accept returns a descriptor that is not in use.
Accept(a) ==
  /\ at[a] = "outside"
  /\ \E c \in Connections :
       /\ \A t \in Acceptors \cup Pool : task[t] # c
       /\ c \notin Ready
       /\ task' = [task EXCEPT ![a] = c]
  /\ Move(a, "lock")
  /\ UNCHANGED queueVars

\* Mutant of Enqueue: one task too many
EnqueueFull(a) ==
  /\ at[a] = "lock"
  /\ size <= ThreadPoolSz
  /\ tasks' = [tasks EXCEPT ![head] = task[a]]
  /\ head' = (head + 1) % ThreadPoolSz
  /\ size' = size + 1
  /\ task' = [task EXCEPT ![a] = NoTask]
  /\ Move(a, "signal")
  /\ UNCHANGED tail

Enqueue(a) ==
  /\ at[a] = "lock"
  /\ size < ThreadPoolSz
  /\ tasks' = [tasks EXCEPT ![head] = task[a]]
  /\ head' = (head + 1) % ThreadPoolSz
  /\ size' = size + 1
  /\ task' = [task EXCEPT ![a] = NoTask]
  /\ Move(a, "signal")
  /\ UNCHANGED tail

WaitNotFull(a) ==
  /\ at[a] = "lock"
  /\ size = ThreadPoolSz
  /\ Move(a, "wait")
  /\ UNCHANGED <<queueVars, task>>

\* Mutant of SignalNotEmpty: nobody is woken.
SignalNobody(a) ==
  /\ at[a] = "signal"
  /\ Move(a, "outside")
  /\ UNCHANGED <<queueVars, task>>

SignalNotEmpty(a) ==
  /\ at[a] = "signal"
  /\ Signal(a, "outside", Pool)
  /\ UNCHANGED <<queueVars, task>>

\* Mutant of Dequeue: the task stays in the ring.
DequeueKeeps(w) ==
  /\ at[w] = "lock"
  /\ size > 0
  /\ task' = [task EXCEPT ![w] = tasks[tail]]
  /\ size' = size - 1
  /\ Move(w, "signal")
  /\ UNCHANGED <<tasks, head, tail>>

\* Mutant of Dequeue: the newest task first
DequeueNewest(w) ==
  /\ at[w] = "lock"
  /\ size > 0
  /\ task' = [task EXCEPT ![w] = tasks[(head + ThreadPoolSz - 1) % ThreadPoolSz]]
  /\ head' = (head + ThreadPoolSz - 1) % ThreadPoolSz
  /\ size' = size - 1
  /\ Move(w, "signal")
  /\ UNCHANGED <<tasks, tail>>

Dequeue(w) ==
  /\ at[w] = "lock"
  /\ size > 0
  /\ task' = [task EXCEPT ![w] = tasks[tail]]
  /\ tail' = (tail + 1) % ThreadPoolSz
  /\ size' = size - 1
  /\ Move(w, "signal")
  /\ UNCHANGED <<tasks, head>>

WaitNotEmpty(w) ==
  /\ at[w] = "lock"
  /\ size = 0
  /\ Move(w, "wait")
  /\ UNCHANGED <<queueVars, task>>

SignalNotFull(w) ==
  /\ at[w] = "signal"
  /\ Signal(w, "outside", Acceptors)
  /\ UNCHANGED <<queueVars, task>>

\* serve_tcp_connection ends and closes the descriptor.
Serve(w) ==
  /\ at[w] = "outside"
  /\ task' = [task EXCEPT ![w] = NoTask]
  /\ Move(w, "lock")
  /\ UNCHANGED queueVars

SpuriousWakeup(t) ==
  /\ at[t] = "wait"
  /\ Move(t, "lock")
  /\ UNCHANGED <<queueVars, task>>

AcceptorRuns(a) == Enqueue(a) \/ WaitNotFull(a) \/ SignalNotEmpty(a)
WorkerRuns(w) == Dequeue(w) \/ WaitNotEmpty(w) \/ SignalNotFull(w) \/ Serve(w)

Next ==
  \/ \E a \in Acceptors : Accept(a) \/ AcceptorRuns(a)
  \/ \E w \in Pool : WorkerRuns(w)
  \/ \E t \in Acceptors \cup Pool : SpuriousWakeup(t)

\* Threads that can run do; a connection is served in bounded time, because of
\* the timeouts of its socket.  Clients need not connect, and a thread that
\* waits need not wake by itself.
Fairness ==
  /\ \A a \in Acceptors : WF_vars(AcceptorRuns(a))
  /\ \A w \in Pool : WF_vars(WorkerRuns(w))

Spec == Init /\ [][Next]_vars /\ Fairness

-----------------------------------------------------------------------------
(* Properties                                                              *)

\* The ring as a queue
Waiting == [i \in 1..size |-> tasks[(tail + i - 1) % ThreadPoolSz]]

\* No wake-up is lost: when all workers sleep while connections wait, a signal
\* is on its way to one of them, and so it is when the acceptor sleeps while
\* there are free slots, although signals are sent after the unlock.
NoSleepers ==
  /\ size > 0 /\ (\A w \in Pool : at[w] = "wait")
       => \E a \in Acceptors : at[a] = "signal"
  /\ size < ThreadPoolSz /\ (\E a \in Acceptors : at[a] = "wait")
       => \E w \in Pool : at[w] = "signal"

\* No connection is in two places: waiting twice, or waiting and being served,
\* or served by two workers.
HandedOverOnce ==
  /\ \A i, j \in 1..size : Waiting[i] = Waiting[j] => i = j
  /\ \A t, s \in Acceptors \cup Pool :
       task[t] = task[s] /\ task[t] # NoTask => t = s
  /\ \A t \in Acceptors \cup Pool, i \in 1..size : task[t] # Waiting[i]

\* The ring and its condition variables do what TaskFifo promises: first come,
\* first served, and no connection is left to wait for ever.
Fifo == INSTANCE TaskFifo WITH
  Capacity <- ThreadPoolSz,
  offered <- [a \in Acceptors |-> task[a]],
  queue <- Waiting,
  serving <- [w \in Pool |-> task[w]]

ServesInOrder == Fifo!FifoSpec
=============================================================================
