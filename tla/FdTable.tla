------------------------------- MODULE FdTable -------------------------------
(***************************************************************************)
(* The descriptors of the server process, which all its threads share: the *)
(* connections that the TCP thread accepts and a worker closes             *)
(* (src/server/server.c, tcp.c) and the files that the handlers open and   *)
(* close (database.c, tcp.c).                                              *)
(*                                                                         *)
(* open, fopen and accept return the lowest number that is free, and close *)
(* frees whatever a number stands for.  A database call holds db_mutex     *)
(* while it has a file open; accept, and the file that handle_show_asset   *)
(* sends, need no mutex.  Each action is one call that takes or frees a    *)
(* number.  bid keeps the number of the bid file after it has closed that  *)
(* file, opens two more, and closes the kept number instead of the last.   *)
(*                                                                         *)
(* Numbers count from the first that is free when the threads start.       *)
(***************************************************************************)
EXTENDS Integers, Sequences, FiniteSets

CONSTANTS
  Clients,       \* the connections that clients make
  Workers,       \* the threads of the pool (30 in the code)
  UdpThread,     \* the thread that serves UDP
  ThreadPoolSz,  \* how many connections the queue takes (30 in the code)
  CharMax,       \* the largest number that a char keeps (127, less the first)
  MaxFd,         \* the largest number that the model follows
  None           \* no thread, no connection, nothing open

Threads == Workers \cup {UdpThread}
Fds == 0..MaxFd

\* struct tcp_client, as it goes from the TCP thread to a worker.  The client is
\* the one whose connection was accepted, its address in the code.
Task == [fd : Fds, client : Clients]

ASSUME FdAssumption ==
  /\ IsFiniteSet(Workers)
  /\ UdpThread \notin Workers
  /\ Threads \cap Clients = {}
  /\ None \notin Threads \cup Clients \cup Task
  /\ ThreadPoolSz \in Nat \ {0}
  /\ CharMax \in Nat
  \* From 256 on a char starts over at zero: that far the model does not go.
  /\ MaxFd \in Nat /\ MaxFd <= 2 * CharMax + 1

VARIABLES
  table,    \* what a number stands for: a connection, a file a thread opened
  pending,  \* the clients that have not been accepted yet
  offered,  \* the connection that the TCP thread wants to put into the queue
  queue,    \* the tasks that wait for a worker
  task,     \* the connection a worker serves
  pc,       \* the call a thread makes next
  mutex,    \* who holds db_mutex
  file,     \* the number of the file that a thread has opened last
  fd,       \* the variable fd of bid
  hit,      \* history: a close has freed what another opened
  leaks     \* history: how many files nobody will close any more

vars == <<table, pending, offered, queue, task, pc, mutex, file, fd, hit, leaks>>

Steps == {"idle", "setsockopt", "read", "open", "close file", "create bid",
  "close bid", "fopen bid", "fclose bid", "open bidded", "close again",
  "open asset", "close asset", "close"}

TypeOK ==
  /\ table \in [Fds -> Clients \cup Threads \cup {None}]
  /\ pending \subseteq Clients
  /\ offered \in Task \cup {None}
  /\ queue \in Seq(Task) /\ Len(queue) <= ThreadPoolSz
  /\ task \in [Workers -> Task \cup {None}]
  /\ pc \in [Threads -> Steps]
  /\ mutex \in Threads \cup {None}
  /\ file \in [Threads -> Fds]
  /\ fd \in [Workers -> Fds]
  /\ hit \in BOOLEAN
  /\ leaks \in Nat

Init ==
  /\ table = [n \in Fds |-> None]
  /\ pending = Clients
  /\ offered = None
  /\ queue = <<>>
  /\ task = [w \in Workers |-> None]
  /\ pc = [t \in Threads |-> "idle"]
  /\ mutex = None
  /\ file = [t \in Threads |-> 0]
  /\ fd = [w \in Workers |-> 0]
  /\ hit = FALSE
  /\ leaks = 0

-----------------------------------------------------------------------------
Free == {n \in Fds : table[n] = None}

\* The number that open, fopen and accept return
IsLowest(n) == n \in Free /\ \A m \in Free : n <= m

Goto(t, f) == pc' = [pc EXCEPT ![t] = f]

\* close(n), by someone who means o.  A number that is free is refused (EBADF).
Close(n, o) ==
  /\ table' = [table EXCEPT ![n] = None]
  /\ hit' = (hit \/ table[n] \notin {o, None})

\* t opens a file.
Open(t) ==
  \E n \in Fds :
    /\ IsLowest(n)
    /\ table' = [table EXCEPT ![n] = t]
    /\ file' = [file EXCEPT ![t] = n]

\* The variables of t that keep numbers go out of scope.
Forget(t) == file' = [file EXCEPT ![t] = 0]

TakeMutex(t) == mutex = None /\ mutex' = t
GiveMutex == mutex' = None

-----------------------------------------------------------------------------
(* Connections                                                             *)

\* The number is kept in a char, and one above CharMax is negative there: the
\* connection is taken for a failed accept, and nobody serves or closes it.
Accept(c) ==
  /\ c \in pending
  /\ offered = None
  /\ \E n \in Fds :
       /\ IsLowest(n)
       /\ table' = [table EXCEPT ![n] = c]
       /\ offered' = IF n <= CharMax THEN [fd |-> n, client |-> c] ELSE None
  /\ pending' = pending \ {c}
  /\ UNCHANGED <<queue, task, pc, mutex, file, fd, hit, leaks>>

\* Mutant of Enqueue: one task too many
EnqueueFull ==
  /\ offered # None
  /\ Len(queue) <= ThreadPoolSz
  /\ queue' = Append(queue, offered)
  /\ offered' = None
  /\ UNCHANGED <<table, pending, task, pc, mutex, file, fd, hit, leaks>>

Enqueue ==
  /\ offered # None
  /\ Len(queue) < ThreadPoolSz
  /\ queue' = Append(queue, offered)
  /\ offered' = None
  /\ UNCHANGED <<table, pending, task, pc, mutex, file, fd, hit, leaks>>

Dequeue(w) ==
  /\ pc[w] = "idle"
  /\ queue # <<>>
  /\ task' = [task EXCEPT ![w] = Head(queue)]
  /\ queue' = Tail(queue)
  /\ Goto(w, "setsockopt")
  /\ UNCHANGED <<table, pending, offered, mutex, file, fd, hit, leaks>>

IsConnection(n) == table[n] \in Clients

\* On what is no socket setsockopt fails, and the number is not closed.
SetTimeouts(w) ==
  /\ pc[w] = "setsockopt"
  /\ IF IsConnection(task[w].fd)
     THEN Goto(w, "read") /\ UNCHANGED task
     ELSE Goto(w, "idle") /\ task' = [task EXCEPT ![w] = None]
  /\ UNCHANGED <<table, pending, offered, queue, mutex, file, fd, hit, leaks>>

\* Mutant of ReadRequest: the error path closes and does not return.
ReadRequestClosing(w) ==
  /\ pc[w] = "read"
  /\ \/ /\ IsConnection(task[w].fd) /\ Goto(w, "open")
        /\ UNCHANGED <<table, hit>>
     \/ Close(task[w].fd, task[w].client) /\ Goto(w, "close")
  /\ UNCHANGED <<pending, offered, queue, task, mutex, file, fd, leaks>>

\* The request arrives, or the client is silent, hangs up or asks nonsense.
ReadRequest(w) ==
  /\ pc[w] = "read"
  /\ \/ IsConnection(task[w].fd) /\ Goto(w, "open")
     \/ Goto(w, "close")
  /\ UNCHANGED <<table, pending, offered, queue, task, mutex, file, fd, hit,
                 leaks>>

\* serve_tcp_connection ends, whatever has become of its request.
CloseConnection(w) ==
  /\ pc[w] = "close"
  /\ Close(task[w].fd, task[w].client)
  /\ task' = [task EXCEPT ![w] = None]
  /\ Goto(w, "idle")
  /\ UNCHANGED <<pending, offered, queue, mutex, file, fd, leaks>>

-----------------------------------------------------------------------------
(* Files of the database, under the mutex                                  *)

\* A call that opens a file and closes it: one stands for all that a handler
\* makes, since each leaves the table as it was.
OpenFile(t) ==
  /\ pc[t] = IF t = UdpThread THEN "idle" ELSE "open"
  /\ TakeMutex(t)
  /\ Open(t)
  /\ Goto(t, "close file")
  /\ UNCHANGED <<pending, offered, queue, task, fd, hit, leaks>>

\* Mutant of CloseFile: an early return leaves the file open.
CloseFileUnlessEarly(t) ==
  /\ pc[t] = "close file"
  /\ \/ Close(file[t], t) \/ UNCHANGED <<table, hit>>
  /\ Forget(t)
  /\ GiveMutex
  /\ \E f \in IF t = UdpThread THEN {"idle"}
              ELSE {"create bid", "open asset", "close"} : Goto(t, f)
  /\ UNCHANGED <<pending, offered, queue, task, fd, leaks>>

\* The handler goes on with a bid or an asset, or it is done.
CloseFile(t) ==
  /\ pc[t] = "close file"
  /\ Close(file[t], t)
  /\ Forget(t)
  /\ GiveMutex
  /\ \E f \in IF t = UdpThread THEN {"idle"}
              ELSE {"create bid", "open asset", "close"} : Goto(t, f)
  /\ UNCHANGED <<pending, offered, queue, task, fd, leaks>>

\* No number is free, the disk is full or the file is not there: the call ends
\* early, and with it the request.
OpenFails(w) ==
  /\ \/ pc[w] \in {"open", "create bid"} /\ mutex = None /\ UNCHANGED mutex
     \/ pc[w] \in {"fopen bid", "open bidded"} /\ GiveMutex
     \/ pc[w] = "open asset" /\ UNCHANGED mutex
  /\ fd' = [fd EXCEPT ![w] = 0]
  /\ Goto(w, "close")
  /\ UNCHANGED <<table, pending, offered, queue, task, file, hit, leaks>>

\* fd = open(bid_path)
CreateBid(w) ==
  /\ pc[w] = "create bid"
  /\ TakeMutex(w)
  /\ Open(w)
  /\ fd' = [fd EXCEPT ![w] = file'[w]]
  /\ Goto(w, "close bid")
  /\ UNCHANGED <<pending, offered, queue, task, hit, leaks>>

\* close(fd)
CloseBid(w) ==
  /\ pc[w] = "close bid"
  /\ Close(fd[w], w)
  /\ Forget(w)
  /\ Goto(w, "fopen bid")
  /\ UNCHANGED <<pending, offered, queue, task, mutex, fd, leaks>>

\* fp = fopen(bid_path), and ufd = open(user_bidded)
OpenAgain(w) ==
  /\ \/ pc[w] = "fopen bid" /\ Goto(w, "fclose bid")
     \/ pc[w] = "open bidded" /\ Goto(w, "close again")
  /\ Open(w)
  /\ UNCHANGED <<pending, offered, queue, task, mutex, fd, hit, leaks>>

\* fclose(fp), which ends the call when fputs has failed
FcloseBid(w) ==
  /\ pc[w] = "fclose bid"
  /\ Close(file[w], w)
  /\ Forget(w)
  /\ \/ Goto(w, "open bidded") /\ UNCHANGED <<mutex, fd>>
     \/ Goto(w, "close") /\ GiveMutex /\ fd' = [fd EXCEPT ![w] = 0]
  /\ UNCHANGED <<pending, offered, queue, task, leaks>>

\* close(fd), which is not the number of user_bidded when another thread has
\* taken fd or freed a lower number in between.
CloseAgain(w) ==
  /\ pc[w] = "close again"
  /\ Close(fd[w], w)
  /\ leaks' = IF fd[w] = file[w] THEN leaks ELSE leaks + 1
  /\ Forget(w)
  /\ fd' = [fd EXCEPT ![w] = 0]
  /\ GiveMutex
  /\ Goto(w, "close")
  /\ UNCHANGED <<pending, offered, queue, task>>

-----------------------------------------------------------------------------
(* The asset that is sent, without the mutex                               *)

OpenAsset(w) ==
  /\ pc[w] = "open asset"
  /\ Open(w)
  /\ Goto(w, "close asset")
  /\ UNCHANGED <<pending, offered, queue, task, mutex, fd, hit, leaks>>

\* Whether it was sent or not
CloseAsset(w) ==
  /\ pc[w] = "close asset"
  /\ Close(file[w], w)
  /\ Forget(w)
  /\ Goto(w, "close")
  /\ UNCHANGED <<pending, offered, queue, task, mutex, fd, leaks>>

-----------------------------------------------------------------------------
Worker(w) ==
  \/ Dequeue(w) \/ SetTimeouts(w) \/ ReadRequest(w) \/ CloseConnection(w)
  \/ OpenFails(w)
  \/ CreateBid(w) \/ CloseBid(w) \/ OpenAgain(w) \/ FcloseBid(w)
  \/ CloseAgain(w)
  \/ OpenAsset(w) \/ CloseAsset(w)

Next ==
  \/ \E c \in Clients : Accept(c)
  \/ Enqueue
  \/ \E w \in Workers : Worker(w)
  \/ \E t \in Threads : OpenFile(t) \/ CloseFile(t)

Spec == Init /\ [][Next]_vars

-----------------------------------------------------------------------------
(* Properties                                                              *)

\* The tasks that the TCP thread, the queue and the workers hold
Tasks ==
  (({offered} \cup {task[w] : w \in Workers}) \ {None})
    \cup {queue[i] : i \in 1..Len(queue)}

\* The threads that have a file open
HasFile(t) ==
  pc[t] \in {"close file", "close bid", "fclose bid", "close again",
             "close asset"}

\* Until a close frees what another thread opened, and as long as descriptors stay
\* below 256, where a char starts over, every number that a thread or the queue
\* keeps still stands for what it was given for: no client is read from, answered
\* or hung up on in place of another, and no asset read from a file of the
\* database.
OwnUnlessHit ==
  ~hit =>
    /\ \A k \in Tasks : table[k.fd] = k.client
    /\ \A t \in Threads : HasFile(t) => table[file[t]] = t

\* As long as descriptors stay below 256, the first to free what another thread
\* opened is the second close of bid: a worker that hangs up, and whoever else
\* closes a file, frees its own.  (From there on a char that stands for a
\* connection may be the number of something else.)
OnlyBidHits == [][hit' # hit => \E w \in Workers : CloseAgain(w)]_vars

\* What is open is being used, but for connections with a number too large for a
\* char, and one file for each bid that closed another number than it opened.
OpenIsUsed ==
  ~hit =>
    \A n \in Fds : table[n] # None =>
      \/ \E k \in Tasks : k.fd = n
      \/ \E t \in Threads : HasFile(t) /\ file[t] = n
      \/ leaks > 0 /\ table[n] \in Workers
      \/ n > CharMax

\* What can be open at once: each worker has a connection and a file, the queue
\* is full, the TCP thread holds a connection and the UDP thread has a file
Enough == ThreadPoolSz + 2 * Cardinality(Workers) + 1

\* Numbers stay small, and no connection is taken for a failed accept, until bids
\* have left open more files than a char has room for beyond Enough.
NumbersFit ==
  ~hit =>
    \A n \in Fds : table[n] # None =>
      (IF n <= CharMax THEN n ELSE CharMax + 1) <= Enough + leaks
=============================================================================
