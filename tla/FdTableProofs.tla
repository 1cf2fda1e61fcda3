---------------------------- MODULE FdTableProofs ----------------------------
(***************************************************************************)
(* Proofs about FdTable, for any number of connections, workers and        *)
(* descriptors: until bid frees what another thread opened, every number   *)
(* stands for what its holder was given it for, and what is open is used.  *)
(*                                                                         *)
(* A close goes wrong when two holders have one number.  That they do not  *)
(* is Distinct: a connection is in one place, with the TCP thread, in the  *)
(* queue or with one worker; and a number in use is not given out.         *)
(***************************************************************************)
EXTENDS FdTable, FiniteSetTheorems, TLAPS

\* A connection is in one place, or has not been accepted.
Distinct ==
  /\ offered # None =>
       /\ offered.client \notin pending
       /\ \A w \in Workers : task[w] # None => task[w].client # offered.client
       /\ \A i \in 1..Len(queue) : queue[i].client # offered.client
  /\ \A w \in Workers : task[w] # None =>
       /\ task[w].client \notin pending
       /\ \A v \in Workers :
            v # w /\ task[v] # None => task[v].client # task[w].client
       /\ \A i \in 1..Len(queue) : queue[i].client # task[w].client
  /\ \A i \in 1..Len(queue) :
       /\ queue[i].client \notin pending
       /\ \A j \in 1..Len(queue) : j # i => queue[j].client # queue[i].client

\* A worker has a connection when it works, and bid closes its file first.
Serving ==
  \A w \in Workers :
    /\ pc[w] = "idle" <=> task[w] = None
    /\ pc[w] = "close bid" => fd[w] = file[w]

FdInv == TypeOK /\ Distinct /\ Serving /\ OwnUnlessHit /\ OpenIsUsed

-----------------------------------------------------------------------------
(* Tasks                                                                   *)

LEMMA TaskIsNotNone == None \notin Task /\ UdpThread \notin Workers
BY FdAssumption

LEMMA ZeroIsFd == 0 \in Fds
BY FdAssumption DEF Fds

LEMMA OneMore == ASSUME NEW n \in Nat PROVE n + 1 \in Nat /\ n + 1 > 0
OBVIOUS

LEMMA OfferedIsTask == ASSUME offered # None PROVE offered \in Tasks
BY DEF Tasks

LEMMA ServedIsTask ==
  ASSUME NEW w \in Workers, task[w] # None PROVE task[w] \in Tasks
BY DEF Tasks

LEMMA TasksOf ==
  ASSUME TypeOK, NEW k \in Tasks
  PROVE  /\ k \in Task
         /\ \/ k = offered
            \/ \E w \in Workers : k = task[w]
            \/ \E i \in 1..Len(queue) : k = queue[i]
BY DEF Tasks, TypeOK

LEMMA TaskFields ==
  ASSUME TypeOK, NEW k \in Tasks
  PROVE  k.fd \in Fds /\ k.client \in Clients
         /\ k.client # None /\ \A t \in Threads : k.client # t
<1>1. k.fd \in Fds /\ k.client \in Clients
  <2>1. k \in Task
    BY TasksOf
  <2> QED BY <2>1 DEF Task
<1> QED BY <1>1, FdAssumption

LEMMA SameTasks ==
  ASSUME UNCHANGED <<offered, queue, task>> PROVE Tasks' = Tasks
BY DEF Tasks

-----------------------------------------------------------------------------
(* Files                                                                   *)

\* Thread t, which has no file open, opens one.
LEMMA OpenKeeps ==
  ASSUME FdInv, NEW t \in Threads, NEW f \in Steps, ~HasFile(t), Open(t),
         Goto(t, f), f \in {"close file", "close bid", "fclose bid",
                            "close again", "close asset"},
         t \in Workers => pc[t] # "idle",
         UNCHANGED <<pending, offered, queue, task, hit, leaks>>,
         mutex' \in Threads \cup {None}, fd' \in [Workers -> Fds],
         t \in Workers /\ f = "close bid" => fd'[t] = file'[t],
         \A w \in Workers : w # t => fd'[w] = fd[w]
  PROVE  FdInv'
<1>1. PICK n \in Fds : /\ IsLowest(n)
                       /\ table' = [table EXCEPT ![n] = t]
                       /\ file' = [file EXCEPT ![t] = n]
  BY DEF Open
<1>2. table[n] = None /\ t # None /\ Tasks' = Tasks
  BY <1>1, SameTasks, FdAssumption DEF IsLowest, Free
<1>3. TypeOK'
  BY <1>1 DEF FdInv, TypeOK, Goto
<1>4. Distinct'
  BY DEF FdInv, Distinct
<1>5. Serving'
  BY <1>1 DEF FdInv, Serving, TypeOK, Threads, Goto
<1>6. /\ table'[n] = t /\ file'[t] = n /\ HasFile(t)'
      /\ \A m \in Fds : m # n => table'[m] = table[m]
      /\ \A s \in Threads : s # t =>
           file'[s] = file[s] /\ (HasFile(s)' <=> HasFile(s))
  BY <1>1 DEF FdInv, TypeOK, Goto, HasFile
<1>7. OwnUnlessHit'
  <2> SUFFICES ASSUME ~hit
               PROVE  /\ \A k \in Tasks : table'[k.fd] = k.client
                      /\ \A s \in Threads : HasFile(s)' => table'[file'[s]] = s
    BY <1>2 DEF OwnUnlessHit
  <2>1. /\ \A k \in Tasks : table[k.fd] = k.client
        /\ \A s \in Threads : HasFile(s) => table[file[s]] = s
    BY DEF FdInv, OwnUnlessHit
  <2>2. ASSUME NEW k \in Tasks PROVE table'[k.fd] = k.client
    <3>1. k \in Task
      BY TasksOf DEF FdInv
    <3>2. k.client # None
      BY TaskFields DEF FdInv
    <3> QED BY <1>2, <1>6, <2>1, <3>1, <3>2 DEF Task
  <2>3. ASSUME NEW s \in Threads, HasFile(s)' PROVE table'[file'[s]] = s
    <3>1. CASE s = t
      BY <1>6, <3>1
    <3>2. CASE s # t
      <4>1. file[s] \in Fds /\ table[file[s]] = s /\ s # None
        BY <1>6, <2>1, <2>3, <3>2, FdAssumption DEF FdInv, TypeOK
      <4> QED BY <1>2, <1>6, <3>2, <4>1
    <3> QED BY <3>1, <3>2
  <2> QED BY <2>2, <2>3
<1>8. OpenIsUsed'
  <2> SUFFICES ASSUME ~hit, NEW m \in Fds, table'[m] # None
               PROVE  \/ \E k \in Tasks : k.fd = m
                      \/ \E s \in Threads : HasFile(s)' /\ file'[s] = m
                      \/ leaks > 0 /\ table'[m] \in Workers
                      \/ m > CharMax
    BY <1>2 DEF OpenIsUsed
  <2>1. CASE m = n
    BY <1>6, <2>1
  <2>2. CASE m # n
    <3>1. \/ \E k \in Tasks : k.fd = m
          \/ \E s \in Threads : HasFile(s) /\ file[s] = m
          \/ leaks > 0 /\ table[m] \in Workers
          \/ m > CharMax
      BY <1>6, <2>2 DEF FdInv, OpenIsUsed
    <3> QED BY <1>6, <2>2, <3>1
  <2> QED BY <2>1, <2>2
<1> QED BY <1>3, <1>4, <1>5, <1>7, <1>8 DEF FdInv

\* Thread t closes the number n for its file, and has no file open any more.
LEMMA CloseKeeps ==
  ASSUME FdInv, NEW t \in Threads, NEW f \in Steps, HasFile(t), NEW n \in Fds,
         Close(n, t), Goto(t, f), Forget(t),
         f \notin {"close file", "close bid", "fclose bid", "close again",
                   "close asset"},
         t \in Workers => pc[t] # "idle" /\ f # "idle",
         UNCHANGED <<pending, offered, queue, task>>,
         mutex' \in Threads \cup {None}, fd' \in [Workers -> Fds],
         \A w \in Workers : w # t => fd'[w] = fd[w],
         leaks' \in Nat, leaks > 0 => leaks' > 0,
         n = file[t] \/ (t \in Workers /\ leaks' > 0)
  PROVE  FdInv'
<1>1. /\ table' = [table EXCEPT ![n] = None]
      /\ hit' = (hit \/ table[n] \notin {t, None})
      /\ Tasks' = Tasks
  BY SameTasks DEF Close
<1>2. TypeOK'
  <2>1. hit' \in BOOLEAN
    BY <1>1
  <2> QED BY <1>1, <2>1, ZeroIsFd DEF FdInv, TypeOK, Goto, Forget
<1>3. Distinct'
  BY DEF FdInv, Distinct
<1>4. Serving'
  BY DEF FdInv, Serving, TypeOK, Threads, Goto, Forget
<1>5. /\ table'[n] = None /\ ~HasFile(t)'
      /\ \A m \in Fds : m # n => table'[m] = table[m]
      /\ \A s \in Threads : s # t =>
           file'[s] = file[s] /\ (HasFile(s)' <=> HasFile(s))
  BY <1>1 DEF FdInv, TypeOK, Goto, Forget, HasFile
<1>6. OwnUnlessHit'
  <2> SUFFICES ASSUME ~hit'
               PROVE  /\ \A k \in Tasks : table'[k.fd] = k.client
                      /\ \A s \in Threads : HasFile(s)' => table'[file'[s]] = s
    BY <1>1 DEF OwnUnlessHit
  <2>1. /\ table[n] \in {t, None}
        /\ \A k \in Tasks : table[k.fd] = k.client
        /\ \A s \in Threads : HasFile(s) => table[file[s]] = s
    BY <1>1 DEF FdInv, OwnUnlessHit
  <2>2. ASSUME NEW k \in Tasks PROVE table'[k.fd] = k.client
    <3>1. k.fd \in Fds /\ k.client \notin {t, None}
      BY TaskFields DEF FdInv
    <3> QED BY <1>5, <2>1, <3>1
  <2>3. ASSUME NEW s \in Threads, HasFile(s)' PROVE table'[file'[s]] = s
    <3>1. s # t /\ file[s] \in Fds /\ table[file[s]] = s /\ s # None
      BY <1>5, <2>1, <2>3, FdAssumption DEF FdInv, TypeOK
    <3> QED BY <1>5, <2>1, <3>1
  <2> QED BY <2>2, <2>3
<1>7. OpenIsUsed'
  <2> SUFFICES ASSUME ~hit', NEW m \in Fds, table'[m] # None
               PROVE  \/ \E k \in Tasks : k.fd = m
                      \/ \E s \in Threads : HasFile(s)' /\ file'[s] = m
                      \/ leaks' > 0 /\ table'[m] \in Workers
                      \/ m > CharMax
    BY <1>1 DEF OpenIsUsed
  <2>1. m # n /\ ~hit /\ table'[m] = table[m]
    BY <1>1, <1>5
  <2>2. \/ \E k \in Tasks : k.fd = m
        \/ \E s \in Threads : HasFile(s) /\ file[s] = m
        \/ leaks > 0 /\ table[m] \in Workers
        \/ m > CharMax
    BY <2>1 DEF FdInv, OpenIsUsed
  <2>3. CASE leaks > 0 /\ table[m] \in Workers
    BY <2>1, <2>3
  <2>4. ASSUME NEW s \in Threads, HasFile(s), file[s] = m
        PROVE  \/ HasFile(s)' /\ file'[s] = m
               \/ leaks' > 0 /\ table'[m] \in Workers
    <3>1. CASE s # t
      BY <1>5, <2>4, <3>1
    <3>2. CASE s = t
      <4>1. t \in Workers /\ leaks' > 0
        BY <2>1, <2>4, <3>2
      <4>2. table[m] = t
        BY <2>1, <2>4, <3>2 DEF FdInv, OwnUnlessHit
      <4> QED BY <2>1, <4>1, <4>2
    <3> QED BY <3>1, <3>2
  <2> QED BY <2>2, <2>3, <2>4
<1> QED BY <1>2, <1>3, <1>4, <1>6, <1>7 DEF FdInv

LEMMA OpenFileKeeps ==
  ASSUME FdInv, NEW t \in Threads, OpenFile(t) PROVE FdInv'
<1>1. ~HasFile(t) /\ (t \in Workers => pc[t] # "idle")
  BY TaskIsNotNone DEF OpenFile, HasFile
<1>2. mutex' \in Threads \cup {None} /\ fd' \in [Workers -> Fds]
  BY DEF OpenFile, TakeMutex, FdInv, TypeOK
<1> QED BY <1>1, <1>2, OpenKeeps DEF OpenFile, Steps

LEMMA CloseFileKeeps ==
  ASSUME FdInv, NEW t \in Threads, CloseFile(t) PROVE FdInv'
<1>1. PICK f \in IF t = UdpThread THEN {"idle"}
                 ELSE {"create bid", "open asset", "close"} : Goto(t, f)
  BY DEF CloseFile
<1>2. HasFile(t) /\ pc[t] # "idle" /\ (t \in Workers => f # "idle")
  BY <1>1, TaskIsNotNone DEF CloseFile, HasFile
<1>3. /\ mutex' \in Threads \cup {None} /\ fd' \in [Workers -> Fds]
      /\ file[t] \in Fds /\ leaks \in Nat
  BY DEF CloseFile, GiveMutex, FdInv, TypeOK
<1>4. f \in {"idle", "create bid", "open asset", "close"}
  BY <1>1
<1> QED BY <1>1, <1>2, <1>3, <1>4, CloseKeeps DEF CloseFile, Steps

LEMMA CreateBidKeeps ==
  ASSUME FdInv, NEW w \in Workers, CreateBid(w) PROVE FdInv'
<1>1. w \in Threads /\ ~HasFile(w) /\ pc[w] # "idle"
  BY DEF CreateBid, HasFile, Threads
<1>2. file' \in [Threads -> Fds]
  BY <1>1 DEF CreateBid, Open, FdInv, TypeOK
<1>3. /\ mutex' \in Threads \cup {None} /\ fd' \in [Workers -> Fds]
      /\ fd'[w] = file'[w]
      /\ \A v \in Workers : v # w => fd'[v] = fd[v]
  BY <1>1, <1>2 DEF CreateBid, TakeMutex, FdInv, TypeOK
<1> QED BY <1>1, <1>3, OpenKeeps DEF CreateBid, Steps

LEMMA CloseBidKeeps ==
  ASSUME FdInv, NEW w \in Workers, CloseBid(w) PROVE FdInv'
<1>1. w \in Threads /\ HasFile(w) /\ pc[w] # "idle"
  BY DEF CloseBid, HasFile, Threads
<1>2. /\ mutex' \in Threads \cup {None} /\ fd' \in [Workers -> Fds]
      /\ fd[w] \in Fds /\ fd[w] = file[w] /\ leaks \in Nat
  BY DEF CloseBid, FdInv, TypeOK, Serving
<1> QED BY <1>1, <1>2, CloseKeeps DEF CloseBid, Steps

LEMMA OpenAgainKeeps ==
  ASSUME FdInv, NEW w \in Workers, OpenAgain(w) PROVE FdInv'
<1>1. PICK f \in {"fclose bid", "close again"} : Goto(w, f)
  BY DEF OpenAgain
<1>2. w \in Threads /\ ~HasFile(w) /\ pc[w] # "idle"
  BY DEF OpenAgain, HasFile, Threads
<1>3. mutex' \in Threads \cup {None} /\ fd' \in [Workers -> Fds]
  BY DEF OpenAgain, FdInv, TypeOK
<1> QED BY <1>1, <1>2, <1>3, OpenKeeps DEF OpenAgain, Steps

LEMMA FcloseBidKeeps ==
  ASSUME FdInv, NEW w \in Workers, FcloseBid(w) PROVE FdInv'
<1>1. w \in Threads /\ HasFile(w) /\ pc[w] # "idle"
  BY DEF FcloseBid, HasFile, Threads
<1>2. PICK f \in {"open bidded", "close"} : Goto(w, f)
  BY DEF FcloseBid
<1>3. /\ mutex' \in Threads \cup {None} /\ fd' \in [Workers -> Fds]
      /\ \A v \in Workers : v # w => fd'[v] = fd[v]
      /\ file[w] \in Fds /\ leaks \in Nat
  BY <1>1, ZeroIsFd DEF FcloseBid, GiveMutex, FdInv, TypeOK
<1> QED BY <1>1, <1>2, <1>3, CloseKeeps DEF FcloseBid, Steps

\* Either the number is that of user_bidded, or that file is left open.
LEMMA CloseAgainKeeps ==
  ASSUME FdInv, NEW w \in Workers, CloseAgain(w) PROVE FdInv'
<1>1. w \in Threads /\ HasFile(w) /\ pc[w] # "idle"
  BY DEF CloseAgain, HasFile, Threads
<1>3. /\ mutex' \in Threads \cup {None} /\ fd' \in [Workers -> Fds]
      /\ fd[w] \in Fds
      /\ \A v \in Workers : v # w => fd'[v] = fd[v]
  BY ZeroIsFd DEF CloseAgain, GiveMutex, FdInv, TypeOK
<1>4. leaks \in Nat
  BY DEF FdInv, TypeOK
<1>5. /\ leaks' \in Nat /\ (leaks > 0 => leaks' > 0)
      /\ fd[w] = file[w] \/ leaks' > 0
  <2>1. CASE fd[w] = file[w]
    BY <1>4, <2>1 DEF CloseAgain
  <2>2. CASE fd[w] # file[w]
    BY <1>4, <2>2, OneMore DEF CloseAgain
  <2> QED BY <2>1, <2>2
<1> QED BY <1>1, <1>3, <1>5, CloseKeeps DEF CloseAgain, Steps

LEMMA OpenAssetKeeps ==
  ASSUME FdInv, NEW w \in Workers, OpenAsset(w) PROVE FdInv'
<1>1. w \in Threads /\ ~HasFile(w) /\ pc[w] # "idle"
  BY DEF OpenAsset, HasFile, Threads
<1>2. mutex' \in Threads \cup {None} /\ fd' \in [Workers -> Fds]
  BY DEF OpenAsset, FdInv, TypeOK
<1> QED BY <1>1, <1>2, OpenKeeps DEF OpenAsset, Steps

LEMMA CloseAssetKeeps ==
  ASSUME FdInv, NEW w \in Workers, CloseAsset(w) PROVE FdInv'
<1>1. w \in Threads /\ HasFile(w) /\ pc[w] # "idle"
  BY DEF CloseAsset, HasFile, Threads
<1>2. /\ mutex' \in Threads \cup {None} /\ fd' \in [Workers -> Fds]
      /\ file[w] \in Fds /\ leaks \in Nat
  BY <1>1 DEF CloseAsset, FdInv, TypeOK
<1> QED BY <1>1, <1>2, CloseKeeps DEF CloseAsset, Steps

\* A step of w that leaves the table alone and has to do with no file.
LEMMA MoveKeeps ==
  ASSUME FdInv, NEW w \in Workers, NEW f \in Steps, ~HasFile(w), Goto(w, f),
         pc[w] # "idle", f # "idle",
         f \notin {"close file", "close bid", "fclose bid", "close again",
                   "close asset"},
         UNCHANGED <<table, pending, offered, queue, task, file, hit, leaks>>,
         mutex' \in Threads \cup {None}, fd' \in [Workers -> Fds],
         \A v \in Workers : v # w => fd'[v] = fd[v]
  PROVE  FdInv'
<1>1. Tasks' = Tasks /\ w \in Threads
  BY SameTasks DEF Threads
<1>2. TypeOK'
  <2>1. pc' \in [Threads -> Steps]
    BY <1>1 DEF FdInv, TypeOK, Goto
  <2> QED BY <2>1 DEF FdInv, TypeOK
<1>3. Distinct' /\ Serving'
  <2>1. Distinct'
    BY DEF FdInv, Distinct
  <2>2. \A v \in Workers : v \in Threads /\ (v # w => pc'[v] = pc[v])
    BY <1>1 DEF FdInv, TypeOK, Goto, Threads
  <2>3. pc'[w] = f
    BY <1>1 DEF FdInv, TypeOK, Goto
  <2>4. Serving
    BY DEF FdInv
  <2>5. Serving'
    BY <2>2, <2>3, <2>4 DEF Serving
  <2> QED BY <2>1, <2>5
<1>4. \A s \in Threads : HasFile(s)' <=> HasFile(s)
  BY <1>1 DEF FdInv, TypeOK, Goto, HasFile
<1>5. OwnUnlessHit' /\ OpenIsUsed'
  BY <1>1, <1>4 DEF FdInv, OwnUnlessHit, OpenIsUsed
<1> QED BY <1>2, <1>3, <1>5 DEF FdInv

LEMMA OpenFailsKeeps ==
  ASSUME FdInv, NEW w \in Workers, OpenFails(w) PROVE FdInv'
<1>1. ~HasFile(w) /\ pc[w] # "idle"
  BY DEF OpenFails, HasFile
<1>2. mutex' \in Threads \cup {None}
  BY DEF OpenFails, GiveMutex, FdInv, TypeOK
<1>4. fd' \in [Workers -> Fds] /\ \A v \in Workers : v # w => fd'[v] = fd[v]
  BY ZeroIsFd DEF OpenFails, FdInv, TypeOK
<1> QED BY <1>1, <1>2, <1>4, MoveKeeps DEF OpenFails, Steps

-----------------------------------------------------------------------------
(* Connections                                                             *)

\* What a step needs that changes no file: who holds which connection may
\* change, and what was open and used still is.
LEMMA HoldersKeep ==
  ASSUME FdInv, UNCHANGED <<file, hit, leaks>>, Tasks' \subseteq Tasks,
         \A t \in Threads : HasFile(t)' <=> HasFile(t),
         TypeOK', Distinct', Serving',
         \A m \in Fds : table'[m] # table[m] =>
           /\ table'[m] = None
           /\ table[m] \notin Threads
           /\ \A k \in Tasks' : k.fd # m,
         \A k \in Tasks : k \in Tasks' \/ table'[k.fd] = None \/ hit
  PROVE  FdInv'
<1>1. OwnUnlessHit'
  <2> SUFFICES ASSUME ~hit
               PROVE  /\ \A k \in Tasks' : table'[k.fd] = k.client
                      /\ \A t \in Threads : HasFile(t) => table'[file[t]] = t
    BY DEF OwnUnlessHit
  <2>1. /\ \A k \in Tasks : table[k.fd] = k.client
        /\ \A t \in Threads : HasFile(t) => table[file[t]] = t
    BY DEF FdInv, OwnUnlessHit
  <2>2. ASSUME NEW k \in Tasks' PROVE table'[k.fd] = k.client
    <3>1. k \in Tasks /\ k.fd \in Fds
      BY TasksOf DEF FdInv, Task
    <3> QED BY <2>1, <3>1
  <2>3. ASSUME NEW t \in Threads, HasFile(t) PROVE table'[file[t]] = t
    <3>1. file[t] \in Fds /\ table[file[t]] = t
      BY <2>1, <2>3 DEF FdInv, TypeOK
    <3> QED BY <3>1
  <2> QED BY <2>2, <2>3
<1>2. OpenIsUsed'
  <2> SUFFICES ASSUME ~hit, NEW m \in Fds, table'[m] # None
               PROVE  \/ \E k \in Tasks' : k.fd = m
                      \/ \E t \in Threads : HasFile(t) /\ file[t] = m
                      \/ leaks > 0 /\ table'[m] \in Workers
                      \/ m > CharMax
    BY DEF OpenIsUsed
  <2>1. table'[m] = table[m]
    OBVIOUS
  <2>2. \/ \E k \in Tasks : k.fd = m
        \/ \E t \in Threads : HasFile(t) /\ file[t] = m
        \/ leaks > 0 /\ table[m] \in Workers
        \/ m > CharMax
    BY <2>1 DEF FdInv, OpenIsUsed
  <2>3. ASSUME NEW k \in Tasks, k.fd = m PROVE k \in Tasks'
    BY <2>3
  <2> QED BY <2>1, <2>2, <2>3
<1> QED BY <1>1, <1>2 DEF FdInv

LEMMA AppendIs ==
  ASSUME NEW S, NEW s \in Seq(S), NEW e \in S
  PROVE  /\ Append(s, e) \in Seq(S)
         /\ Len(Append(s, e)) = Len(s) + 1
         /\ \A i \in 1..Len(s) : i \in 1..(Len(s) + 1) /\ Append(s, e)[i] = s[i]
         /\ Append(s, e)[Len(s) + 1] = e
         /\ Len(s) + 1 \in 1..(Len(s) + 1)
         /\ \A i \in 1..(Len(s) + 1) : i \in 1..Len(s) \/ i = Len(s) + 1
OBVIOUS

LEMMA TailIs ==
  ASSUME NEW S, NEW s \in Seq(S), s # <<>>
  PROVE  /\ Tail(s) \in Seq(S) /\ Len(Tail(s)) <= Len(s)
         /\ 1 \in 1..Len(s) /\ Head(s) = s[1] /\ Head(s) \in S
         /\ \A i \in 1..Len(Tail(s)) :
              i + 1 \in 1..Len(s) /\ i + 1 # 1 /\ Tail(s)[i] = s[i + 1]
         /\ \A i \in 1..Len(s) : i = 1 \/ \E j \in 1..Len(Tail(s)) : i = j + 1
         /\ \A i, j \in 1..Len(Tail(s)) : i + 1 = j + 1 => i = j
<1>1. \A i \in 1..Len(s) : i = 1 \/ \E j \in 1..Len(Tail(s)) : i = j + 1
  <2> SUFFICES ASSUME NEW i \in 1..Len(s), i # 1
               PROVE  \E j \in 1..Len(Tail(s)) : i = j + 1
    OBVIOUS
  <2>1. i - 1 \in 1..Len(Tail(s)) /\ i = (i - 1) + 1
    OBVIOUS
  <2> QED BY <2>1
<1> QED BY <1>1

LEMMA EnqueueKeeps == ASSUME FdInv, Enqueue PROVE FdInv'
<1>1. /\ offered \in Task /\ queue \in Seq(Task)
      /\ queue' = Append(queue, offered) /\ offered' = None
  BY DEF Enqueue, FdInv, TypeOK
<1> DEFINE n == Len(queue)
<1>2. /\ queue' \in Seq(Task) /\ Len(queue') = n + 1
      /\ \A i \in 1..n : i \in 1..(n + 1) /\ queue'[i] = queue[i]
      /\ queue'[n + 1] = offered /\ n + 1 \in 1..(n + 1)
      /\ \A i \in 1..(n + 1) : i \in 1..n \/ i = n + 1
  BY <1>1, AppendIs
<1>3. Tasks' = Tasks
  <2>1. {queue'[i] : i \in 1..Len(queue')}
           = {queue[i] : i \in 1..n} \cup {offered}
    <3> HIDE DEF n
    <3> QED BY <1>2
  <2> QED BY <1>1, <2>1, FdAssumption DEF Tasks, Enqueue
<1>4. Len(queue') <= ThreadPoolSz
  <2>1. Len(queue) < ThreadPoolSz /\ Len(queue) \in Nat /\ ThreadPoolSz \in Nat
    BY <1>1, FdAssumption DEF Enqueue
  <2> QED BY <1>2, <2>1
<1>5. TypeOK'
  BY <1>1, <1>2, <1>4 DEF FdInv, TypeOK, Enqueue
<1>6. Distinct'
  <2> HIDE DEF n
  <2>1. ASSUME NEW i \in 1..(n + 1)
        PROVE  /\ queue'[i].client \notin pending
               /\ \A w \in Workers : task[w] # None =>
                    task[w].client # queue'[i].client
               /\ \A j \in 1..(n + 1) :
                    j # i => queue'[j].client # queue'[i].client
    <3>1. CASE i = n + 1
      BY <1>2, <3>1 DEF FdInv, Distinct, Enqueue, n
    <3>2. CASE i \in 1..n
      BY <1>2, <3>2 DEF FdInv, Distinct, Enqueue, n
    <3> QED BY <1>2, <3>1, <3>2
  <2> QED BY <1>1, <1>2, <2>1 DEF FdInv, Distinct, Enqueue
<1>7. Serving' /\ \A t \in Threads : HasFile(t)' <=> HasFile(t)
  BY DEF FdInv, Serving, HasFile, Enqueue
<1> QED BY <1>3, <1>5, <1>6, <1>7, HoldersKeep DEF Enqueue

LEMMA DequeueKeeps ==
  ASSUME FdInv, NEW w \in Workers, Dequeue(w) PROVE FdInv'
<1>1. /\ queue \in Seq(Task) /\ queue # <<>> /\ queue' = Tail(queue)
      /\ task[w] = None /\ task' = [task EXCEPT ![w] = Head(queue)]
      /\ w \in Threads
  BY DEF Dequeue, FdInv, TypeOK, Serving, Threads
<1>2. /\ queue' \in Seq(Task) /\ Len(queue') <= Len(queue)
      /\ 1 \in 1..Len(queue) /\ Head(queue) = queue[1] /\ Head(queue) \in Task
      /\ \A i \in 1..Len(queue') : /\ i + 1 \in 1..Len(queue) /\ i + 1 # 1
                                   /\ queue'[i] = queue[i + 1]
      /\ \A i \in 1..Len(queue) : i = 1 \/ \E j \in 1..Len(queue') : i = j + 1
      /\ \A i, j \in 1..Len(queue') : i + 1 = j + 1 => i = j
  BY <1>1, TailIs
<1>3. task'[w] = queue[1] /\ \A v \in Workers : v # w => task'[v] = task[v]
  BY <1>1, <1>2 DEF FdInv, TypeOK
<1>4. Tasks' = Tasks
  <2>1. {queue[i] : i \in 1..Len(queue)}
           = {queue'[i] : i \in 1..Len(queue')} \cup {queue[1]}
    <3>1. ASSUME NEW i \in 1..Len(queue), i # 1
          PROVE  queue[i] \in {queue'[j] : j \in 1..Len(queue')}
      <4>1. PICK j \in 1..Len(queue') : i = j + 1
        BY <1>2, <3>1
      <4>2. queue'[j] = queue[i]
        BY <1>2, <4>1
      <4> QED BY <4>2
    <3>2. ASSUME NEW j \in 1..Len(queue')
          PROVE  queue'[j] \in {queue[i] : i \in 1..Len(queue)}
      BY <1>2
    <3>3. queue[1] \in {queue[i] : i \in 1..Len(queue)}
      BY <1>2
    <3> DEFINE Old == {queue[i] : i \in 1..Len(queue)}
               New == {queue'[i] : i \in 1..Len(queue')}
    <3>4. \A x \in Old : x \in New \/ x = queue[1]
      BY <3>1
    <3>5. \A x \in New : x \in Old
      BY <3>2
    <3> HIDE DEF Old, New
    <3>6. queue[1] \in Old
      BY <3>3 DEF Old
    <3>7. Old = New \cup {queue[1]}
      BY <3>4, <3>5, <3>6
    <3> QED BY <3>7 DEF Old, New
  <2>2. {task'[v] : v \in Workers} \ {None}
           = ({task[v] : v \in Workers} \ {None}) \cup {queue[1]}
    <3>1. queue[1] # None
      BY <1>2, TaskIsNotNone
    <3>2. ASSUME NEW k, k # None
          PROVE  (\E v \in Workers : task'[v] = k)
                   <=> k = queue[1] \/ \E v \in Workers : task[v] = k
      <4>1. ASSUME NEW v \in Workers, task'[v] = k
            PROVE  k = queue[1] \/ task[v] = k
        BY <1>3, <4>1
      <4>2. ASSUME NEW v \in Workers, task[v] = k PROVE task'[v] = k
        BY <1>1, <1>3, <3>2, <4>2
      <4> QED BY <1>3, <4>1, <4>2
    <3> QED BY <3>1, <3>2
  <2> QED BY <2>1, <2>2 DEF Tasks, Dequeue
<1>5. TypeOK'
  <2>1. Len(queue') <= ThreadPoolSz
    <3>1. /\ Len(queue) \in Nat /\ Len(queue') \in Nat /\ ThreadPoolSz \in Nat
          /\ Len(queue) <= ThreadPoolSz
      BY <1>1, <1>2, FdAssumption DEF FdInv, TypeOK
    <3> QED BY <1>2, <3>1
  <2>2. queue' \in Seq(Task) /\ task' \in [Workers -> Task \cup {None}]
    BY <1>1, <1>2, <1>3 DEF FdInv, TypeOK, Dequeue
  <2>3. pc' \in [Threads -> Steps]
    BY DEF FdInv, TypeOK, Dequeue, Goto, Steps
  <2> QED BY <2>1, <2>2, <2>3 DEF FdInv, TypeOK, Dequeue
<1>6. Distinct'
  <2>1. ASSUME NEW i \in 1..Len(queue')
        PROVE  /\ queue'[i].client \notin pending
               /\ offered # None => queue'[i].client # offered.client
               /\ \A v \in Workers : task'[v] # None =>
                    queue'[i].client # task'[v].client
               /\ \A j \in 1..Len(queue') :
                    j # i => queue'[j].client # queue'[i].client
    <3>1. PICK a \in 1..Len(queue) : a = i + 1 /\ a # 1 /\ queue'[i] = queue[a]
      BY <1>2
    <3>2. /\ queue[a].client \notin pending
          /\ offered # None => queue[a].client # offered.client
          /\ queue[1].client # queue[a].client
      BY <1>2, <3>1 DEF FdInv, Distinct
    <3>3. ASSUME NEW v \in Workers, task'[v] # None
          PROVE  queue'[i].client # task'[v].client
      <4>1. CASE v = w
        BY <1>3, <3>1, <3>2, <4>1
      <4>2. CASE v # w
        <5>1. task'[v] = task[v]
          BY <1>3, <4>2
        <5> QED BY <3>1, <3>3, <5>1 DEF FdInv, Distinct
      <4> QED BY <4>1, <4>2
    <3>4. ASSUME NEW j \in 1..Len(queue'), j # i
          PROVE  queue'[j].client # queue'[i].client
      <4>1. PICK b \in 1..Len(queue) : b = j + 1 /\ queue'[j] = queue[b]
        BY <1>2
      <4>2. b # a
        BY <1>2, <3>1, <3>4, <4>1
      <4> QED BY <3>1, <4>1, <4>2 DEF FdInv, Distinct
    <3> QED BY <3>1, <3>2, <3>3, <3>4
  <2>2. ASSUME NEW v \in Workers, task'[v] # None
        PROVE  /\ task'[v].client \notin pending
               /\ offered # None => task'[v].client # offered.client
               /\ \A u \in Workers :
                    u # v /\ task'[u] # None => task'[u].client # task'[v].client
    <3>1. CASE v = w
      <4>1. ASSUME NEW u \in Workers, u # w, task'[u] # None
            PROVE  task'[u].client # queue[1].client
        <5>1. task'[u] = task[u]
          BY <1>3, <4>1
        <5> QED BY <1>2, <4>1, <5>1 DEF FdInv, Distinct
      <4>2. /\ queue[1].client \notin pending
            /\ offered # None => queue[1].client # offered.client
        BY <1>2 DEF FdInv, Distinct
      <4> QED BY <1>3, <3>1, <4>1, <4>2
    <3>2. CASE v # w
      <4>1. task'[v] = task[v]
        BY <1>3, <3>2
      <4>2. /\ task[v].client \notin pending
            /\ offered # None => task[v].client # offered.client
            /\ queue[1].client # task[v].client
        BY <1>2, <2>2, <4>1 DEF FdInv, Distinct
      <4>3. ASSUME NEW u \in Workers, u # v, task'[u] # None
            PROVE  task'[u].client # task[v].client
        <5>1. CASE u = w
          BY <1>3, <4>2, <5>1
        <5>2. CASE u # w
          <6>1. task'[u] = task[u]
            BY <1>3, <5>2
          <6> QED BY <2>2, <4>1, <4>3, <6>1 DEF FdInv, Distinct
        <5> QED BY <5>1, <5>2
      <4> QED BY <4>1, <4>2, <4>3
    <3> QED BY <3>1, <3>2
  <2> QED BY <2>1, <2>2 DEF FdInv, Distinct, Dequeue
<1>7. Serving'
  <2>1. Serving /\ pc \in [Threads -> Steps] /\ fd' = fd /\ file' = file
    BY DEF FdInv, TypeOK, Dequeue
  <2>2. \A v \in Workers : v \in Threads /\ (v # w => pc'[v] = pc[v])
    BY <2>1 DEF Dequeue, Goto, Threads
  <2>3. w \in Threads /\ pc'[w] = "setsockopt"
    BY <2>1 DEF Dequeue, Goto, Threads
  <2>4. task'[w] # None
    BY <1>1, <1>2, <1>3, TaskIsNotNone
  <2>5. \A v \in Workers : v # w => task'[v] = task[v]
    BY <1>3
  <2> QED BY <2>1, <2>2, <2>3, <2>4, <2>5 DEF Serving
<1>8. \A t \in Threads : HasFile(t)' <=> HasFile(t)
  BY <1>1 DEF FdInv, TypeOK, HasFile, Dequeue, Goto
<1> QED BY <1>4, <1>5, <1>6, <1>7, <1>8, HoldersKeep DEF Dequeue

LEMMA AcceptKeeps ==
  ASSUME FdInv, NEW c \in Clients, Accept(c) PROVE FdInv'
<1>1. PICK n \in Fds :
        /\ IsLowest(n)
        /\ table' = [table EXCEPT ![n] = c]
        /\ offered' = IF n <= CharMax THEN [fd |-> n, client |-> c] ELSE None
  BY DEF Accept
<1> DEFINE k == [fd |-> n, client |-> c]
<1>2. /\ k \in Task /\ k # None /\ k.fd = n /\ k.client = c
      /\ table[n] = None /\ c # None /\ c \in pending /\ offered = None
      /\ offered' \in {k, None}
      /\ n <= CharMax => offered' = k
  BY <1>1, FdAssumption DEF Task, IsLowest, Free, Accept
<1> HIDE DEF k
<1>3. Tasks' = Tasks \cup ({offered'} \ {None})
  BY <1>2 DEF Tasks, Accept
<1>4. TypeOK'
  BY <1>1, <1>2 DEF FdInv, TypeOK, Accept
<1>5. Distinct'
  BY <1>2 DEF FdInv, Distinct, Accept
<1>6. Serving' /\ \A t \in Threads : HasFile(t)' <=> HasFile(t)
  BY DEF FdInv, Serving, HasFile, Accept
<1>7. table'[n] = c /\ \A m \in Fds : m # n => table'[m] = table[m]
  BY <1>1 DEF FdInv, TypeOK
<1>8. OwnUnlessHit'
  <2> SUFFICES ASSUME ~hit
               PROVE  /\ \A j \in Tasks' : table'[j.fd] = j.client
                      /\ \A t \in Threads : HasFile(t) => table'[file[t]] = t
    BY <1>6 DEF OwnUnlessHit, Accept
  <2>1. /\ \A j \in Tasks : table[j.fd] = j.client
        /\ \A t \in Threads : HasFile(t) => table[file[t]] = t
    BY DEF FdInv, OwnUnlessHit
  <2>2. ASSUME NEW j \in Tasks PROVE table'[j.fd] = j.client
    <3>1. j.fd \in Fds /\ j.client # None
      BY TaskFields DEF FdInv
    <3> QED BY <1>2, <1>7, <2>1, <3>1
  <2>3. ASSUME NEW t \in Threads, HasFile(t) PROVE table'[file[t]] = t
    <3>1. file[t] \in Fds /\ table[file[t]] = t /\ t # None
      BY <2>1, <2>3, FdAssumption DEF FdInv, TypeOK
    <3> QED BY <1>2, <1>7, <3>1
  <2> QED BY <1>2, <1>3, <1>7, <2>2, <2>3
<1>9. OpenIsUsed'
  <2> SUFFICES ASSUME ~hit, NEW m \in Fds, table'[m] # None
               PROVE  \/ \E j \in Tasks' : j.fd = m
                      \/ \E t \in Threads : HasFile(t) /\ file[t] = m
                      \/ leaks > 0 /\ table'[m] \in Workers
                      \/ m > CharMax
    BY <1>6 DEF OpenIsUsed, Accept
  <2>1. CASE m # n
    <3>1. \/ \E j \in Tasks : j.fd = m
          \/ \E t \in Threads : HasFile(t) /\ file[t] = m
          \/ leaks > 0 /\ table[m] \in Workers
          \/ m > CharMax
      BY <1>7, <2>1 DEF FdInv, OpenIsUsed
    <3> QED BY <1>3, <1>7, <2>1, <3>1
  <2>2. CASE m = n
    <3>1. n <= CharMax \/ n > CharMax
      BY FdAssumption DEF Fds
    <3> QED BY <1>2, <1>3, <2>2, <3>1
  <2> QED BY <2>1, <2>2
<1> QED BY <1>4, <1>5, <1>6, <1>8, <1>9 DEF FdInv

\* w is done with its connection.
LEMMA WithoutTask ==
  ASSUME FdInv, NEW w \in Workers, task[w] # None,
         task' = [task EXCEPT ![w] = None], UNCHANGED <<offered, queue, pending>>
  PROVE  /\ task[w] \in Task
         /\ Tasks' \subseteq Tasks
         /\ \A k \in Tasks : k \in Tasks' \/ k = task[w]
         /\ \A k \in Tasks' : k.client # task[w].client
         /\ Distinct'
<1>1. /\ task'[w] = None /\ \A v \in Workers : v # w => task'[v] = task[v]
      /\ task[w] \in Task
  BY DEF FdInv, TypeOK
<1>2. ASSUME NEW k \in Tasks'
      PROVE  k \in Tasks /\ k.client # task[w].client
  <2>1. CASE k = offered /\ k # None
    BY <2>1 DEF Tasks, FdInv, Distinct
  <2>2. ASSUME NEW v \in Workers, k = task'[v], k # None
        PROVE  k \in Tasks /\ k.client # task[w].client
    <3>1. v # w /\ k = task[v]
      BY <1>1, <2>2
    <3> QED BY <2>2, <3>1 DEF Tasks, FdInv, Distinct
  <2>3. ASSUME NEW i \in 1..Len(queue), k = queue[i]
        PROVE  k \in Tasks /\ k.client # task[w].client
    BY <2>3 DEF Tasks, FdInv, Distinct
  <2>4. \/ k = offered /\ k # None
        \/ \E v \in Workers : k = task'[v] /\ k # None
        \/ \E i \in 1..Len(queue) : k = queue[i]
    BY DEF Tasks
  <2> QED BY <2>1, <2>2, <2>3, <2>4
<1>3. ASSUME NEW k \in Tasks PROVE k \in Tasks' \/ k = task[w]
  BY <1>1 DEF Tasks
<1>4. Distinct'
  BY <1>1 DEF FdInv, Distinct
<1> QED BY <1>1, <1>2, <1>3, <1>4

LEMMA SetTimeoutsKeeps ==
  ASSUME FdInv, NEW w \in Workers, SetTimeouts(w) PROVE FdInv'
<1>1. w \in Threads /\ ~HasFile(w) /\ pc[w] # "idle" /\ task[w] # None
  BY DEF SetTimeouts, HasFile, Threads, FdInv, Serving
<1>2. CASE IsConnection(task[w].fd)
  <2>1. mutex' \in Threads \cup {None} /\ fd' \in [Workers -> Fds]
    BY DEF SetTimeouts, FdInv, TypeOK
  <2> QED BY <1>1, <1>2, <2>1, MoveKeeps DEF SetTimeouts, Steps
<1>3. CASE ~IsConnection(task[w].fd)
  <2>1. Goto(w, "idle") /\ task' = [task EXCEPT ![w] = None]
    BY <1>3 DEF SetTimeouts
  <2>2. /\ task[w] \in Task /\ Tasks' \subseteq Tasks /\ Distinct'
        /\ \A k \in Tasks : k \in Tasks' \/ k = task[w]
    BY <1>1, <2>1, WithoutTask DEF SetTimeouts
  <2>3. hit
    <3> SUFFICES ASSUME ~hit PROVE FALSE
      OBVIOUS
    <3>1. table[task[w].fd] = task[w].client
      BY <1>1, ServedIsTask DEF FdInv, OwnUnlessHit
    <3> QED BY <1>3, <2>2, <3>1 DEF IsConnection, Task
  <2>4. TypeOK'
    BY <2>1 DEF SetTimeouts, FdInv, TypeOK, Goto, Steps
  <2>5. Serving'
    BY <1>1, <2>1 DEF SetTimeouts, FdInv, Serving, TypeOK, Goto, Threads
  <2>6. \A t \in Threads : HasFile(t)' <=> HasFile(t)
    BY <1>1, <2>1 DEF FdInv, TypeOK, Goto, HasFile
  <2> QED BY <2>2, <2>3, <2>4, <2>5, <2>6, HoldersKeep DEF SetTimeouts
<1> QED BY <1>2, <1>3

LEMMA ReadRequestKeeps ==
  ASSUME FdInv, NEW w \in Workers, ReadRequest(w) PROVE FdInv'
<1>1. PICK f \in {"open", "close"} : Goto(w, f)
  BY DEF ReadRequest
<1>2. ~HasFile(w) /\ pc[w] # "idle"
  BY DEF ReadRequest, HasFile
<1>3. mutex' \in Threads \cup {None} /\ fd' \in [Workers -> Fds]
  BY DEF ReadRequest, FdInv, TypeOK
<1> QED BY <1>1, <1>2, <1>3, MoveKeeps DEF ReadRequest, Steps

LEMMA CloseConnectionKeeps ==
  ASSUME FdInv, NEW w \in Workers, CloseConnection(w) PROVE FdInv'
<1>1. w \in Threads /\ ~HasFile(w) /\ task[w] # None
  BY DEF CloseConnection, HasFile, Threads, FdInv, Serving
<1>2. /\ task[w] \in Task /\ Tasks' \subseteq Tasks /\ Distinct'
      /\ \A k \in Tasks : k \in Tasks' \/ k = task[w]
      /\ \A k \in Tasks' : k.client # task[w].client
  BY <1>1, WithoutTask DEF CloseConnection
<1> DEFINE n == task[w].fd
           c == task[w].client
<1>3. /\ n \in Fds /\ c \in Clients /\ c \notin Threads /\ c # None
      /\ table' = [table EXCEPT ![n] = None]
      /\ hit' = (hit \/ table[n] \notin {c, None})
  BY <1>2, FdAssumption DEF Task, CloseConnection, Close
<1> HIDE DEF n, c
<1>4. hit' \in BOOLEAN
  BY <1>3
<1>5. TypeOK'
  BY <1>3, <1>4 DEF CloseConnection, FdInv, TypeOK, Goto, Steps
<1>6. Serving'
  BY <1>1 DEF CloseConnection, FdInv, Serving, TypeOK, Goto, Threads
<1>7. \A t \in Threads : HasFile(t)' <=> HasFile(t)
  BY <1>1 DEF CloseConnection, FdInv, TypeOK, Goto, HasFile
<1>8. CASE hit'
  BY <1>2, <1>5, <1>6, <1>8 DEF FdInv, OwnUnlessHit, OpenIsUsed
<1>9. CASE ~hit'
  <2>1. ~hit /\ table[n] \in {c, None} /\ hit' = hit
    BY <1>3, <1>9 DEF FdInv, TypeOK
  <2>2. \A k \in Tasks : table[k.fd] = k.client
    BY <2>1 DEF FdInv, OwnUnlessHit
  <2>3. ASSUME NEW k \in Tasks' PROVE k.fd # n
    <3>1. k \in Tasks /\ k.client # c /\ k.client # None
      BY <1>2, TasksOf, FdAssumption DEF FdInv, Task, c
    <3> QED BY <2>1, <2>2, <3>1
  <2>4. /\ table'[n] = None /\ table[n] \notin Threads
        /\ \A m \in Fds : m # n => table'[m] = table[m]
    BY <1>3, <2>1, FdAssumption DEF FdInv, TypeOK
  <2>5. \A k \in Tasks : k \in Tasks' \/ table'[k.fd] = None
    BY <1>2, <2>4 DEF n
  <2>6. UNCHANGED <<file, hit, leaks>>
    BY <2>1 DEF CloseConnection
  <2> QED BY <1>2, <1>5, <1>6, <1>7, <2>3, <2>4, <2>5, <2>6, HoldersKeep
<1> QED BY <1>8, <1>9

-----------------------------------------------------------------------------
LEMMA InitHolds == Init => FdInv
<1> SUFFICES ASSUME Init PROVE FdInv
  OBVIOUS
<1>1. Tasks = {} /\ Len(queue) = 0 /\ queue \in Seq(Task)
  BY DEF Init, Tasks
<1>2. 0 <= ThreadPoolSz
  BY FdAssumption
<1>3. TypeOK
  BY <1>1, <1>2, ZeroIsFd DEF Init, TypeOK, Steps
<1>4. Distinct /\ Serving
  BY <1>1 DEF Init, Distinct, Serving, Threads
<1>5. OwnUnlessHit /\ OpenIsUsed
  BY <1>1 DEF Init, OwnUnlessHit, OpenIsUsed, HasFile
<1> QED BY <1>3, <1>4, <1>5 DEF FdInv

LEMMA NextKeeps == FdInv /\ [Next]_vars => FdInv'
<1> SUFFICES ASSUME FdInv, [Next]_vars PROVE FdInv'
  OBVIOUS
<1>1. CASE UNCHANGED vars
  <2>1. Tasks' = Tasks /\ \A t \in Threads : HasFile(t)' <=> HasFile(t)
    BY <1>1, SameTasks DEF vars, HasFile
  <2>2. TypeOK' /\ Distinct'
    BY <1>1 DEF vars, FdInv, TypeOK, Distinct
  <2>3. Serving'
    BY <1>1 DEF vars, FdInv, Serving
  <2>4. OwnUnlessHit' /\ OpenIsUsed'
    BY <1>1, <2>1 DEF vars, FdInv, OwnUnlessHit, OpenIsUsed
  <2> QED BY <2>2, <2>3, <2>4 DEF FdInv
<1>2. ASSUME NEW c \in Clients, Accept(c) PROVE FdInv'
  BY <1>2, AcceptKeeps
<1>3. CASE Enqueue
  BY <1>3, EnqueueKeeps
<1>4. ASSUME NEW w \in Workers, Worker(w) PROVE FdInv'
  BY <1>4, DequeueKeeps, SetTimeoutsKeeps, ReadRequestKeeps,
     CloseConnectionKeeps, OpenFailsKeeps, CreateBidKeeps, CloseBidKeeps,
     OpenAgainKeeps, FcloseBidKeeps, CloseAgainKeeps, OpenAssetKeeps,
     CloseAssetKeeps DEF Worker
<1>5. ASSUME NEW t \in Threads, OpenFile(t) \/ CloseFile(t) PROVE FdInv'
  BY <1>5, OpenFileKeeps, CloseFileKeeps
<1> QED BY <1>1, <1>2, <1>3, <1>4, <1>5 DEF Next

\* Connections are in one place each, and numbers belong to their holders.
THEOREM FdInvHolds == Spec => []FdInv
BY InitHolds, NextKeeps, PTL DEF Spec

\* Until a close frees what another thread opened, which only the second close
\* of bid can be the first to do, no worker touches the connection of another
\* client or the file of another thread, for any number of workers, as long as
\* descriptors stay below 256, where a char starts over (FdAssumption).
THEOREM OwnUnlessHitHolds == Spec => []OwnUnlessHit
<1>1. FdInv => OwnUnlessHit
  BY DEF FdInv
<1> QED BY <1>1, FdInvHolds, PTL

\* Until then a descriptor stays open that nobody uses only when its number is
\* too large for a char or a bid has closed another number than it opened.
THEOREM OpenIsUsedHolds == Spec => []OpenIsUsed
<1>1. FdInv => OpenIsUsed
  BY DEF FdInv
<1> QED BY <1>1, FdInvHolds, PTL

\* The first close that frees what another thread opened is one of bid, whatever
\* the workers do and however their calls interleave, as long as descriptors stay
\* below 256.
THEOREM OnlyBidHitsHolds == Spec => OnlyBidHits
<1>1. FdInv /\ [Next]_vars =>
        [hit' # hit => \E w \in Workers : CloseAgain(w)]_vars
  <2> SUFFICES ASSUME FdInv, Next, hit' # hit
               PROVE  \E w \in Workers : CloseAgain(w)
    BY DEF vars
  <2>1. \A n, o : Close(n, o) => ~hit /\ table[n] \notin {o, None}
    BY DEF Close, FdInv, TypeOK
  <2>2. ASSUME NEW t \in Threads, HasFile(t), Close(file[t], t) PROVE FALSE
    BY <2>1, <2>2 DEF FdInv, OwnUnlessHit
  <2>3. ASSUME NEW t \in Threads, CloseFile(t) PROVE FALSE
    BY <2>2, <2>3 DEF CloseFile, HasFile
  <2>4. ASSUME NEW w \in Workers, CloseBid(w) PROVE FALSE
    BY <2>2, <2>4 DEF CloseBid, HasFile, FdInv, Serving, Threads
  <2>5. ASSUME NEW w \in Workers, FcloseBid(w) \/ CloseAsset(w) PROVE FALSE
    BY <2>2, <2>5 DEF FcloseBid, CloseAsset, HasFile, Threads
  <2>6. ASSUME NEW w \in Workers, CloseConnection(w) PROVE FALSE
    <3>1. task[w] # None /\ Close(task[w].fd, task[w].client)
      BY <2>6 DEF CloseConnection, FdInv, Serving
    <3> QED BY <2>1, <3>1, ServedIsTask DEF FdInv, OwnUnlessHit
  <2> QED BY <2>3, <2>4, <2>5, <2>6
          DEF Next, Worker, Accept, Enqueue, Dequeue, SetTimeouts, ReadRequest,
              OpenFile, OpenFails, CreateBid, OpenAgain, OpenAsset
<1> QED BY <1>1, FdInvHolds, PTL DEF Spec, OnlyBidHits

\* The numbers stay in the table, the queue in its size.
THEOREM TypeOKHolds == Spec => []TypeOK
<1>1. FdInv => TypeOK
  BY DEF FdInv
<1> QED BY <1>1, FdInvHolds, PTL

-----------------------------------------------------------------------------
(* How many numbers are in use                                             *)

\* The files that nobody will close
Left ==
  {n \in Fds : /\ table[n] \in Workers
               /\ \A t \in Threads : HasFile(t) => file[t] # n}

\* Each was left by a bid that leaks counts.
LeaksCounted == ~hit => Cardinality(Left) <= leaks

CountInv == FdInv /\ LeaksCounted /\ NumbersFit

LEMMA FdSets ==
  ASSUME NEW S \in SUBSET Fds
  PROVE  /\ IsFiniteSet(S) /\ Cardinality(S) \in Nat
         /\ \A T \in SUBSET S :
              IsFiniteSet(T) /\ Cardinality(T) \in Nat
              /\ Cardinality(T) <= Cardinality(S)
<1>1. IsFiniteSet(Fds)
  BY FS_Interval, FdAssumption DEF Fds
<1>2. IsFiniteSet(S)
  BY <1>1, FS_Subset
<1> QED BY <1>2, FS_Subset, FS_CardinalityType

LEMMA CountTo ==
  ASSUME NEW n \in Nat PROVE IsFiniteSet(1..n) /\ Cardinality(1..n) = n
<1>1. IsFiniteSet(1..n) /\ Cardinality(1..n) = IF 1 > n THEN 0 ELSE n - 1 + 1
  BY FS_Interval
<1>2. (IF 1 > n THEN 0 ELSE n - 1 + 1) = n
  OBVIOUS
<1> QED BY <1>1, <1>2

LEMMA ImageSize ==
  ASSUME NEW S, IsFiniteSet(S), NEW g
  PROVE  /\ IsFiniteSet({g[x] : x \in S})
         /\ Cardinality({g[x] : x \in S}) <= Cardinality(S)
<1> DEFINE T == {g[x] : x \in S}
           h == [x \in S |-> g[x]]
<1>1. h \in Surjection(S, T)
  BY DEF Surjection
<1> QED BY <1>1, FS_Surjection

LEMMA UnionSize ==
  ASSUME NEW S, NEW T, IsFiniteSet(S), IsFiniteSet(T), NEW a \in Nat, NEW b \in Nat,
         Cardinality(S) <= a, Cardinality(T) <= b
  PROVE  IsFiniteSet(S \cup T) /\ Cardinality(S \cup T) <= a + b
<1>1. /\ Cardinality(S) \in Nat /\ Cardinality(T) \in Nat
      /\ IsFiniteSet(S \cap T) /\ Cardinality(S \cap T) \in Nat
  BY FS_CardinalityType, FS_Intersection
<1>2. /\ IsFiniteSet(S \cup T)
      /\ Cardinality(S \cup T)
           = Cardinality(S) + Cardinality(T) - Cardinality(S \cap T)
  BY FS_Union
<1> QED BY <1>1, <1>2

\* Threads count one more than workers do.
LEMMA FilesSize ==
  ASSUME NEW T \in SUBSET Threads
  PROVE  /\ IsFiniteSet(T) /\ Cardinality(Workers) \in Nat
         /\ Cardinality(T) <= Cardinality(Workers) + 1
         /\ \A t \in Threads \ T : Cardinality(T) <= Cardinality(Workers)
<1>1. /\ IsFiniteSet(Threads) /\ Cardinality(Workers) \in Nat
      /\ Cardinality(Threads) = Cardinality(Workers) + 1
  BY FdAssumption, FS_AddElement, FS_CardinalityType DEF Threads
<1>2. /\ IsFiniteSet(T) /\ Cardinality(T) \in Nat
      /\ Cardinality(T) <= Cardinality(Threads)
  BY <1>1, FS_Subset, FS_CardinalityType
<1>3. ASSUME NEW t \in Threads \ T PROVE Cardinality(T) <= Cardinality(Workers)
  <2>1. Cardinality(T) # Cardinality(Threads)
    BY <1>1, <1>3, FS_Subset
  <2> QED BY <1>1, <1>2, <2>1
<1> QED BY <1>1, <1>2, <1>3

\* When somebody is about to take a number, those below it are all in use, and
\* there are not more of them than holders and files left open.
LEMMA LowestFits ==
  ASSUME FdInv, LeaksCounted, ~hit, NEW n \in Fds, IsLowest(n),
         offered = None \/ \E t \in Threads : ~HasFile(t)
  PROVE  (IF n <= CharMax THEN n ELSE CharMax + 1) <= Enough + leaks
<1> DEFINE m == IF n <= CharMax THEN n ELSE CharMax + 1
           T == {t \in Threads : HasFile(t)}
           A == {file[t] : t \in T}
           B == {task[w].fd : w \in Workers}
           C == {queue[i].fd : i \in 1..Len(queue)}
           D == IF offered = None THEN {} ELSE {offered.fd}
<1>1. /\ m \in Nat /\ m <= n /\ m <= CharMax + 1 /\ n \in Nat /\ n <= MaxFd
      /\ MaxFd \in Nat /\ CharMax \in Nat /\ ThreadPoolSz \in Nat
  BY FdAssumption DEF Fds
<1> HIDE DEF m
<1>2. /\ IsFiniteSet(0..(m - 1)) /\ Cardinality(0..(m - 1)) = m
  BY <1>1, FS_Interval
<1>3. ASSUME NEW j \in 0..(m - 1) PROVE j \in (A \cup D) \cup (B \cup C) \cup Left
  <2>1. j \in Fds /\ j < n /\ ~(j > CharMax)
    BY <1>1 DEF Fds
  <2>2. table[j] # None
    BY <1>1, <2>1 DEF IsLowest, Free
  <2>3. \/ \E k \in Tasks : k.fd = j
        \/ \E t \in Threads : HasFile(t) /\ file[t] = j
        \/ leaks > 0 /\ table[j] \in Workers
    BY <2>1, <2>2 DEF FdInv, OpenIsUsed
  <2>4. ASSUME NEW k \in Tasks, k.fd = j PROVE j \in (A \cup D) \cup (B \cup C)
    <3>1. /\ k # None
          /\ \/ k = offered
             \/ \E w \in Workers : k = task[w]
             \/ \E i \in 1..Len(queue) : k = queue[i]
      BY TasksOf, TaskIsNotNone DEF FdInv
    <3> QED BY <2>4, <3>1
  <2>5. (\E t \in Threads : HasFile(t) /\ file[t] = j) => j \in A
    OBVIOUS
  <2>6. \/ j \in Left
        \/ \E t \in Threads : HasFile(t) /\ file[t] = j
        \/ table[j] \notin Workers
    BY <2>1 DEF Left
  <2> QED BY <2>3, <2>4, <2>5, <2>6
<1>4. IsFiniteSet(A) /\ Cardinality(A) <= Cardinality(T)
  BY FilesSize, ImageSize
<1>5. IsFiniteSet(B) /\ Cardinality(B) <= Cardinality(Workers)
  <2> DEFINE g == [w \in Workers |-> task[w].fd]
  <2>1. B = {g[w] : w \in Workers}
    OBVIOUS
  <2>2. /\ IsFiniteSet({g[w] : w \in Workers})
        /\ Cardinality({g[w] : w \in Workers}) <= Cardinality(Workers)
    <3> HIDE DEF g
    <3> QED BY ImageSize, FdAssumption
  <2> HIDE DEF B, g
  <2> QED BY <2>1, <2>2
<1>6. IsFiniteSet(C) /\ Cardinality(C) <= ThreadPoolSz
  <2> DEFINE g == [i \in 1..Len(queue) |-> queue[i].fd]
  <2>1. C = {g[i] : i \in 1..Len(queue)}
    OBVIOUS
  <2>2. Len(queue) \in Nat /\ Len(queue) <= ThreadPoolSz
    BY DEF FdInv, TypeOK
  <2>3. IsFiniteSet(1..Len(queue)) /\ Cardinality(1..Len(queue)) = Len(queue)
    BY <2>2, CountTo
  <2> HIDE DEF C, g
  <2>4. IsFiniteSet(C) /\ Cardinality(C) <= Len(queue)
    BY <2>1, <2>3, ImageSize
  <2>5. Cardinality(C) \in Nat
    BY <2>4, FS_CardinalityType
  <2> QED BY <1>1, <2>2, <2>4, <2>5
<1>7. IsFiniteSet(D) /\ Cardinality(D) = IF offered = None THEN 0 ELSE 1
  BY FS_EmptySet, FS_Singleton
<1>8. IsFiniteSet(A \cup D) /\ Cardinality(A \cup D) <= Cardinality(Workers) + 1
  <2>1. /\ Cardinality(Workers) \in Nat
        /\ Cardinality(T) \in Nat
        /\ Cardinality(A) \in Nat
        /\ Cardinality(T) <= Cardinality(Workers) + 1
    BY <1>4, FilesSize, FS_CardinalityType
  <2>2. CASE offered = None
    <3>1. Cardinality(A) <= Cardinality(Workers) + 1 /\ A \cup D = A
      BY <1>4, <2>1, <2>2
    <3> QED BY <1>4, <3>1
  <2>3. CASE offered # None
    <3>1. PICK t \in Threads : t \notin T
      BY <2>3
    <3>2. Cardinality(T) <= Cardinality(Workers)
      BY <3>1, FilesSize
    <3>3. Cardinality(A) <= Cardinality(Workers) /\ Cardinality(D) <= 1
      BY <1>4, <1>7, <2>1, <2>3, <3>2
    <3> QED BY <1>4, <1>7, <2>1, <3>3, UnionSize
  <2> QED BY <2>2, <2>3
<1> HIDE DEF A, B, C, D
<1>9. Cardinality(Workers) \in Nat /\ leaks \in Nat
  BY FilesSize DEF FdInv, TypeOK
<1>10. IsFiniteSet(B \cup C)
       /\ Cardinality(B \cup C) <= Cardinality(Workers) + ThreadPoolSz
  BY <1>1, <1>5, <1>6, <1>9, UnionSize
<1>11. IsFiniteSet(Left) /\ Cardinality(Left) <= leaks
  BY FdSets DEF Left, LeaksCounted
<1> DEFINE a == Cardinality(Workers) + 1
           b == Cardinality(Workers) + ThreadPoolSz
<1>12. /\ a \in Nat /\ b \in Nat /\ a + b \in Nat
       /\ a + b = Enough
  BY <1>1, <1>9 DEF Enough
<1> HIDE DEF a, b
<1>13. IsFiniteSet((A \cup D) \cup (B \cup C))
       /\ Cardinality((A \cup D) \cup (B \cup C)) <= a + b
  <2>1. Cardinality(A \cup D) <= a /\ Cardinality(B \cup C) <= b
    BY <1>8, <1>10 DEF a, b
  <2> QED BY <1>8, <1>10, <1>12, <2>1, UnionSize
<1> DEFINE U == ((A \cup D) \cup (B \cup C)) \cup Left
<1>14. IsFiniteSet(U) /\ Cardinality(U) <= a + b + leaks
  BY <1>9, <1>11, <1>12, <1>13, UnionSize
<1>15. m <= Cardinality(U) /\ Cardinality(U) \in Nat
  <2>1. 0..(m - 1) \in SUBSET U
    BY <1>3
  <2> HIDE DEF U
  <2>2. Cardinality(0..(m - 1)) <= Cardinality(U)
    BY <1>14, <2>1, FS_Subset
  <2> QED BY <1>2, <1>14, <2>2, FS_CardinalityType
<1> HIDE DEF U
<1>16. m <= Enough + leaks
  BY <1>1, <1>9, <1>12, <1>14, <1>15
<1> QED BY <1>16 DEF m

\* A number that comes into use is the lowest free one, and it comes to a thread
\* without a file or, when no connection is on its way to the queue, to a client.
LEMMA NewNumber ==
  ASSUME FdInv, Next, NEW n \in Fds, table[n] = None, table'[n] # None
  PROVE  /\ IsLowest(n)
         /\ offered = None \/ \E t \in Threads : ~HasFile(t)
<1>1. table \in [Fds -> Clients \cup Threads \cup {None}]
  BY DEF FdInv, TypeOK
<1>2. ASSUME NEW c \in Clients, Accept(c)
      PROVE  IsLowest(n) /\ offered = None
  BY <1>1, <1>2 DEF Accept
<1>3. ASSUME NEW t \in Threads, ~HasFile(t), Open(t)
      PROVE  IsLowest(n) /\ \E s \in Threads : ~HasFile(s)
  BY <1>1, <1>3 DEF Open
<1>4. ASSUME NEW t \in Threads, OpenFile(t)
      PROVE  ~HasFile(t) /\ Open(t)
  BY <1>4 DEF OpenFile, HasFile
<1>5. ASSUME NEW w \in Workers, CreateBid(w) \/ OpenAgain(w) \/ OpenAsset(w)
      PROVE  w \in Threads /\ ~HasFile(w) /\ Open(w)
  BY <1>5 DEF CreateBid, OpenAgain, OpenAsset, HasFile, Threads
<1>6. \A m, o : ~Close(m, o)
  BY <1>1 DEF Close
<1>7. table' # table
  OBVIOUS
<1> QED BY <1>2, <1>3, <1>4, <1>5, <1>6, <1>7
        DEF Next, Worker, Enqueue, Dequeue, SetTimeouts, ReadRequest,
            CloseConnection, OpenFails, CloseFile, CloseBid, FcloseBid,
            CloseAgain, CloseAsset

LEMMA LeaksGrow ==
  ASSUME FdInv, [Next]_vars
  PROVE  leaks \in Nat /\ leaks' \in Nat /\ leaks <= leaks' /\ (hit => hit')
<1>1. leaks \in Nat /\ leaks' \in Nat
  BY NextKeeps DEF FdInv, TypeOK
<1>2. leaks <= leaks'
  <2>1. leaks' = leaks \/ \E w \in Workers : CloseAgain(w)
    BY DEF Next, Worker, Accept, Enqueue, Dequeue, SetTimeouts, ReadRequest,
       CloseConnection, OpenFile, CloseFile, OpenFails, CreateBid, CloseBid,
       OpenAgain, FcloseBid, OpenAsset, CloseAsset, vars
  <2>2. leaks' = leaks \/ leaks' = leaks + 1
    BY <2>1 DEF CloseAgain
  <2> QED BY <1>1, <2>2
<1>3. \A m, o : Close(m, o) /\ hit => hit'
  BY DEF Close
<1>4. hit => hit'
  BY <1>3 DEF Next, Worker, Accept, Enqueue, Dequeue, SetTimeouts, ReadRequest,
     CloseConnection, OpenFile, CloseFile, OpenFails, CreateBid, CloseBid,
     OpenAgain, FcloseBid, CloseAgain, OpenAsset, CloseAsset, vars
<1> QED BY <1>1, <1>2, <1>4

LEMMA NumbersFitKept ==
  ASSUME CountInv, [Next]_vars PROVE NumbersFit'
<1> SUFFICES ASSUME ~hit', NEW n \in Fds, table'[n] # None
             PROVE  (IF n <= CharMax THEN n ELSE CharMax + 1) <= Enough + leaks'
  BY DEF NumbersFit, Enough
<1>1. /\ FdInv /\ LeaksCounted /\ ~hit
      /\ leaks \in Nat /\ leaks' \in Nat /\ leaks <= leaks'
  BY LeaksGrow DEF CountInv
<1> DEFINE m == IF n <= CharMax THEN n ELSE CharMax + 1
<1>2. m \in Nat /\ Enough \in Nat
  <2>1. Cardinality(Workers) \in Nat /\ ThreadPoolSz \in Nat
    BY FdAssumption, FS_CardinalityType
  <2>2. n \in Nat /\ CharMax \in Nat
    BY FdAssumption DEF Fds
  <2> QED BY <2>1, <2>2 DEF Enough
<1>3. m <= Enough + leaks
  <2>1. CASE table[n] # None
    BY <1>1, <2>1 DEF CountInv, NumbersFit
  <2>2. CASE table[n] = None
    <3>1. Next
      BY <2>2 DEF vars
    <3> QED BY <1>1, <2>2, <3>1, NewNumber, LowestFits
  <2> QED BY <2>1, <2>2
<1> HIDE DEF m
<1>4. m <= Enough + leaks'
  <2>1. \A a, b, c, d \in Nat : a <= b + c /\ c <= d => a <= b + d
    OBVIOUS
  <2> QED BY <1>1, <1>2, <1>3, <2>1
<1> QED BY <1>4 DEF m

-----------------------------------------------------------------------------
(* The files left open                                                     *)

\* Thread t, which had no file open, opens one.
LEMMA OpenLeaves ==
  ASSUME FdInv, NEW t \in Threads, NEW f \in Steps, ~HasFile(t), Open(t),
         Goto(t, f), f \in {"close file", "close bid", "fclose bid",
                            "close again", "close asset"}
  PROVE  Left' \subseteq Left
<1>1. PICK n \in Fds : /\ table' = [table EXCEPT ![n] = t]
                       /\ file' = [file EXCEPT ![t] = n]
  BY DEF Open
<1>2. /\ file'[t] = n /\ HasFile(t)'
      /\ \A m \in Fds : m # n => table'[m] = table[m]
      /\ \A s \in Threads : s # t =>
           file'[s] = file[s] /\ (HasFile(s)' <=> HasFile(s))
  BY <1>1 DEF FdInv, TypeOK, Goto, HasFile
<1> QED BY <1>2 DEF Left

\* Thread t closes the number n for its file.
LEMMA CloseLeaves ==
  ASSUME FdInv, NEW t \in Threads, NEW f \in Steps, NEW n \in Fds,
         Close(n, t), Goto(t, f), Forget(t)
  PROVE  /\ Left' \subseteq Left \cup {file[t]}
         /\ n = file[t] => Left' \subseteq Left
<1>1. /\ table'[n] = None /\ None \notin Workers
      /\ \A m \in Fds : m # n => table'[m] = table[m]
      /\ \A s \in Threads : s # t =>
           file'[s] = file[s] /\ (HasFile(s)' <=> HasFile(s))
  BY FdAssumption DEF FdInv, TypeOK, Close, Goto, Forget, HasFile, Threads
<1>2. \A m \in Left' :
        m # n /\ m \in Fds /\ table[m] \in Workers
        /\ \A s \in Threads : s # t /\ HasFile(s) => file[s] # m
  BY <1>1 DEF Left
<1> QED BY <1>2 DEF Left

\* No thread opens or closes a file.
LEMMA FilesKeepLeft ==
  ASSUME FdInv, \A n \in Fds : table'[n] \in Workers => table[n] = table'[n],
         file' = file, \A t \in Threads : HasFile(t)' <=> HasFile(t)
  PROVE  Left' \subseteq Left
BY DEF Left

\* The second close of bid is the only step that leaves a file open, and it
\* counts it.
LEMMA LeftGrows ==
  ASSUME FdInv, [Next]_vars
  PROVE  \/ Left' \subseteq Left
         \/ \E n \in Fds : Left' \subseteq Left \cup {n} /\ leaks' = leaks + 1
<1>1. CASE UNCHANGED vars
  <2>1. \A t \in Threads : HasFile(t)' <=> HasFile(t)
    BY <1>1 DEF vars, HasFile
  <2> QED BY <1>1, <2>1, FilesKeepLeft DEF vars
<1>2. ASSUME NEW c \in Clients, Accept(c) PROVE Left' \subseteq Left
  <2>1. c \notin Workers
    BY FdAssumption DEF Threads
  <2>2. \A n \in Fds : table'[n] \in Workers => table[n] = table'[n]
    BY <1>2, <2>1 DEF Accept, FdInv, TypeOK
  <2>3. file' = file /\ \A t \in Threads : HasFile(t)' <=> HasFile(t)
    BY <1>2 DEF Accept, HasFile
  <2> QED BY <2>2, <2>3, FilesKeepLeft
<1>3. CASE Enqueue
  <2>1. \A t \in Threads : HasFile(t)' <=> HasFile(t)
    BY <1>3 DEF Enqueue, HasFile
  <2> QED BY <1>3, <2>1, FilesKeepLeft DEF Enqueue
<1>4. ASSUME NEW w \in Workers,
             Dequeue(w) \/ SetTimeouts(w) \/ ReadRequest(w) \/ OpenFails(w)
      PROVE  Left' \subseteq Left
  <2>1. PICK f \in Steps : Goto(w, f) /\ f \in {"setsockopt", "read", "idle",
                                                "open", "close"}
    BY <1>4 DEF Dequeue, SetTimeouts, ReadRequest, OpenFails, Steps
  <2>2. w \in Threads /\ ~HasFile(w)
    BY <1>4 DEF Dequeue, SetTimeouts, ReadRequest, OpenFails, HasFile, Threads
  <2>3. \A t \in Threads : HasFile(t)' <=> HasFile(t)
    BY <2>1, <2>2 DEF HasFile, Goto, FdInv, TypeOK
  <2>4. table' = table /\ file' = file
    BY <1>4 DEF Dequeue, SetTimeouts, ReadRequest, OpenFails
  <2> QED BY <2>3, <2>4, FilesKeepLeft
<1>5. ASSUME NEW w \in Workers, CloseConnection(w) PROVE Left' \subseteq Left
  <2>1. w \in Threads /\ ~HasFile(w) /\ Goto(w, "idle") /\ file' = file
    BY <1>5 DEF CloseConnection, HasFile, Threads
  <2>2. \A t \in Threads : HasFile(t)' <=> HasFile(t)
    BY <2>1 DEF HasFile, Goto, FdInv, TypeOK
  <2>3. \A n \in Fds : table'[n] \in Workers => table[n] = table'[n]
    <3>1. table' = [table EXCEPT ![task[w].fd] = None] /\ None \notin Workers
      BY <1>5, FdAssumption DEF CloseConnection, Close, Threads
    <3> QED BY <3>1 DEF FdInv, TypeOK
  <2> QED BY <2>1, <2>2, <2>3, FilesKeepLeft
<1>6. ASSUME NEW t \in Threads, OpenFile(t) PROVE Left' \subseteq Left
  <2>1. ~HasFile(t)
    BY <1>6 DEF OpenFile, HasFile
  <2> QED BY <1>6, <2>1, OpenLeaves DEF OpenFile, Steps
<1>7. ASSUME NEW w \in Workers, CreateBid(w) \/ OpenAgain(w) \/ OpenAsset(w)
      PROVE  Left' \subseteq Left
  <2>1. PICK f \in {"close bid", "fclose bid", "close again", "close asset"} :
          Goto(w, f)
    BY <1>7 DEF CreateBid, OpenAgain, OpenAsset
  <2>2. w \in Threads /\ ~HasFile(w) /\ Open(w)
    BY <1>7 DEF CreateBid, OpenAgain, OpenAsset, HasFile, Threads
  <2> QED BY <2>1, <2>2, OpenLeaves DEF Steps
<1>8. ASSUME NEW t \in Threads, CloseFile(t) PROVE Left' \subseteq Left
  <2>1. PICK f \in {"idle", "create bid", "open asset", "close"} : Goto(t, f)
    BY <1>8 DEF CloseFile
  <2>2. file[t] \in Fds /\ Close(file[t], t) /\ Forget(t)
    BY <1>8 DEF CloseFile, FdInv, TypeOK
  <2> QED BY <2>1, <2>2, CloseLeaves DEF Steps
<1>9. ASSUME NEW w \in Workers, CloseBid(w) \/ FcloseBid(w) \/ CloseAsset(w)
      PROVE  Left' \subseteq Left
  <2>1. PICK f \in {"fopen bid", "open bidded", "close"} : Goto(w, f)
    BY <1>9 DEF CloseBid, FcloseBid, CloseAsset
  <2>2. w \in Threads /\ file[w] \in Fds /\ Close(file[w], w) /\ Forget(w)
    BY <1>9 DEF CloseBid, FcloseBid, CloseAsset, FdInv, TypeOK, Serving, Threads
  <2> QED BY <2>1, <2>2, CloseLeaves DEF Steps
<1>10. ASSUME NEW w \in Workers, CloseAgain(w)
       PROVE  \/ Left' \subseteq Left
              \/ Left' \subseteq Left \cup {file[w]} /\ leaks' = leaks + 1
  <2>1. /\ w \in Threads /\ fd[w] \in Fds /\ "close" \in Steps
        /\ Close(fd[w], w) /\ Goto(w, "close") /\ Forget(w)
    BY <1>10 DEF CloseAgain, FdInv, TypeOK, Threads, Steps
  <2>2. /\ Left' \subseteq Left \cup {file[w]}
        /\ fd[w] = file[w] => Left' \subseteq Left
    BY <2>1, CloseLeaves
  <2>3. fd[w] # file[w] => leaks' = leaks + 1
    BY <1>10 DEF CloseAgain
  <2> QED BY <2>2, <2>3
<1>11. ASSUME NEW w \in Workers PROVE file[w] \in Fds
  BY DEF FdInv, TypeOK, Threads
<1> QED BY <1>1, <1>2, <1>3, <1>4, <1>5, <1>6, <1>7, <1>8, <1>9, <1>10, <1>11
        DEF Next, Worker

LEMMA LeaksCountedKept ==
  ASSUME FdInv, LeaksCounted, [Next]_vars PROVE LeaksCounted'
<1> SUFFICES ASSUME ~hit' PROVE Cardinality(Left') <= leaks'
  BY DEF LeaksCounted
<1>1. /\ leaks \in Nat /\ leaks' \in Nat /\ leaks <= leaks'
      /\ Cardinality(Left) <= leaks
  BY LeaksGrow DEF LeaksCounted
<1>2. Left \in SUBSET Fds /\ Left' \in SUBSET Fds
  BY DEF Left
<1>3. /\ IsFiniteSet(Left) /\ Cardinality(Left) \in Nat
      /\ Cardinality(Left') \in Nat
  BY <1>2, FdSets
<1>4. CASE Left' \subseteq Left
  <2>1. Cardinality(Left') <= Cardinality(Left)
    BY <1>2, <1>4, FdSets
  <2> QED BY <1>1, <1>3, <2>1
<1>5. ASSUME NEW n \in Fds, Left' \subseteq Left \cup {n}, leaks' = leaks + 1
      PROVE  Cardinality(Left') <= leaks'
  <2>1. /\ IsFiniteSet(Left \cup {n})
        /\ Cardinality(Left \cup {n}) <= Cardinality(Left) + 1
        /\ Cardinality(Left \cup {n}) \in Nat
    <3> DEFINE S == Left \cup {n}
    <3>1. /\ IsFiniteSet(S)
          /\ Cardinality(S) = Cardinality(Left)
             \/ Cardinality(S) = Cardinality(Left) + 1
      BY <1>3, FS_AddElement
    <3> HIDE DEF S
    <3>2. \A a, b \in Nat : a = b \/ a = b + 1 => a <= b + 1
      OBVIOUS
    <3>3. Cardinality(S) \in Nat
      BY <3>1, FS_CardinalityType
    <3>4. IsFiniteSet(S) /\ Cardinality(S) <= Cardinality(Left) + 1
      BY <1>3, <3>1, <3>2, <3>3
    <3> QED BY <3>3, <3>4 DEF S
  <2>2. Cardinality(Left') <= Cardinality(Left \cup {n})
    BY <1>5, <2>1, FS_Subset
  <2>3. \A a, b, c, d \in Nat : a <= b /\ b <= c + 1 /\ c <= d => a <= d + 1
    OBVIOUS
  <2> QED BY <1>1, <1>3, <1>5, <2>1, <2>2, <2>3
<1> QED BY <1>4, <1>5, LeftGrows

LEMMA CountInit == Init => CountInv
<1> SUFFICES ASSUME Init PROVE CountInv
  OBVIOUS
<1>1. FdInv
  BY InitHolds
<1>2. \A n \in Fds : table[n] = None
  BY DEF Init
<1>3. None \notin Workers
  BY FdAssumption DEF Threads
<1>4. Left = {} /\ leaks = 0
  BY <1>2, <1>3 DEF Left, Init
<1>5. LeaksCounted
  BY <1>4, FS_EmptySet DEF LeaksCounted
<1>6. NumbersFit
  BY <1>2 DEF NumbersFit
<1> QED BY <1>1, <1>5, <1>6 DEF CountInv

LEMMA CountNext == CountInv /\ [Next]_vars => CountInv'
BY NextKeeps, LeaksCountedKept, NumbersFitKept DEF CountInv

\* With any number of workers and a queue of any size, the numbers in use stay
\* below what the threads and the queue hold at once and the files that bid has
\* left open.  So where a char has room for Enough, no connection is taken for a
\* failed accept until bids have left as many files open as make up the rest.
THEOREM NumbersFitHolds == Spec => []NumbersFit
<1>1. CountInv => NumbersFit
  BY DEF CountInv
<1> QED BY <1>1, CountInit, CountNext, PTL DEF Spec
=============================================================================
