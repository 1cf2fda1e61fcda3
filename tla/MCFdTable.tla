------------------------------ MODULE MCFdTable ------------------------------
(***************************************************************************)
(* A small instance of FdTable for TLC.  Connections differ in nothing,    *)
(* and neither do workers.                                                 *)
(***************************************************************************)
EXTENDS FdTable, TLC

\* After a bid whose first number was taken no more, since one below had become
\* free: user_bidded got that, and stays open.
AfterLeak ==
  /\ leaks = 1
  /\ \E w \in Workers : table = [n \in Fds |-> IF n = 0 THEN w ELSE None]
  /\ pending = Clients
  /\ offered = None
  /\ queue = <<>>
  /\ task = [w \in Workers |-> None]
  /\ pc = [t \in Threads |-> "idle"]
  /\ mutex = None
  /\ file = [t \in Threads |-> 0]
  /\ fd = [w \in Workers |-> 0]
  /\ hit = FALSE

FdSpec == (Init \/ AfterLeak) /\ [][Next]_vars

Symmetry == Permutations(Clients) \cup Permutations(Workers)
=============================================================================
