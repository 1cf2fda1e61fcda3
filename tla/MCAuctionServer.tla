--------------------------- MODULE MCAuctionServer ---------------------------
(***************************************************************************)
(* Small instances of AuctionServer for TLC.  Each set of requests keeps a *)
(* run to one question; the seeded initial state is one the server reaches *)
(* by LIN and OPA requests.                                                *)
(***************************************************************************)
EXTENDS AuctionServer, TLC

CONSTANTS alice, bob, carol, p, q

Lin(u, w) == [op |-> "LIN", uid |-> u, passwd |-> w]
Lou(u, w) == [op |-> "LOU", uid |-> u, passwd |-> w]
Unr(u, w) == [op |-> "UNR", uid |-> u, passwd |-> w]
Lma(u) == [op |-> "LMA", uid |-> u]
Lmb(u) == [op |-> "LMB", uid |-> u]
Lst == [op |-> "LST"]
Src(a) == [op |-> "SRC", aid |-> a]
Sas(a) == [op |-> "SAS", aid |-> a]
Opa(u, v, ta) ==
  [op |-> "OPA", uid |-> u, passwd |-> p, value |-> v, timeActive |-> ta]
Cls(u, a) == [op |-> "CLS", uid |-> u, passwd |-> p, aid |-> a]
Offer(u, a, v) ==
  [op |-> "BID", uid |-> u, passwd |-> p, aid |-> a, value |-> v]

\* Everyone is registered and logged in; alice has just opened auction 1.
SeededInit ==
  /\ pass = [u \in Users |-> p]
  /\ login = Users
  /\ hosted = [u \in Users |-> IF u = alice THEN {1} ELSE {}]
  /\ bidded = [u \in Users |-> {}]
  /\ aucCount = 1
  /\ dirs = {1}
  /\ start = [a \in AIDs |->
       IF a = 1 THEN [uid |-> alice, value |-> 1, timeActive |-> 1, time |-> 0]
       ELSE None]
  /\ end = [a \in AIDs |-> None]
  /\ bids = [a \in AIDs |-> {}]
  /\ asset = [a \in AIDs |-> IF a = 1 THEN "whole" ELSE None]
  /\ now = 0
  /\ mutex = None
  /\ pc = [t \in Threads |-> "idle"]
  /\ req = [t \in Threads |-> None]
  /\ info = [t \in Threads |-> None]
  /\ reply = [t \in Threads |-> Status("none")]

SeededSpec == SeededInit /\ [][Next]_vars

\* Rival bids, low and equal bids, a bid of the owner and a bid on no auction,
\* while the owner closes the auction, its time runs out and another opens one
BidMix ==
  {Offer(bob, 1, 2), Offer(bob, 1, 3), Offer(carol, 1, 3), Offer(carol, 1, 1),
   Offer(alice, 1, 2), Offer(bob, 0, 2), Cls(alice, 1), Opa(bob, 1, 1)}

\* Two users, who come and go under two passwords, open auctions at the same
\* time, and these are listed and fetched
OpenMix ==
  {Lin(alice, p), Lin(bob, p), Lin(bob, q), Lou(bob, p), Lou(bob, q),
   Unr(alice, p), Unr(bob, q), Lma(alice), Lmb(bob), Lst, Src(1),
   Opa(alice, 1, 1), Opa(bob, 0, 1), Sas(1), Sas(2)}

\* Every listing, of an auction that ends
ListMix ==
  {Lma(alice), Lma(bob), Lmb(bob), Lst, Src(1), Src(2), Lou(bob, p),
   Offer(bob, 1, 2), Offer(bob, 1, 3), Cls(alice, 1), Cls(bob, 1), Cls(alice, 2),
   Opa(bob, 0, 1)}

\* Every request that writes, each able to fail
FaultMix ==
  {Lin(bob, p), Lou(bob, p), Unr(bob, p), Offer(bob, 1, 1),
   Offer(bob, 1, 2), Cls(alice, 1), Opa(alice, 1, 0), Opa(bob, 1, 0)}

\* Records of auctions, one of which may never have been created
RecordMix == {Opa(bob, 1, 1), Src(1), Src(2)}

ThreadSymmetry == Permutations(Workers)
=============================================================================
