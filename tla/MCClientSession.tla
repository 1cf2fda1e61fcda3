--------------------------- MODULE MCClientSession ---------------------------
(***************************************************************************)
(* Small instances of ClientSession for TLC.                               *)
(***************************************************************************)
EXTENDS ClientSession

CONSTANTS c1, c2, c3, alice, bob, p, q

At(u, w) == [uid |-> u, passwd |-> w]

\* Every query is made at c1; elsewhere only mybids.
Asked == [c \in Clients |-> IF c = c1 THEN QueryOps ELSE {"LMB"}]

\* One person with two users, who may mistype a password
OnePerson ==
  /\ knows = [c \in Clients |->
       IF c = c1 THEN {At(alice, p), At(alice, q), At(bob, p)} ELSE {}]
  /\ gone = Clients \ {c1}

\* Two people who share a user
TwoPeople ==
  /\ knows = [c \in Clients |-> IF c = c1 THEN {} ELSE {At(alice, p)}]
  /\ gone = {c1}

SessionInit == Init /\ (OnePerson \/ TwoPeople)
SessionSpec == SessionInit /\ [][Next]_vars /\ Fairness
=============================================================================
