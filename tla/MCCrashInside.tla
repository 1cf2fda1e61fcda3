---------------------------- MODULE MCCrashInside ----------------------------
(***************************************************************************)
(* A small instance of CrashInside for TLC, in the seeded state and with   *)
(* the vocabulary of requests of MCAuctionServer.                          *)
(***************************************************************************)
EXTENDS CrashInside, MCAuctionServer

\* Every request that writes more than one file, among them an auction that is
\* over at once, while bids arrive on what the crashes have left of auction 2
CrashMix ==
  {Lin(bob, p), Unr(bob, p), Offer(alice, 2, 1), Offer(alice, 2, 2),
   Cls(alice, 1), Opa(bob, 1, 1), Opa(bob, 1, 0)}

SeededCrashSpec == SeededInit /\ [][CrashNext]_vars
=============================================================================
