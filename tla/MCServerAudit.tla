---------------------------- MODULE MCServerAudit ----------------------------
(***************************************************************************)
(* Small instances of ServerAudit for TLC, over the requests and the       *)
(* seeded state of MCAuctionServer.                                        *)
(***************************************************************************)
EXTENDS MCAuctionServer, ServerAudit

SeededAuditSpec ==
  /\ SeededInit
  /\ over = [t \in Threads |-> {}]
  /\ vouched = [t \in Threads |-> FALSE]
  /\ [][AuditNext]_auditVars

\* Every listing of auctions that end, for users whose sessions and passwords
\* change while they are served
AuditMix ==
  ListMix \cup {Lin(bob, p), Lin(bob, q), Unr(bob, p), Unr(bob, q)}
=============================================================================
