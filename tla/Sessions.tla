------------------------------ MODULE Sessions ------------------------------
(***************************************************************************)
(* What the server promises about users: LIN, LOU and UNR take effect at   *)
(* once and in the order in which they are answered, each answer is the    *)
(* right one for the moment at which it is given, and nothing else changes *)
(* who is registered or logged in.                                         *)
(*                                                                         *)
(* The handlers of src/server/udp.c ask the database several times before  *)
(* they act; AuctionServer shows that this cannot be noticed (SessionsKept *)
(* there).                                                                 *)
(***************************************************************************)
EXTENDS Accounts

CONSTANT UserRequests  \* the LIN, LOU and UNR requests: records with op, uid, passwd

VARIABLES
  asked,   \* the request the server works on
  status   \* its last answer

sessionVars == <<pass, login, asked, status>>

SessionsInit ==
  /\ AccountsInit
  /\ asked = None
  /\ status = "none"

\* The server takes up the request r.
Take(r) ==
  /\ asked = None
  /\ asked' = r
  /\ status' = "none"
  /\ UNCHANGED <<pass, login>>

\* It carries it out and answers.
Serve ==
  /\ asked # None
  /\ Effect(asked)
  /\ status' = Answer(asked)
  /\ asked' = None

\* It answers a request of another kind.
ServeOther ==
  /\ asked = None
  /\ UNCHANGED <<pass, login, asked>>

\* It is killed and started again: a request it worked on is never answered.
Forget ==
  /\ asked' = None
  /\ status' = "none"
  /\ UNCHANGED <<pass, login>>

SessionsNext ==
  \/ \E r \in UserRequests : Take(r)
  \/ Serve \/ ServeOther \/ Forget

SessionsSpec == SessionsInit /\ [][SessionsNext]_sessionVars
=============================================================================
