----------------------------- MODULE ServerAudit -----------------------------
(***************************************************************************)
(* AuctionServer with history: what was true of the database while a       *)
(* request was being served.  A handler checks its user and its auction    *)
(* in several uses of the mutex and acts in a later one; these properties  *)
(* say what those checks are still worth when the handler acts.            *)
(***************************************************************************)
EXTENDS AuctionServer

VARIABLES
  over,     \* over[t]: the auctions that were over when t got its request
  vouched   \* vouched[t]: since then, the user of the request has been at one
            \* moment logged in and registered with the password it carries

auditVars == <<vars, over, vouched>>

\* An auction is over when it is marked so or its time has run out.  One whose
\* asset is still being uploaded may yet be rolled back, and its AID used again.
Over ==
  {a \in AIDs : /\ asset[a] = "whole"
                /\ \/ is_auction_finished(a)
                   \/ now >= start[a].time + start[a].timeActive}

CarriesPassword == UserOps \cup {"OPA", "CLS", "BID"}

\* The user of the request r is logged in and has its password.
Vouches(r) ==
  /\ r.op \in CarriesPassword
  /\ is_user_logged_in(r.uid)
  /\ pass[r.uid] = r.passwd

Watch ==
  /\ over' = [t \in Threads |->
       IF req'[t] = None THEN {}
       ELSE IF req[t] = None THEN Over'
       ELSE over[t]]
  /\ vouched' = [t \in Threads |->
       req'[t] # None /\ (vouched[t] \/ Vouches(req[t])')]

AuditInit ==
  /\ Init
  /\ over = [t \in Threads |-> {}]
  /\ vouched = [t \in Threads |-> FALSE]

AuditNext == Next /\ Watch

AuditSpec == AuditInit /\ [][AuditNext]_auditVars

-----------------------------------------------------------------------------
\* The calls that act for the user who sent the request
ActingSteps == {"log_out_user", "unregister_user", "exists_auction",
  "get_auction_info", "is_auction_finished", "get_last_bid", "bid",
  "close_auction", "create_new_auction", "as_recv_asset_file"}

\* Whatever a handler does for a user, there was one moment while it served
\* the request at which that user was logged in and had that password:
\* although the session and the password are checked apart, and the user may
\* log out, unregister and register again between the two.
ActsForTheUser ==
  \A t \in Threads :
    pc[t] \in ActingSteps /\ op(t) \in CarriesPassword => vouched[t]

\* A bid is entered, and an auction closed, only if the auction was not over
\* when the request arrived: every handler runs update_database first.
ActsInTime ==
  \A t \in Threads :
    pc[t] \in {"get_last_bid", "bid", "close_auction"} => aid(t) \notin over[t]

\* No reply shows as active an auction that was over when the request arrived,
\* although END files are only written when some request asks for it.
ListsInTime ==
  [][\A t \in Threads :
       pc[t] # "idle" /\ pc'[t] = "idle"
         => reply'[t].active \cap over[t] = {}]_auditVars
=============================================================================
