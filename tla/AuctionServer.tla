---------------------------- MODULE AuctionServer ----------------------------
(***************************************************************************)
(* The auction server: one thread that serves UDP requests and a pool of   *)
(* workers that serve TCP connections (src/server/server.c), each running  *)
(* the handler of its request (udp.c, tcp.c) over the database of          *)
(* AuctionDb.                                                              *)
(*                                                                         *)
(* A handler is a chain of database calls.  Every call takes db_mutex and  *)
(* gives it back, so other threads run between two calls of one handler,   *)
(* never within one; the exception is create_new_auction, which keeps the  *)
(* mutex while the client uploads the asset.  pc[t] is the call thread t   *)
(* makes next, named as in the C source; each action is one such call,     *)
(* and says what every handler that makes it does with the result.         *)
(***************************************************************************)
EXTENDS AuctionDb

CONSTANTS
  Workers,    \* the threads of the pool (30 in the code)
  UdpThread,  \* the thread that serves UDP
  MaxValue,   \* the largest value (999999 in the code)
  Requests,   \* the well-formed requests that clients send
  FsErrors,   \* whether calls that write or remove files may fail
  Restarts    \* whether the server may be killed and started again

Threads == Workers \cup {UdpThread}

UserOps == {"LIN", "LOU", "UNR"}
MyOps == {"LMA", "LMB"}
UdpOps == UserOps \cup MyOps \cup {"LST", "SRC"}
TcpOps == {"OPA", "CLS", "SAS", "BID"}

\* What the handlers accept of the arguments: an AID is three digits, zero
\* included, and no auction may start at the largest value.
Request ==
  [op : UserOps, uid : Users, passwd : Passwords]
    \cup [op : MyOps, uid : Users]
    \cup [op : {"LST"}]
    \cup [op : {"SRC", "SAS"}, aid : 0..MaxAuctions]
    \cup [op : {"OPA"}, uid : Users, passwd : Passwords,
          value : 0..(MaxValue - 1), timeActive : Nat]
    \cup [op : {"CLS"}, uid : Users, passwd : Passwords, aid : 0..MaxAuctions]
    \cup [op : {"BID"}, uid : Users, passwd : Passwords, aid : 0..MaxAuctions,
          value : 0..MaxValue]

ASSUME ServerAssumption ==
  /\ MaxValue \in Nat
  /\ Requests \subseteq Request
  /\ UdpThread \notin Workers
  /\ None \notin Threads
  /\ None \notin Request
  /\ FsErrors \in BOOLEAN
  /\ Restarts \in BOOLEAN

Steps == {"idle", "exists_user", "is_user_logged_in", "is_authentic_user",
  "register_user", "log_in_user", "log_out_user", "unregister_user",
  "update_database", "exists_auction", "get_auction_info",
  "is_auction_finished", "get_last_bid", "bid", "close_auction",
  "create_new_auction", "as_recv_asset_file", "show_asset",
  "get_user_auctions", "get_user_bids", "get_auctions_list",
  "get_auction_bidders_list", "dead"}

Statuses == {"none", "REG", "OK", "NOK", "ERR", "UNR", "NLG", "EAU", "EOW",
  "END", "ILG", "REF", "ACC"}

\* A reply: its status, the auctions it lists as active and as ended, the bids
\* it lists and how much of the asset it carries.
Reply == [status : Statuses, active : SUBSET AIDs, ended : SUBSET AIDs,
          bids : SUBSET BidRecord, asset : {None, "part", "whole", "mixed"}]

Status(s) == [status |-> s, active |-> {}, ended |-> {}, bids |-> {},
              asset |-> None]

VARIABLES
  mutex,  \* who holds db_mutex between two actions
  pc,     \* the database call a thread makes next
  req,    \* the request it serves
  info,   \* auction_info, the START line its handler has read
  reply   \* the last reply it sent

threadVars == <<pc, req, info, reply>>
vars == <<dbVars, mutex, threadVars>>

TypeOK ==
  /\ DbTypeOK
  /\ mutex \in Threads \cup {None}
  /\ pc \in [Threads -> Steps]
  /\ req \in [Threads -> Request \cup {None}]
  /\ info \in [Threads -> StartRecord \cup {None}]
  /\ reply \in [Threads -> Reply]

Init ==
  /\ DbInit
  /\ mutex = None
  /\ pc = [t \in Threads |-> "idle"]
  /\ req = [t \in Threads |-> None]
  /\ info = [t \in Threads |-> None]
  /\ reply = [t \in Threads |-> Status("none")]

-----------------------------------------------------------------------------
op(t) == req[t].op
uid(t) == req[t].uid
aid(t) == req[t].aid

\* Thread t makes the call f, and takes the mutex to do so.
Calls(t, f) == pc[t] = f /\ mutex = None

\* The handler goes on with the call f.
Goto(t, f) ==
  /\ pc' = [pc EXCEPT ![t] = f]
  /\ UNCHANGED <<mutex, req, info, reply>>

\* The handler ends with the reply r and the thread is free again.
Answer(t, r) ==
  /\ pc' = [pc EXCEPT ![t] = "idle"]
  /\ req' = [req EXCEPT ![t] = None]
  /\ info' = [info EXCEPT ![t] = None]
  /\ reply' = [reply EXCEPT ![t] = r]

\* It ends outside the mutex, with nothing but a status.
Refuse(t, s) == Answer(t, Status(s)) /\ UNCHANGED mutex

\* The process is gone, with all its threads.
Dies ==
  /\ mutex' = None
  /\ pc' = [t \in Threads |-> "dead"]
  /\ req' = [t \in Threads |-> None]
  /\ info' = [t \in Threads |-> None]
  /\ reply' = [t \in Threads |-> Status("none")]

\* It ends with a list of auctions, or with NOK when the list is empty.
AnswerList(t, aids) ==
  /\ Answer(t, IF aids = {} THEN Status("NOK")
               ELSE [Status("OK") EXCEPT !.active = Active(aids),
                                         !.ended = Ended(aids)])
  /\ UNCHANGED mutex

-----------------------------------------------------------------------------
(* Requests                                                                *)

\* Mutant of FirstStep: BID and CLS do not bring the database up to date.
FirstStepStale(o) ==
  CASE o \in UserOps \cup MyOps \cup {"OPA", "CLS", "BID"} -> "exists_user"
    [] o = "LST" -> "update_database"
    [] OTHER -> "exists_auction"

FirstStep(o) ==
  CASE o \in UserOps \cup MyOps \cup {"OPA"} -> "exists_user"
    [] o \in {"LST", "CLS", "BID"} -> "update_database"
    [] OTHER -> "exists_auction"

\* recvfrom gives the UDP thread a request, or dequeue gives a worker a
\* connection and it has read the request from it.  Requests that are badly
\* formed are answered ERR without a database call and are left out.
Receive(t) ==
  /\ pc[t] = "idle"
  /\ \E r \in Requests :
       /\ r.op \in IF t = UdpThread THEN UdpOps ELSE TcpOps
       /\ req' = [req EXCEPT ![t] = r]
       /\ pc' = [pc EXCEPT ![t] = FirstStep(r.op)]
  /\ reply' = [reply EXCEPT ![t] = Status("none")]
  /\ UNCHANGED <<dbVars, mutex, info>>

-----------------------------------------------------------------------------
(* Checks of the user                                                      *)

ExistsUser(t) ==
  /\ Calls(t, "exists_user")
  /\ IF exists_user(uid(t))
     THEN Goto(t, IF op(t) = "LIN" THEN "is_authentic_user"
                  ELSE "is_user_logged_in")
     ELSE IF op(t) = "LIN" THEN Goto(t, "register_user")
     ELSE Refuse(t, CASE op(t) \in {"LOU", "UNR"} -> "UNR"
                      [] op(t) \in {"LMA", "LMB", "BID"} -> "NOK"
                      [] op(t) \in {"OPA", "CLS"} -> "NLG")
  /\ UNCHANGED dbVars

IsUserLoggedIn(t) ==
  /\ Calls(t, "is_user_logged_in")
  /\ IF is_user_logged_in(uid(t))
     THEN Goto(t, IF op(t) \in MyOps THEN "update_database"
                  ELSE "is_authentic_user")
     ELSE Refuse(t, IF op(t) \in UserOps THEN "NOK" ELSE "NLG")
  /\ UNCHANGED dbVars

IsAuthenticUser(t) ==
  /\ Calls(t, "is_authentic_user")
  /\ IF is_authentic_user(uid(t), req[t].passwd)
     THEN Goto(t, CASE op(t) = "LIN" -> "log_in_user"
                    [] op(t) = "LOU" -> "log_out_user"
                    [] op(t) = "UNR" -> "unregister_user"
                    [] op(t) = "OPA" -> "create_new_auction"
                    [] op(t) \in {"CLS", "BID"} -> "exists_auction")
     ELSE Refuse(t, IF op(t) \in UserOps THEN "NOK" ELSE "NLG")
  /\ UNCHANGED dbVars

-----------------------------------------------------------------------------
(* Changes to users, by the UDP thread                                     *)

RegisterUser(t) ==
  /\ Calls(t, "register_user")
  /\ \/ register_user(uid(t), req[t].passwd) /\ Refuse(t, "REG")
     \/ FsErrors /\ register_user_fails(uid(t)) /\ Refuse(t, "ERR")

LogInUser(t) ==
  /\ Calls(t, "log_in_user")
  /\ \/ log_in_user(uid(t)) /\ Refuse(t, "OK")
     \/ FsErrors /\ UNCHANGED dbVars /\ Refuse(t, "ERR")

\* remove fails when there is no login file.
LogOutUser(t) ==
  /\ Calls(t, "log_out_user")
  /\ \/ /\ is_user_logged_in(uid(t))
        /\ log_out_user(uid(t))
        /\ Refuse(t, "OK")
     \/ /\ FsErrors \/ ~is_user_logged_in(uid(t))
        /\ UNCHANGED dbVars
        /\ Refuse(t, "ERR")

UnregisterUser(t) ==
  /\ Calls(t, "unregister_user")
  /\ \/ /\ is_user_logged_in(uid(t)) /\ exists_user(uid(t))
        /\ unregister_user(uid(t))
        /\ Refuse(t, "OK")
     \/ /\ FsErrors \/ ~is_user_logged_in(uid(t)) \/ ~exists_user(uid(t))
        /\ unregister_user_fails(uid(t))
        /\ Refuse(t, "ERR")

-----------------------------------------------------------------------------
(* Checks of the auction                                                   *)

\* What it returns is ignored by every handler.
UpdateDatabase(t) ==
  /\ Calls(t, "update_database")
  /\ \/ update_database({}, {})
     \/ /\ FsErrors
        /\ \E failed, blank \in SUBSET AIDs : update_database(failed, blank)
  /\ Goto(t, CASE op(t) \in {"CLS", "BID"} -> "exists_user"
               [] op(t) = "LMA" -> "get_user_auctions"
               [] op(t) = "LMB" -> "get_user_bids"
               [] op(t) = "LST" -> "get_auctions_list"
               [] op(t) = "SRC" -> "get_auction_info")

ExistsAuction(t) ==
  /\ Calls(t, "exists_auction")
  /\ IF exists_auction(aid(t))
     THEN Goto(t, IF op(t) = "SRC" THEN "update_database"
                  ELSE "get_auction_info")
     ELSE Refuse(t, CASE op(t) \in {"SRC", "SAS"} -> "NOK"
                      [] op(t) = "CLS" -> "EAU"
                      [] op(t) = "BID" -> "ERR")
  /\ UNCHANGED dbVars

\* Only the owner may close an auction, and only another user may bid on it:
\* a check of the handler on the line it has just read.  A record without a
\* START file is the error ERR_SRC, for which the table of messages has none:
\* handle_udp_command takes the length of NULL.
GetAuctionInfo(t) ==
  /\ Calls(t, "get_auction_info")
  /\ IF start[aid(t)] = None
     THEN IF op(t) = "SRC" THEN Dies ELSE Refuse(t, "NOK")
     ELSE IF op(t) = "CLS" /\ start[aid(t)].uid # uid(t)
     THEN Refuse(t, "EOW")
     ELSE IF op(t) = "BID" /\ start[aid(t)].uid = uid(t)
     THEN Refuse(t, "ILG")
     ELSE /\ info' = [info EXCEPT ![t] = start[aid(t)]]
          /\ pc' = [pc EXCEPT ![t] =
               CASE op(t) = "SAS" -> "show_asset"
                 [] op(t) = "SRC" -> "get_auction_bidders_list"
                 [] op(t) \in {"CLS", "BID"} -> "is_auction_finished"]
          /\ UNCHANGED <<mutex, req, reply>>
  /\ UNCHANGED dbVars

IsAuctionFinished(t) ==
  /\ Calls(t, "is_auction_finished")
  /\ IF is_auction_finished(aid(t))
     THEN Refuse(t, IF op(t) = "CLS" THEN "END" ELSE "NOK")
     ELSE Goto(t, IF op(t) = "CLS" THEN "close_auction" ELSE "get_last_bid")
  /\ UNCHANGED dbVars

\* Mutant of Bar: the start value is forgotten.
BarWithoutStart(t) == get_last_bid(aid(t))

\* What a bid has to exceed: the last bid, or the start value when there is none
Bar(t) ==
  IF get_last_bid(aid(t)) = 0 THEN info[t].value ELSE get_last_bid(aid(t))

\* The comparison follows get_last_bid, outside the mutex.
GetLastBid(t) ==
  /\ Calls(t, "get_last_bid")
  /\ IF req[t].value <= Bar(t) THEN Refuse(t, "REF") ELSE Goto(t, "bid")
  /\ UNCHANGED dbVars

-----------------------------------------------------------------------------
(* Changes to auctions, by the workers                                     *)

\* Neither END nor the last bid is looked at again.
Bid(t) ==
  /\ Calls(t, "bid")
  /\ \/ /\ start[aid(t)] # None
        /\ bid(aid(t), uid(t), req[t].value)
        /\ Refuse(t, "ACC")
     \/ /\ FsErrors /\ start[aid(t)] # None
        /\ bid_unwritten(aid(t), uid(t), req[t].value)
        /\ Refuse(t, "ACC")
     \/ /\ FsErrors \/ start[aid(t)] = None
        /\ bid_fails(aid(t), uid(t), req[t].value)
        /\ Refuse(t, "ERR")

CloseAuction(t) ==
  /\ Calls(t, "close_auction")
  /\ \/ start[aid(t)] # None /\ close_auction(aid(t)) /\ Refuse(t, "OK")
     \/ /\ FsErrors /\ start[aid(t)] # None
        /\ close_auction_unwritten(aid(t))
        /\ Refuse(t, "OK")
     \/ /\ FsErrors \/ start[aid(t)] = None
        /\ close_auction_fails(aid(t))
        /\ Refuse(t, "NOK")

\* Mutant of AwaitAsset: the mutex is given back before the upload.
AwaitAssetUnlocked(t) ==
  /\ pc' = [pc EXCEPT ![t] = "as_recv_asset_file"]
  /\ UNCHANGED <<mutex, req, info, reply>>

\* The handler waits for the asset and keeps the mutex.
AwaitAsset(t) ==
  /\ mutex' = t
  /\ pc' = [pc EXCEPT ![t] = "as_recv_asset_file"]
  /\ UNCHANGED <<req, info, reply>>

\* The creation fails before the download, or START is written, or so it seems,
\* and the thread waits for the asset, with the mutex.
CreateNewAuction(t) ==
  /\ Calls(t, "create_new_auction")
  /\ \/ Full /\ UNCHANGED dbVars /\ Refuse(t, "NOK")
     \/ /\ FsErrors /\ ~Full
        /\ \/ create_auction_dir_fails
           \/ CreateFailsAndRollsBack(
                StartLine(uid(t), req[t].value, req[t].timeActive))
        /\ Refuse(t, "NOK")
     \/ /\ ~Full
        /\ \/ NewAuction(uid(t), req[t].value, req[t].timeActive)
           \/ FsErrors /\ NewAuction_unwritten
        /\ AwaitAsset(t)

\* The asset arrives and the auction is entered in the owner's HOSTED directory.
AssetReceived(t) ==
  /\ pc[t] = "as_recv_asset_file"
  /\ HostAuction(uid(t))
  /\ Answer(t, [Status("OK") EXCEPT !.active = {aucCount}])
  /\ mutex' = None

\* Mutant of AssetFails: the early return forgets the mutex.
AssetFailsLocked(t) ==
  /\ pc[t] = "as_recv_asset_file"
  /\ rollback_auction_dir_creation
  /\ Answer(t, Status("NOK"))
  /\ UNCHANGED mutex

\* The client sends too little or too much, hangs up or is silent for five
\* seconds, or HOSTED cannot be written.
AssetFails(t) ==
  /\ pc[t] = "as_recv_asset_file"
  /\ \/ rollback_auction_dir_creation
     \/ FsErrors /\ rollback_auction_dir_creation_fails
  /\ Answer(t, Status("NOK"))
  /\ mutex' = None

-----------------------------------------------------------------------------
(* Replies that list what the database holds                               *)

\* stat and open of the asset, outside the mutex
ShowAsset(t) ==
  /\ pc[t] = "show_asset"
  /\ Answer(t, IF asset[aid(t)] = None THEN Status("NOK")
               ELSE [Status("OK") EXCEPT !.asset = asset[aid(t)]])
  /\ UNCHANGED <<dbVars, mutex>>

GetUserAuctions(t) ==
  /\ Calls(t, "get_user_auctions")
  /\ AnswerList(t, hosted[uid(t)])
  /\ UNCHANGED dbVars

GetUserBids(t) ==
  /\ Calls(t, "get_user_bids")
  /\ AnswerList(t, bidded[uid(t)])
  /\ UNCHANGED dbVars

GetAuctionsList(t) ==
  /\ Calls(t, "get_auctions_list")
  /\ AnswerList(t, dirs)
  /\ UNCHANGED dbVars

\* The E field is there when END has contents.
GetAuctionBiddersList(t) ==
  /\ Calls(t, "get_auction_bidders_list")
  /\ Answer(t, [Status("OK") EXCEPT
       !.bids = get_auction_bidders_list(aid(t)),
       !.active = IF end[aid(t)] \in EndRecord THEN {} ELSE {aid(t)},
       !.ended = IF end[aid(t)] \in EndRecord THEN {aid(t)} ELSE {}])
  /\ UNCHANGED <<dbVars, mutex>>

-----------------------------------------------------------------------------
\* The process is killed, at any point, and started again on its directory.
Restart ==
  /\ Restarts
  /\ load_db_state
  /\ mutex' = None
  /\ pc' = [t \in Threads |-> "idle"]
  /\ req' = [t \in Threads |-> None]
  /\ info' = [t \in Threads |-> None]
  /\ reply' = [t \in Threads |-> Status("none")]

Time == Tick /\ UNCHANGED <<mutex, threadVars>>

Step(t) ==
  \/ Receive(t)
  \/ ExistsUser(t) \/ IsUserLoggedIn(t) \/ IsAuthenticUser(t)
  \/ RegisterUser(t) \/ LogInUser(t) \/ LogOutUser(t) \/ UnregisterUser(t)
  \/ UpdateDatabase(t)
  \/ ExistsAuction(t) \/ GetAuctionInfo(t) \/ IsAuctionFinished(t)
  \/ GetLastBid(t)
  \/ Bid(t) \/ CloseAuction(t)
  \/ CreateNewAuction(t) \/ AssetReceived(t) \/ AssetFails(t)
  \/ ShowAsset(t)
  \/ GetUserAuctions(t) \/ GetUserBids(t) \/ GetAuctionsList(t)
  \/ GetAuctionBiddersList(t)

Next == (\E t \in Threads : Step(t)) \/ Time \/ Restart

Spec == Init /\ [][Next]_vars

\* The upload of an asset ends: recv times out after five seconds of silence,
\* and the number of bytes it accepts is bounded.  Nothing else is assumed fair.
FairSpec ==
  Spec /\ WF_vars(\E t \in Threads : AssetReceived(t) \/ AssetFails(t))

-----------------------------------------------------------------------------
(* Properties                                                              *)

\* Between two uses of the mutex the auctions are numbered 1 to auc_count
\* without a gap, each is complete, and HOSTED names exactly the auctions that
\* a user opened: creating an auction is all or nothing, rollback included.
AuctionsComplete ==
  mutex = None =>
    \A a \in AIDs :
      /\ a \in dirs <=> a <= aucCount
      /\ start[a] # None <=> a <= aucCount
      /\ asset[a] = (IF a <= aucCount THEN "whole" ELSE None)
      /\ \A u \in Users :
           a \in hosted[u] <=> a <= aucCount /\ start[a].uid = u

\* An auction that HOSTED names is complete and within auc_count, even when
\* the server is killed and started again.
HostedComplete ==
  \A u \in Users : \A a \in hosted[u] :
    /\ start[a] # None /\ start[a].uid = u
    /\ asset[a] = "whole"
    /\ a \in dirs /\ a <= aucCount

\* What remains of that when any write or rollback may fail: no two users have
\* the same auction in HOSTED, its number is one that requests find, its upload
\* came to its end, and its START has the line of that user or, when the line
\* was lost, none: never that of somebody whose auction was rolled back.
HostedOwned ==
  \A u \in Users : \A a \in hosted[u] :
    /\ \A w \in Users \ {u} : a \notin hosted[w]
    /\ start[a] # None => start[a].uid = u
    /\ asset[a] \notin {None, "part"}
    /\ a \in dirs /\ a <= aucCount

\* Every bid that is kept was above the start value and from someone else than
\* the owner, although the handler checked both long before it wrote the bid.
BidsLawful ==
  \A a \in AIDs : \A b \in bids[a] :
    /\ start[a] # None
    /\ b.value > start[a].value
    /\ b.uid # start[a].uid

\* mybids finds every auction that keeps a bid of the user.
BidsIndexed == \A a \in AIDs : \A b \in bids[a] : a \in bidded[b.uid]

\* A client is never sent an asset that is still being uploaded, although
\* show_asset reads the file without the mutex.
AssetsSentWhole == \A t \in Threads : reply[t].asset # "part"

\* What HOSTED names is never lost or altered by a later step: not its START
\* line, its asset, its END mark, nor the values bid on it.  The rollback of
\* one auction touches no other, and unregistering a user touches none.
HostedKept ==
  [][\A u \in Users : \A a \in hosted[u] :
       /\ a \in hosted'[u]
       /\ start'[a] = start[a]
       /\ asset'[a] = asset[a]
       /\ end[a] # None => end'[a] # None
       /\ \A b \in bids[a] : \E c \in bids'[a] : c.value = b.value]_vars

\* The LIN, LOU or UNR request that the UDP thread works on
userRequest ==
  IF req[UdpThread] # None /\ op(UdpThread) \in UserOps THEN req[UdpThread]
  ELSE None

Sess == INSTANCE Sessions WITH
  UserRequests <- {r \in Requests : r.op \in UserOps},
  asked <- userRequest,
  status <- reply[UdpThread].status

\* To clients the handlers of LIN, LOU and UNR are single steps, although each
\* asks the database two or three times before it acts and workers run in
\* between: what it was told is still true when it acts (without failures).
SessionsKept == Sess!SessionsSpec

\* Whoever keeps the mutex while a client uploads gives it back.
MutexReleased == mutex # None ~> mutex = None

-----------------------------------------------------------------------------
(* What the documentation says and the code does not keep.                 *)

\* "refused (if value is not larger than the previous highest bid)": an
\* accepted bid is above every earlier one when it is entered.
AcceptedIsHighest ==
  [][\A t \in Threads :
       pc[t] = "bid" /\ reply'[t].status = "ACC"
         => req[t].value > get_last_bid(aid(t))]_vars

\* "each error message is indexed by it's errcode": a request that fails in the
\* server is answered, and the server goes on.
Survives == \A t \in Threads : pc[t] # "dead"

\* "sends a unique auction identifier AID": the AID of a reply to OPA has not
\* been given to an auction before.
AidUnique ==
  [][\A t \in Threads :
       pc[t] = "as_recv_asset_file" /\ reply'[t].status = "OK"
         => \A u \in Users : aucCount \notin hosted[u]]_vars
=============================================================================
