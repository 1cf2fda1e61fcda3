------------------------- MODULE AuctionServerProofs -------------------------
(***************************************************************************)
(* Proofs about AuctionServer for every set of users, passwords, workers   *)
(* and requests and every limit.                                           *)
(***************************************************************************)
EXTENDS AuctionServer, FiniteSetTheorems, TLAPS

\* The requests whose handlers make the call s
OpsAt(s) ==
  CASE s = "exists_user" -> UserOps \cup MyOps \cup {"OPA", "CLS", "BID"}
    [] s = "is_user_logged_in" ->
         {"LOU", "UNR"} \cup MyOps \cup {"OPA", "CLS", "BID"}
    [] s = "is_authentic_user" -> UserOps \cup {"OPA", "CLS", "BID"}
    [] s \in {"register_user", "log_in_user"} -> {"LIN"}
    [] s = "log_out_user" -> {"LOU"}
    [] s = "unregister_user" -> {"UNR"}
    [] s = "update_database" -> {"LMA", "LMB", "LST", "SRC", "CLS", "BID"}
    [] s \in {"exists_auction", "get_auction_info"} ->
         {"SRC", "SAS", "CLS", "BID"}
    [] s = "is_auction_finished" -> {"CLS", "BID"}
    [] s \in {"get_last_bid", "bid"} -> {"BID"}
    [] s = "close_auction" -> {"CLS"}
    [] s \in {"create_new_auction", "as_recv_asset_file"} -> {"OPA"}
    [] s = "show_asset" -> {"SAS"}
    [] s = "get_user_auctions" -> {"LMA"}
    [] s = "get_user_bids" -> {"LMB"}
    [] s = "get_auctions_list" -> {"LST"}
    [] s = "get_auction_bidders_list" -> {"SRC"}
    [] OTHER -> {}

\* The calls a handler makes after exists_auction has said yes
AfterExists == {"get_auction_info", "is_auction_finished", "get_last_bid",
  "bid", "close_auction", "show_asset", "get_auction_bidders_list"}

\* A thread that is neither idle nor dead serves a request that leads to its step.
Serves(t) ==
  /\ pc[t] \notin {"idle", "dead"} => req[t] \in Request /\ req[t].op \in OpsAt(pc[t])
  /\ pc[t] \in AfterExists => req[t].aid \in AIDs
  /\ req[t] # None /\ req[t].op = "SRC" /\ pc[t] = "update_database"
       => req[t].aid \in AIDs

\* Only the thread that uploads an asset keeps the mutex, and then there is an
\* auction for auc_count to designate.
Uploads(t) == pc[t] = "as_recv_asset_file" => mutex = t /\ aucCount > 0

TypeInv == TypeOK /\ \A t \in Threads : Serves(t) /\ Uploads(t)

-----------------------------------------------------------------------------
\* What the fields of a request are
LEMMA RequestFields ==
  ASSUME NEW r \in Request
  PROVE  /\ r.op \in UdpOps \cup TcpOps
         /\ r.op \in UserOps \cup MyOps \cup {"OPA", "CLS", "BID"}
              => r.uid \in Users
         /\ r.op \in UserOps \cup {"OPA", "CLS", "BID"} => r.passwd \in Passwords
         /\ r.op \in {"SRC", "SAS", "CLS", "BID"} => r.aid \in 0..MaxAuctions
         /\ r.op \in {"OPA", "BID"} => r.value \in Nat
         /\ r.op = "OPA" => r.timeActive \in Nat
BY ServerAssumption, SMT DEF Request, UdpOps, TcpOps, UserOps, MyOps

\* A reply that is only a status
LEMMA StatusIsReply ==
  ASSUME NEW s \in Statuses
  PROVE  Status(s) \in Reply
BY DEF Status, Reply

-----------------------------------------------------------------------------
(* A step of thread t that leaves the other threads alone keeps the type    *)
(* invariant when the files keep their types.                              *)

LEMMA GotoKeepsTypes ==
  ASSUME TypeInv, DbTypeOK', aucCount' = aucCount,
         NEW t \in Threads, NEW s \in Steps \ {"idle", "dead", "as_recv_asset_file"},
         pc[t] \notin {"idle", "dead"}, Goto(t, s),
         req[t].op \in OpsAt(s),
         s \in AfterExists => req[t].aid \in AIDs,
         s = "update_database" /\ req[t].op = "SRC" => req[t].aid \in AIDs
  PROVE  TypeInv'
<1> USE DEF TypeInv, Goto
<1>1. TypeOK'
  BY DEF TypeOK
<1>2. ASSUME NEW x \in Threads PROVE Serves(x)' /\ Uploads(x)'
  <2>1. CASE x = t
    BY <2>1, Zenon DEF Serves, Uploads, TypeOK
  <2>2. CASE x # t
    BY <2>2 DEF Serves, Uploads, TypeOK
  <2> QED BY <2>1, <2>2
<1> QED BY <1>1, <1>2

LEMMA AnswerKeepsTypes ==
  ASSUME TypeInv, DbTypeOK', mutex' \in Threads \cup {None},
         NEW t \in Threads, NEW r \in Reply, Answer(t, r),
         \/ mutex = None
         \/ mutex = t
         \/ mutex' = mutex /\ aucCount' = aucCount
  PROVE  TypeInv'
<1> USE DEF TypeInv, Answer
<1>1. TypeOK'
  BY DEF TypeOK, Steps
<1>2. ASSUME NEW x \in Threads PROVE Serves(x)' /\ Uploads(x)'
  <2>1. CASE x = t
    BY <2>1 DEF Serves, Uploads, TypeOK, AfterExists
  <2>2. CASE x # t
    BY <2>2, ServerAssumption DEF Serves, Uploads, TypeOK
  <2> QED BY <2>1, <2>2
<1> QED BY <1>1, <1>2

-----------------------------------------------------------------------------
(* The checks of the handlers change no file.                              *)

LEMMA FilesUnchanged ==
  ASSUME DbTypeOK, UNCHANGED dbVars
  PROVE  DbTypeOK' /\ aucCount' = aucCount
BY DEF DbTypeOK, dbVars, userVars, auctionVars

LEMMA ReceiveKeepsTypes ==
  ASSUME TypeInv, NEW t \in Threads, Receive(t)
  PROVE  TypeInv'
<1>1. DbTypeOK' /\ aucCount' = aucCount
  BY FilesUnchanged DEF TypeInv, TypeOK, Receive
<1>2. PICK r \in Requests :
        /\ req' = [req EXCEPT ![t] = r]
        /\ pc' = [pc EXCEPT ![t] = FirstStep(r.op)]
  BY DEF Receive
<1>3. r \in Request
  BY ServerAssumption
<1>4. /\ FirstStep(r.op) \in {"exists_user", "update_database", "exists_auction"}
      /\ r.op \in OpsAt(FirstStep(r.op))
      /\ FirstStep(r.op) = "update_database" => r.op # "SRC"
  BY <1>3, RequestFields
     DEF FirstStep, OpsAt, UserOps, MyOps, UdpOps, TcpOps
<1>5. TypeOK'
  BY <1>1, <1>2, <1>3, <1>4, StatusIsReply
     DEF TypeInv, TypeOK, Receive, Steps, Statuses
<1>6. ASSUME NEW x \in Threads PROVE Serves(x)' /\ Uploads(x)'
  <2>1. CASE x = t
    BY <1>2, <1>3, <1>4, <2>1
       DEF TypeInv, TypeOK, Serves, Uploads, AfterExists
  <2>2. CASE x # t
    BY <1>1, <1>2, <2>2 DEF TypeInv, TypeOK, Receive, Serves, Uploads
  <2> QED BY <2>1, <2>2
<1> QED BY <1>5, <1>6 DEF TypeInv

\* A check either goes on with a call that fits the request or refuses it.
LEMMA ChecksKeepTypes ==
  ASSUME TypeInv, NEW t \in Threads,
         \/ ExistsUser(t) \/ IsUserLoggedIn(t) \/ IsAuthenticUser(t)
         \/ ExistsAuction(t) \/ IsAuctionFinished(t) \/ GetLastBid(t)
  PROVE  TypeInv'
<1>1. /\ DbTypeOK' /\ aucCount' = aucCount
      /\ pc[t] \notin {"idle", "dead"} /\ mutex = None
      /\ Serves(t)
      /\ req[t] \in Request /\ req[t].op \in OpsAt(pc[t])
  BY FilesUnchanged
     DEF TypeInv, TypeOK, Serves, Calls, ExistsUser, IsUserLoggedIn,
         IsAuthenticUser, ExistsAuction, IsAuctionFinished, GetLastBid
<1>2. \/ \E s \in Statuses : Refuse(t, s)
      \/ \E s \in Steps \ {"idle", "dead", "as_recv_asset_file"} :
           /\ Goto(t, s)
           /\ req[t].op \in OpsAt(s)
           /\ s \in AfterExists => req[t].aid \in AIDs
           /\ s = "update_database" /\ req[t].op = "SRC" => req[t].aid \in AIDs
  <2>1. CASE ExistsUser(t)
    BY <1>1, <2>1
       DEF ExistsUser, Calls, op, uid, OpsAt, Statuses, Steps, AfterExists,
           UserOps, MyOps
  <2>2. CASE IsUserLoggedIn(t)
    BY <1>1, <2>2
       DEF IsUserLoggedIn, Calls, op, uid, OpsAt, Statuses, Steps, AfterExists,
           UserOps, MyOps
  <2>3. CASE IsAuthenticUser(t)
    BY <1>1, <2>3
       DEF IsAuthenticUser, Calls, op, uid, OpsAt, Statuses, Steps, AfterExists,
           UserOps, MyOps
  <2>4. CASE ExistsAuction(t)
    <3>1. req[t].aid \in 0..MaxAuctions
      BY <1>1, <2>4, RequestFields DEF ExistsAuction, Calls, OpsAt
    <3>2. exists_auction(req[t].aid) => req[t].aid \in AIDs
      BY <3>1, DbAssumption DEF exists_auction, AIDs
    <3> QED
      BY <1>1, <2>4, <3>2
         DEF ExistsAuction, Calls, op, aid, OpsAt, Statuses, Steps, AfterExists
  <2>5. CASE IsAuctionFinished(t)
    BY <1>1, <2>5
       DEF IsAuctionFinished, Calls, op, aid, OpsAt, Statuses, Steps,
           AfterExists, Serves
  <2>6. CASE GetLastBid(t)
    BY <1>1, <2>6
       DEF GetLastBid, Calls, op, aid, OpsAt, Statuses, Steps, AfterExists, Serves
  <2> QED BY <2>1, <2>2, <2>3, <2>4, <2>5, <2>6
<1>3. CASE \E s \in Statuses : Refuse(t, s)
  BY <1>1, <1>3, StatusIsReply, AnswerKeepsTypes DEF Refuse, TypeInv, TypeOK
<1>4. CASE ~ \E s \in Statuses : Refuse(t, s)
  BY <1>1, <1>2, <1>4, GotoKeepsTypes
<1> QED BY <1>3, <1>4

LEMMA GetAuctionInfoKeepsTypes ==
  ASSUME TypeInv, NEW t \in Threads, GetAuctionInfo(t)
  PROVE  TypeInv'
<1>1. /\ DbTypeOK' /\ aucCount' = aucCount
      /\ pc[t] = "get_auction_info" /\ mutex = None
      /\ Serves(t)
      /\ req[t] \in Request /\ req[t].op \in OpsAt("get_auction_info")
      /\ req[t].aid \in AIDs
  BY FilesUnchanged
     DEF TypeInv, TypeOK, Serves, Calls, GetAuctionInfo, AfterExists
<1>2. CASE \E s \in Statuses : Refuse(t, s)
  BY <1>1, <1>2, StatusIsReply, AnswerKeepsTypes DEF Refuse, TypeInv, TypeOK
<1>3. CASE Dies
  <2>1. TypeOK'
    BY <1>1, <1>3, StatusIsReply DEF Dies, TypeOK, Steps, Statuses
  <2>2. \A x \in Threads : Serves(x)' /\ Uploads(x)'
    BY <1>3 DEF Dies, Serves, Uploads, AfterExists
  <2> QED BY <2>1, <2>2 DEF TypeInv
<1>4. CASE ~Dies /\ ~ \E s \in Statuses : Refuse(t, s)
  <2>1. PICK s \in {"show_asset", "get_auction_bidders_list",
                    "is_auction_finished"} :
          /\ start[aid(t)] # None
          /\ info' = [info EXCEPT ![t] = start[aid(t)]]
          /\ pc' = [pc EXCEPT ![t] = s]
          /\ req[t].op \in OpsAt(s)
          /\ UNCHANGED <<mutex, req, reply>>
    BY <1>1, <1>4 DEF GetAuctionInfo, op, aid, OpsAt, Statuses
  <2>2. start[aid(t)] \in StartRecord
    BY <1>1, <2>1 DEF TypeInv, TypeOK, DbTypeOK, aid
  <2>3. TypeOK'
    BY <1>1, <2>1, <2>2 DEF TypeInv, TypeOK, Steps
  <2>4. ASSUME NEW x \in Threads PROVE Serves(x)' /\ Uploads(x)'
    <3>1. CASE x = t
      BY <1>1, <2>1, <3>1 DEF TypeInv, TypeOK, Serves, Uploads
    <3>2. CASE x # t
      BY <1>1, <2>1, <3>2 DEF TypeInv, TypeOK, Serves, Uploads
    <3> QED BY <3>1, <3>2
  <2> QED BY <2>3, <2>4 DEF TypeInv
<1> QED BY <1>2, <1>3, <1>4

-----------------------------------------------------------------------------
(* Changes to users                                                        *)

LEMMA UserChangesKeepFileTypes ==
  ASSUME DbTypeOK, NEW u \in Users, NEW w \in Passwords,
         \/ log_in_user(u) \/ log_out_user(u)
         \/ register_user(u, w) \/ register_user_fails(u)
         \/ unregister_user(u) \/ unregister_user_fails(u)
         \/ UNCHANGED dbVars
  PROVE  DbTypeOK' /\ aucCount' = aucCount
BY DEF DbTypeOK, log_in_user, log_out_user, register_user, register_user_fails,
       unregister_user, unregister_user_fails, dbVars, userVars, auctionVars

LEMMA UserChangesKeepTypes ==
  ASSUME TypeInv, NEW t \in Threads,
         \/ RegisterUser(t) \/ LogInUser(t) \/ LogOutUser(t) \/ UnregisterUser(t)
  PROVE  TypeInv'
<1>1. /\ mutex = None
      /\ pc[t] \in {"register_user", "log_in_user", "log_out_user",
                    "unregister_user"}
      /\ \E s \in Statuses : Refuse(t, s)
  BY DEF RegisterUser, LogInUser, LogOutUser, UnregisterUser, Calls, Statuses
<1>2. req[t].uid \in Users /\ req[t].passwd \in Passwords
  BY <1>1, RequestFields
     DEF TypeInv, Serves, OpsAt, UserOps
<1>3. DbTypeOK' /\ aucCount' = aucCount
  BY <1>2, UserChangesKeepFileTypes
     DEF TypeInv, TypeOK, RegisterUser, LogInUser, LogOutUser, UnregisterUser, uid
<1> QED
  BY <1>1, <1>3, StatusIsReply, AnswerKeepsTypes DEF Refuse, TypeInv, TypeOK

-----------------------------------------------------------------------------
(* Changes to auctions                                                     *)

LEMMA UpdateKeepsFileTypes ==
  ASSUME DbTypeOK, NEW failed, NEW blank, update_database(failed, blank)
  PROVE  DbTypeOK' /\ aucCount' = aucCount
<1>1. ASSUME NEW a \in AIDs, Expired(a)
      PROVE  [time |-> start[a].time + start[a].timeActive,
              secs |-> start[a].timeActive] \in EndRecord
  BY <1>1 DEF DbTypeOK, Expired, StartRecord, EndRecord
<1>2. end' \in [AIDs -> EndRecord \cup {None, Blank}]
  BY <1>1 DEF update_database, DbTypeOK
<1> QED BY <1>2 DEF update_database, DbTypeOK, userVars

LEMMA UpdateKeepsTypes ==
  ASSUME TypeInv, NEW t \in Threads, UpdateDatabase(t)
  PROVE  TypeInv'
<1>1. /\ pc[t] = "update_database" /\ mutex = None
      /\ Serves(t)
      /\ req[t] \in Request /\ req[t].op \in OpsAt("update_database")
  BY DEF TypeInv, Serves, UpdateDatabase, Calls
<1>2. DbTypeOK' /\ aucCount' = aucCount
  BY UpdateKeepsFileTypes DEF UpdateDatabase, TypeInv, TypeOK
<1>3. PICK s \in {"exists_user", "get_user_auctions", "get_user_bids",
                  "get_auctions_list", "get_auction_info"} :
        Goto(t, s) /\ req[t].op \in OpsAt(s)
                   /\ (s = "get_auction_info" => req[t].op = "SRC")
  BY <1>1 DEF UpdateDatabase, op, OpsAt, UserOps, MyOps
<1>4. s = "get_auction_info" => req[t].aid \in AIDs
  BY <1>1, <1>3, ServerAssumption DEF Serves
<1> QED
  BY <1>1, <1>2, <1>3, <1>4, GotoKeepsTypes DEF AfterExists, Steps

LEMMA BidKeepsFileTypes ==
  ASSUME DbTypeOK, NEW a \in AIDs, NEW u \in Users, NEW v \in Nat,
         bid(a, u, v) \/ bid_unwritten(a, u, v) \/ bid_fails(a, u, v)
  PROVE  DbTypeOK' /\ aucCount' = aucCount
<1>1. ASSUME NEW w \in Users \cup {Blank}, BidFile(a, v, w)
      PROVE  bids' \in [AIDs -> SUBSET BidRecord]
  <2>1. [value |-> v, uid |-> w, time |-> now] \in BidRecord
    BY DEF DbTypeOK, BidRecord
  <2>2. {b \in bids[a] : b.value # v} \subseteq BidRecord
    BY DEF DbTypeOK
  <2> QED BY <1>1, <2>1, <2>2 DEF BidFile, DbTypeOK
<1>2. bids' \in [AIDs -> SUBSET BidRecord]
  BY <1>1 DEF bid, bid_unwritten, bid_fails, DbTypeOK
<1> QED BY <1>2 DEF bid, bid_unwritten, bid_fails, DbTypeOK, userVars

LEMMA CloseKeepsFileTypes ==
  ASSUME DbTypeOK, NEW a \in AIDs,
         \/ start[a] # None /\ close_auction(a)
         \/ close_auction_unwritten(a) \/ close_auction_fails(a)
  PROVE  DbTypeOK' /\ aucCount' = aucCount
<1>1. start[a] # None =>
        [time |-> now, secs |-> now - start[a].time] \in EndRecord
  BY DEF DbTypeOK, StartRecord, EndRecord
<1>2. end' \in [AIDs -> EndRecord \cup {None, Blank}]
  BY <1>1
     DEF close_auction, close_auction_unwritten, close_auction_fails, DbTypeOK
<1> QED
  BY <1>2
     DEF close_auction, close_auction_unwritten, close_auction_fails, DbTypeOK,
         userVars

LEMMA BidAndCloseKeepTypes ==
  ASSUME TypeInv, NEW t \in Threads, Bid(t) \/ CloseAuction(t)
  PROVE  TypeInv'
<1>1. /\ mutex = None
      /\ \E s \in Statuses : Refuse(t, s)
  BY DEF Bid, CloseAuction, Calls, Statuses
<1>2. req[t].aid \in AIDs /\ req[t] \in Request
  BY DEF TypeInv, Serves, Bid, CloseAuction, Calls, AfterExists
<1>3. Bid(t) => req[t].uid \in Users /\ req[t].value \in Nat
  BY <1>2, RequestFields DEF TypeInv, Serves, Bid, Calls, OpsAt
<1>4. DbTypeOK' /\ aucCount' = aucCount
  BY <1>2, <1>3, BidKeepsFileTypes, CloseKeepsFileTypes
     DEF TypeInv, TypeOK, Bid, CloseAuction, aid, uid
<1> QED
  BY <1>1, <1>4, StatusIsReply, AnswerKeepsTypes DEF Refuse, TypeInv, TypeOK

LEMMA StartLineIsRecord ==
  ASSUME DbTypeOK, NEW u \in Users, NEW v \in Nat, NEW ta \in Nat
  PROVE  StartLine(u, v, ta) \in StartRecord
BY DEF StartLine, StartRecord, DbTypeOK

\* What an asset file may hold
Contents == {None, "part", "whole", "mixed"}

LEMMA OpenKeepsFileTypes ==
  ASSUME DbTypeOK, aucCount < MaxAuctions,
         NEW line \in StartRecord \cup {None}, OpenAuction(line)
  PROVE  DbTypeOK' /\ aucCount' = aucCount + 1 /\ aucCount' \in AIDs
<1> DEFINE a == aucCount + 1
<1>1. a \in AIDs /\ a \in 0..MaxAuctions
  BY DbAssumption DEF DbTypeOK, AIDs
<1>2. PICK file \in Contents : asset' = [asset EXCEPT ![a] = file]
  BY DEF OpenAuction, Opened, Contents
<1>3. /\ start' \in [AIDs -> StartRecord \cup {None}]
      /\ asset' \in [AIDs -> Contents]
  BY <1>2 DEF OpenAuction, DbTypeOK, Contents
<1> QED BY <1>1, <1>3 DEF OpenAuction, DbTypeOK, Contents, userVars

LEMMA RollbackFailsKeepsFileTypes ==
  ASSUME DbTypeOK, NEW a \in AIDs, NEW line \in StartRecord \cup {None},
         NEW file \in Contents, RollbackFails(a, line, file)
  PROVE  DbTypeOK'
<1>1. aucCount' \in 0..MaxAuctions
  BY DbAssumption DEF RollbackFails, AIDs
<1>2. start' \in [AIDs -> StartRecord \cup {None}]
  BY DEF RollbackFails, DbTypeOK
<1>3. asset' \in [AIDs -> Contents]
  BY DEF RollbackFails, DbTypeOK, Contents
<1>4. /\ end' \in [AIDs -> EndRecord \cup {None, Blank}]
      /\ bids' \in [AIDs -> SUBSET BidRecord]
  BY DEF RollbackFails, DbTypeOK
<1> QED BY <1>1, <1>2, <1>3, <1>4 DEF RollbackFails, DbTypeOK, Contents, userVars

LEMMA CreateFailsKeepsFileTypes ==
  ASSUME DbTypeOK, aucCount < MaxAuctions,
         NEW line \in StartRecord \cup {None},
         create_auction_dir_fails \/ CreateFailsAndRollsBack(line)
  PROVE  DbTypeOK'
<1> DEFINE a == aucCount + 1
<1>1. a \in AIDs /\ a \in 0..MaxAuctions
  BY DbAssumption DEF DbTypeOK, AIDs
<1>2. CASE create_auction_dir_fails
  <2>1. aucCount' \in 0..MaxAuctions /\ dirs' \subseteq AIDs
    BY <1>1, <1>2 DEF create_auction_dir_fails, DbTypeOK
  <2> QED BY <1>2, <2>1 DEF create_auction_dir_fails, userVars, DbTypeOK
<1>3. CASE EmptyDirectory(a) /\ UNCHANGED <<userVars, aucCount, now>>
  BY <1>1, <1>3 DEF DbTypeOK, EmptyDirectory, userVars
<1>4. CASE \E l \in {line, None, start[a]} : RollbackFails(a, l, asset[a])
  <2>1. start[a] \in StartRecord \cup {None} /\ asset[a] \in Contents
    BY <1>1 DEF DbTypeOK, Contents
  <2> QED BY <1>1, <1>4, <2>1, RollbackFailsKeepsFileTypes
<1> QED BY <1>2, <1>3, <1>4 DEF CreateFailsAndRollsBack

LEMMA CreateKeepsTypes ==
  ASSUME TypeInv, NEW t \in Threads, CreateNewAuction(t)
  PROVE  TypeInv'
<1> DEFINE line == StartLine(uid(t), req[t].value, req[t].timeActive)
<1>1. /\ mutex = None /\ pc[t] = "create_new_auction"
      /\ req[t] \in Request /\ req[t].op = "OPA"
  BY DEF TypeInv, Serves, CreateNewAuction, Calls, OpsAt
<1>2. /\ req[t].uid \in Users /\ req[t].value \in Nat
      /\ req[t].timeActive \in Nat
  BY <1>1, RequestFields
<1>3. line \in StartRecord
  BY <1>2, StartLineIsRecord DEF TypeInv, TypeOK, uid
<1>4. ~Full => aucCount < MaxAuctions
  BY DbAssumption DEF Full, TypeInv, TypeOK, DbTypeOK
<1> HIDE DEF line
<1>5. CASE \E s \in Statuses : Refuse(t, s)
  <2>1. ~AwaitAsset(t)
    BY <1>1, <1>5, ServerAssumption DEF Refuse, AwaitAsset
  <2>2. \/ UNCHANGED dbVars
        \/ ~Full /\ (create_auction_dir_fails \/ CreateFailsAndRollsBack(line))
    BY <2>1 DEF CreateNewAuction, line
  <2>3. DbTypeOK'
    BY <1>3, <1>4, <2>2, FilesUnchanged, CreateFailsKeepsFileTypes
       DEF TypeInv, TypeOK
  <2> QED
    BY <1>1, <1>5, <2>3, StatusIsReply, AnswerKeepsTypes DEF Refuse, TypeInv, TypeOK
<1>6. CASE ~ \E s \in Statuses : Refuse(t, s)
  <2>1. /\ ~Full
        /\ \E l \in {line, None} : OpenAuction(l)
        /\ AwaitAsset(t)
    BY <1>6 DEF CreateNewAuction, NewAuction, NewAuction_unwritten, line, Statuses
  <2>2. DbTypeOK' /\ aucCount' = aucCount + 1 /\ aucCount' \in AIDs
    BY <1>3, <1>4, <2>1, OpenKeepsFileTypes DEF TypeInv, TypeOK
  <2>3. /\ mutex' = t
        /\ pc' = [pc EXCEPT ![t] = "as_recv_asset_file"]
        /\ UNCHANGED <<req, info, reply>>
    BY <2>1 DEF AwaitAsset
  <2>4. TypeOK'
    BY <2>2, <2>3 DEF TypeInv, TypeOK, Steps
  <2>5. aucCount' > 0
    BY <2>2 DEF AIDs
  <2>6. ASSUME NEW x \in Threads PROVE Serves(x)' /\ Uploads(x)'
    <3>1. CASE x = t
      BY <1>1, <2>3, <2>5, <3>1
         DEF TypeInv, TypeOK, Serves, Uploads, OpsAt, AfterExists
    <3>2. CASE x # t
      BY <1>1, <2>3, <3>2, ServerAssumption DEF TypeInv, TypeOK, Serves, Uploads
    <3> QED BY <3>1, <3>2
  <2> QED BY <2>4, <2>6 DEF TypeInv
<1> QED BY <1>5, <1>6

LEMMA UploadEndKeepsTypes ==
  ASSUME TypeInv, NEW t \in Threads, AssetReceived(t) \/ AssetFails(t)
  PROVE  TypeInv'
<1>1. /\ pc[t] = "as_recv_asset_file" /\ mutex' = None
      /\ mutex = t /\ aucCount > 0
      /\ req[t] \in Request /\ req[t].op \in OpsAt("as_recv_asset_file")
  BY DEF TypeInv, Serves, Uploads, AssetReceived, AssetFails
<1>2. aucCount \in AIDs /\ aucCount - 1 \in 0..MaxAuctions
  BY <1>1, DbAssumption DEF TypeInv, TypeOK, DbTypeOK, AIDs
<1>3. req[t].uid \in Users
  BY <1>1, RequestFields DEF OpsAt
<1>4. DbTypeOK'
  <2>1. CASE AssetReceived(t)
    BY <1>1, <1>2, <1>3, <2>1
       DEF AssetReceived, HostAuction, Filled, uid, TypeInv, TypeOK, DbTypeOK
  <2>2. CASE rollback_auction_dir_creation
    BY <1>2, <2>2
       DEF rollback_auction_dir_creation, EmptyDirectory, TypeInv, TypeOK,
           DbTypeOK, userVars
  <2>3. CASE rollback_auction_dir_creation_fails
    <3>1. /\ start[aucCount] \in StartRecord \cup {None}
          /\ {asset[aucCount], Filled(asset[aucCount])} \subseteq Contents
      BY <1>2 DEF TypeInv, TypeOK, DbTypeOK, Contents, Filled
    <3> QED
      BY <1>2, <2>3, <3>1, RollbackFailsKeepsFileTypes
         DEF rollback_auction_dir_creation_fails, TypeInv, TypeOK
  <2> QED BY <2>1, <2>2, <2>3 DEF AssetFails
<1>5. PICK r \in Reply : Answer(t, r)
  <2>1. [Status("OK") EXCEPT !.active = {aucCount}] \in Reply
    BY <1>2 DEF Status, Reply, Statuses
  <2>2. Status("NOK") \in Reply
    BY StatusIsReply DEF Statuses
  <2> QED BY <2>1, <2>2 DEF AssetReceived, AssetFails
<1> QED BY <1>1, <1>4, <1>5, AnswerKeepsTypes

-----------------------------------------------------------------------------
(* Replies that list what the database holds                               *)

LEMMA ListIsReply ==
  ASSUME NEW aids \in SUBSET AIDs
  PROVE  [Status("OK") EXCEPT !.active = Active(aids), !.ended = Ended(aids)]
           \in Reply
BY DEF Status, Statuses, Reply, Active, Ended

LEMMA RecordIsReply ==
  ASSUME DbTypeOK, NEW a \in AIDs
  PROVE  [Status("OK") EXCEPT
            !.bids = get_auction_bidders_list(a),
            !.active = IF end[a] \in EndRecord THEN {} ELSE {a},
            !.ended = IF end[a] \in EndRecord THEN {a} ELSE {}] \in Reply
<1>1. get_auction_bidders_list(a) \in SUBSET BidRecord
  BY DEF get_auction_bidders_list, DbTypeOK
<1> QED BY <1>1 DEF Status, Statuses, Reply

LEMMA RepliesKeepTypes ==
  ASSUME TypeInv, NEW t \in Threads,
         \/ ShowAsset(t) \/ GetUserAuctions(t) \/ GetUserBids(t)
         \/ GetAuctionsList(t) \/ GetAuctionBiddersList(t)
  PROVE  TypeInv'
<1>1. /\ DbTypeOK' /\ aucCount' = aucCount
      /\ pc[t] \notin {"idle", "dead"} /\ mutex' = mutex
      /\ Serves(t)
      /\ req[t] \in Request /\ req[t].op \in OpsAt(pc[t])
  BY FilesUnchanged
     DEF TypeInv, TypeOK, Serves, Calls, ShowAsset, GetUserAuctions, GetUserBids,
         GetAuctionsList, GetAuctionBiddersList, AnswerList
<1>2. Status("NOK") \in Reply
  BY StatusIsReply DEF Statuses
<1>3. \E r \in Reply : Answer(t, r)
  <2>1. CASE ShowAsset(t)
    <3>1. asset[aid(t)] \in Contents
      BY <2>1, <1>1 DEF ShowAsset, Serves, AfterExists, TypeInv, TypeOK, DbTypeOK,
         Contents, aid
    <3>2. [Status("OK") EXCEPT !.asset = asset[aid(t)]] \in Reply
      BY <3>1 DEF Status, Statuses, Reply, Contents
    <3> QED BY <1>2, <2>1, <3>2 DEF ShowAsset
  <2>2. CASE GetUserAuctions(t)
    <3>1. hosted[uid(t)] \in SUBSET AIDs
      BY <1>1, <2>2, RequestFields
         DEF GetUserAuctions, Calls, OpsAt, MyOps, TypeInv, TypeOK, DbTypeOK, uid
    <3> QED BY <1>2, <2>2, <3>1, ListIsReply DEF GetUserAuctions, AnswerList
  <2>3. CASE GetUserBids(t)
    <3>1. bidded[uid(t)] \in SUBSET AIDs
      BY <1>1, <2>3, RequestFields
         DEF GetUserBids, Calls, OpsAt, MyOps, TypeInv, TypeOK, DbTypeOK, uid
    <3> QED BY <1>2, <2>3, <3>1, ListIsReply DEF GetUserBids, AnswerList
  <2>4. CASE GetAuctionsList(t)
    <3>1. dirs \in SUBSET AIDs
      BY DEF TypeInv, TypeOK, DbTypeOK
    <3> QED BY <1>2, <2>4, <3>1, ListIsReply DEF GetAuctionsList, AnswerList
  <2>5. CASE GetAuctionBiddersList(t)
    <3>1. aid(t) \in AIDs
      BY <1>1, <2>5 DEF GetAuctionBiddersList, Calls, Serves, AfterExists, aid
    <3> QED
      BY <2>5, <3>1, RecordIsReply DEF GetAuctionBiddersList, TypeInv, TypeOK
  <2> QED BY <2>1, <2>2, <2>3, <2>4, <2>5
<1> QED BY <1>1, <1>3, AnswerKeepsTypes DEF TypeInv, TypeOK

-----------------------------------------------------------------------------
LEMMA RestartKeepsTypes ==
  ASSUME TypeInv, Restart
  PROVE  TypeInv'
<1>1. IsFiniteSet(AIDs) /\ Cardinality(AIDs) = MaxAuctions
  BY DbAssumption, FS_Interval DEF AIDs
<1>2. Cardinality(dirs) \in 0..MaxAuctions
  BY <1>1, FS_Subset, FS_CardinalityType, DbAssumption DEF TypeInv, TypeOK, DbTypeOK
<1>3. DbTypeOK'
  BY <1>2 DEF Restart, load_db_state, userVars, TypeInv, TypeOK, DbTypeOK
<1>4. TypeOK'
  BY <1>3, StatusIsReply DEF Restart, TypeOK, Steps, Statuses
<1>5. \A x \in Threads : Serves(x)' /\ Uploads(x)'
  BY DEF Restart, Serves, Uploads, AfterExists
<1> QED BY <1>4, <1>5 DEF TypeInv

LEMMA TimeKeepsTypes ==
  ASSUME TypeInv, Time \/ UNCHANGED vars
  PROVE  TypeInv'
<1>1. DbTypeOK' /\ aucCount' = aucCount /\ UNCHANGED <<mutex, threadVars>>
  BY DEF Time, Tick, TypeInv, TypeOK, DbTypeOK, vars, dbVars, userVars, auctionVars
<1> QED BY <1>1 DEF TypeInv, TypeOK, Serves, Uploads, threadVars

LEMMA InitTypes == Init => TypeInv
<1> SUFFICES ASSUME Init PROVE TypeInv
  OBVIOUS
<1>1. DbTypeOK
  BY DbAssumption DEF Init, DbInit, DbTypeOK
<1>2. TypeOK
  BY <1>1, StatusIsReply DEF Init, TypeOK, Steps, Statuses
<1> QED BY <1>2 DEF Init, TypeInv, Serves, Uploads, AfterExists

LEMMA NextKeepsTypes == TypeInv /\ [Next]_vars => TypeInv'
<1> SUFFICES ASSUME TypeInv, [Next]_vars PROVE TypeInv'
  OBVIOUS
<1>1. ASSUME NEW t \in Threads, Step(t) PROVE TypeInv'
  BY <1>1, ReceiveKeepsTypes, ChecksKeepTypes, GetAuctionInfoKeepsTypes,
     UserChangesKeepTypes, UpdateKeepsTypes, BidAndCloseKeepTypes,
     CreateKeepsTypes, UploadEndKeepsTypes, RepliesKeepTypes
     DEF Step
<1> QED BY <1>1, TimeKeepsTypes, RestartKeepsTypes DEF Next

\* Every variable keeps its type, every thread serves a request that fits the
\* call it makes, and only an upload keeps the mutex: for any number of users,
\* workers and auctions, with failing calls and restarts.
THEOREM TypesCorrect == Spec => []TypeInv
<1>1. Init => TypeInv
  BY InitTypes
<1>2. TypeInv /\ [Next]_vars => TypeInv'
  BY NextKeepsTypes
<1> QED BY <1>1, <1>2, PTL DEF Spec

\* The type invariant that the runs check.
THEOREM TypeOKHolds == Spec => []TypeOK
<1>1. TypeInv => TypeOK
  BY DEF TypeInv
<1> QED BY <1>1, TypesCorrect, PTL

-----------------------------------------------------------------------------
(* What a step of one thread leaves alone                                  *)

\* The other threads stay where they are, with what they know.
Alone(t) ==
  \A x \in Threads \ {t} :
    pc'[x] = pc[x] /\ req'[x] = req[x] /\ info'[x] = info[x] /\ reply'[x] = reply[x]

\* No thread changes what another knows, unless the process ends.
LEMMA StepAlone ==
  ASSUME TypeInv, NEW t \in Threads, Step(t)
  PROVE  Dies \/ Alone(t)
<1>1. \A r : Answer(t, r) => Alone(t)
  BY DEF Answer, Alone, TypeInv, TypeOK
<1>2. \A s : Refuse(t, s) => Alone(t)
  BY <1>1 DEF Refuse
<1>3. \A f : Goto(t, f) => Alone(t)
  BY DEF Goto, Alone, TypeInv, TypeOK
<1>4. Receive(t) => Alone(t)
  BY DEF Receive, Alone, TypeInv, TypeOK
<1>5. CreateNewAuction(t) => Alone(t)
  <2>1. AwaitAsset(t) => Alone(t)
    BY DEF AwaitAsset, Alone, TypeInv, TypeOK
  <2> QED BY <1>2, <2>1 DEF CreateNewAuction
<1>6. GetAuctionInfo(t) => Dies \/ Alone(t)
  <2> SUFFICES ASSUME GetAuctionInfo(t), ~Dies, ~ \E s : Refuse(t, s)
               PROVE  Alone(t)
    BY <1>2
  <2>1. /\ UNCHANGED <<req, reply>>
        /\ \E i : info' = [info EXCEPT ![t] = i]
        /\ \E f : pc' = [pc EXCEPT ![t] = f]
    BY DEF GetAuctionInfo
  <2> QED BY <2>1 DEF Alone, TypeInv, TypeOK
<1>7. ExistsUser(t) \/ IsUserLoggedIn(t) \/ IsAuthenticUser(t)
      \/ ExistsAuction(t) \/ IsAuctionFinished(t) \/ GetLastBid(t)
        => Alone(t)
  BY <1>2, <1>3 DEF ExistsUser, IsUserLoggedIn, IsAuthenticUser, ExistsAuction,
     IsAuctionFinished, GetLastBid
<1>8. RegisterUser(t) \/ LogInUser(t) \/ LogOutUser(t) \/ UnregisterUser(t)
      \/ UpdateDatabase(t) \/ Bid(t) \/ CloseAuction(t)
        => Alone(t)
  BY <1>2, <1>3 DEF RegisterUser, LogInUser, LogOutUser, UnregisterUser,
     UpdateDatabase, Bid, CloseAuction
<1>9. AssetReceived(t) \/ AssetFails(t) \/ ShowAsset(t) \/ GetUserAuctions(t)
      \/ GetUserBids(t) \/ GetAuctionsList(t) \/ GetAuctionBiddersList(t)
        => Alone(t)
  BY <1>1 DEF AssetReceived, AssetFails, ShowAsset, GetUserAuctions, GetUserBids,
     GetAuctionsList, GetAuctionBiddersList, AnswerList
<1> QED BY <1>4, <1>5, <1>6, <1>7, <1>8, <1>9 DEF Step

\* The calls that only ask and the replies that list change no file and keep
\* the mutex as it is.
Asks(t) ==
  \/ Receive(t)
  \/ ExistsUser(t) \/ IsUserLoggedIn(t) \/ IsAuthenticUser(t)
  \/ ExistsAuction(t) \/ GetAuctionInfo(t) \/ IsAuctionFinished(t)
  \/ GetLastBid(t) \/ ShowAsset(t) \/ GetUserAuctions(t)
  \/ GetUserBids(t) \/ GetAuctionsList(t)
  \/ GetAuctionBiddersList(t)

LEMMA AsksChangeNothing ==
  ASSUME NEW t \in Threads, Asks(t)
  PROVE  UNCHANGED <<dbVars, mutex>>
<1>1. UNCHANGED dbVars
  BY DEF Asks, Receive, ExistsUser, IsUserLoggedIn, IsAuthenticUser,
         ExistsAuction, GetAuctionInfo, IsAuctionFinished, GetLastBid,
         ShowAsset, GetUserAuctions, GetUserBids, GetAuctionsList,
         GetAuctionBiddersList
<1>2. UNCHANGED mutex
  BY DEF Asks, Receive, ExistsUser, IsUserLoggedIn, IsAuthenticUser,
         ExistsAuction, GetAuctionInfo, IsAuctionFinished, GetLastBid,
         ShowAsset, GetUserAuctions, GetUserBids, GetAuctionsList,
         GetAuctionBiddersList, AnswerList, Goto, Refuse, Dies, Calls
<1> QED BY <1>1, <1>2
=============================================================================
