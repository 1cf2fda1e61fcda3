------------------------- MODULE AuctionSafetyProofs -------------------------
(***************************************************************************)
(* What the handlers of AuctionServer keep of the auctions and the bids,   *)
(* for every instance in which writes do not fail or the server is not     *)
(* restarted: with both, an AID may be given out twice (see AidUnique).    *)
(*                                                                         *)
(* A handler relies on what it checked in earlier uses of the mutex.  Two  *)
(* facts make that right for all but the last bid and the end: an auction  *)
(* that a request can find never changes its START line, and one that is   *)
(* still being uploaded is found by no request.                            *)
(***************************************************************************)
EXTENDS AuctionServerProofs

\* Auctions that exists_auction finds: all but the one that is being uploaded
Published(a) == a \in 1..aucCount /\ (mutex # None => a # aucCount)

\* get_last_bid has something to return.
HasHighest(a) ==
  \/ bids[a] = {}
  \/ \E b \in bids[a] : \A c \in bids[a] : c.value <= b.value

\* What is true of the directories as long as no write fails: they are numbered
\* without a gap, and no file in them is older than they are.
Whole ==
  /\ dirs = 1..aucCount
  /\ HostedComplete
  /\ \A a \in AIDs : asset[a] # "mixed" /\ (a \notin dirs => asset[a] = None)

FilesSafe ==
  /\ \A a \in AIDs : ~Published(a) => bids[a] = {}
  /\ \A a \in AIDs : HasHighest(a)
  /\ \A u \in Users : \A a \in hosted[u] : Published(a)
  /\ ~FsErrors => Whole
  /\ HostedOwned
  /\ BidsLawful

\* A thread that uploads an asset has written the START line of its user, or its
\* line is lost.
Pending(t) ==
  pc[t] = "as_recv_asset_file" =>
    /\ start[aucCount] # None => start[aucCount].uid = uid(t)
    /\ ~FsErrors => start[aucCount] # None
    /\ aucCount \in dirs

BidSteps == {"get_auction_info", "is_auction_finished", "get_last_bid", "bid"}

\* What a thread that serves BID has found out, and what is still true
Bidding(t) ==
  pc[t] \in BidSteps /\ op(t) = "BID" =>
    /\ Published(aid(t))
    /\ pc[t] # "get_auction_info" =>
         /\ info[t] = start[aid(t)] /\ info[t] # None
         /\ info[t].uid # uid(t)
    /\ pc[t] = "bid" => req[t].value > info[t].value

Safe == FilesSafe /\ \A t \in Threads : Pending(t) /\ Bidding(t)

SafeInv == TypeInv /\ Safe

-----------------------------------------------------------------------------
\* No step takes an auction from the requests that have found it, nor changes
\* its START line.
StartsKept ==
  \A a \in AIDs : Published(a) => Published(a)' /\ start'[a] = start[a]

\* The files that Safe is about stay as they are.
Quiet == UNCHANGED <<hosted, aucCount, dirs, start, bids, asset, mutex>>

LEMMA QuietIsSafe ==
  ASSUME Safe, Quiet
  PROVE  FilesSafe' /\ StartsKept
BY DEF Safe, FilesSafe, Whole, Quiet, StartsKept, Published, HasHighest,
       HostedComplete, HostedOwned, BidsLawful

\* What the other threads know survives a step of thread t.
LEMMA OthersStaySafe ==
  ASSUME SafeInv, StartsKept, NEW t \in Threads, NEW x \in Threads, x # t,
         pc'[x] = pc[x], req'[x] = req[x], info'[x] = info[x],
         \/ mutex = None
         \/ mutex = t
         \/ UNCHANGED <<aucCount, dirs, start>>
  PROVE  Pending(x)' /\ Bidding(x)'
<1>1. Pending(x)'
  BY ServerAssumption DEF SafeInv, Safe, TypeInv, Uploads, Pending, uid
<1>2. Bidding(x)'
  <2> SUFFICES ASSUME pc[x] \in BidSteps, op(x) = "BID"
               PROVE  Bidding(x)'
    BY DEF Bidding, op
  <2>1. aid(x) \in AIDs
    BY DEF SafeInv, TypeInv, Serves, AfterExists, BidSteps, aid
  <2>2. Published(aid(x)) /\ Published(aid(x))' /\ start'[aid(x)] = start[aid(x)]
    BY <2>1 DEF SafeInv, Safe, Bidding, StartsKept, aid
  <2> QED BY <2>2 DEF SafeInv, Safe, Bidding, aid, uid, op
<1> QED BY <1>1, <1>2

LEMMA AnswerStaysSafe ==
  ASSUME SafeInv, TypeInv', FilesSafe', StartsKept,
         NEW t \in Threads, NEW r, Answer(t, r),
         \/ mutex = None
         \/ mutex = t
         \/ UNCHANGED <<aucCount, dirs, start>>
  PROVE  SafeInv'
<1>1. ASSUME NEW x \in Threads PROVE Pending(x)' /\ Bidding(x)'
  <2>1. CASE x = t
    BY <2>1 DEF Answer, Pending, Bidding, BidSteps, SafeInv, TypeInv, TypeOK
  <2>2. CASE x # t
    BY <2>2, OthersStaySafe DEF Answer, SafeInv, TypeInv, TypeOK
  <2> QED BY <2>1, <2>2
<1> QED BY <1>1 DEF SafeInv, Safe

LEMMA GotoStaysSafe ==
  ASSUME SafeInv, TypeInv', Quiet, NEW t \in Threads,
         NEW s, s # "as_recv_asset_file", Goto(t, s), Bidding(t)'
  PROVE  SafeInv'
<1>1. FilesSafe' /\ StartsKept
  BY QuietIsSafe DEF SafeInv
<1>2. ASSUME NEW x \in Threads PROVE Pending(x)' /\ Bidding(x)'
  <2>1. CASE x = t
    BY <2>1 DEF Goto, Pending, SafeInv, TypeInv, TypeOK
  <2>2. CASE x # t
    BY <1>1, <2>2, OthersStaySafe DEF Goto, Quiet, SafeInv, TypeInv, TypeOK
  <2> QED BY <2>1, <2>2
<1> QED BY <1>1, <1>2 DEF SafeInv, Safe

-----------------------------------------------------------------------------
(* Steps that leave those files alone                                      *)

LEMMA ReceiveStaysSafe ==
  ASSUME SafeInv, TypeInv', NEW t \in Threads, Receive(t)
  PROVE  SafeInv'
<1>1. FilesSafe' /\ StartsKept /\ Quiet
  BY QuietIsSafe
     DEF SafeInv, Receive, Quiet, dbVars, userVars, auctionVars
<1>2. PICK r \in Requests :
        /\ req' = [req EXCEPT ![t] = r]
        /\ pc' = [pc EXCEPT ![t] = FirstStep(r.op)]
  BY DEF Receive
<1>3. FirstStep(r.op) \in {"exists_user", "update_database", "exists_auction"}
  BY DEF FirstStep
<1>4. ASSUME NEW x \in Threads PROVE Pending(x)' /\ Bidding(x)'
  <2>1. CASE x = t
    BY <1>2, <1>3, <2>1
       DEF Pending, Bidding, BidSteps, SafeInv, TypeInv, TypeOK
  <2>2. CASE x # t
    BY <1>1, <1>2, <2>2, OthersStaySafe
       DEF Receive, Quiet, SafeInv, TypeInv, TypeOK
  <2> QED BY <2>1, <2>2
<1> QED BY <1>1, <1>4 DEF SafeInv, Safe

\* Each check of BID adds to what its handler knows.
LEMMA ChecksStaySafe ==
  ASSUME SafeInv, TypeInv', NEW t \in Threads,
         \/ ExistsUser(t) \/ IsUserLoggedIn(t) \/ IsAuthenticUser(t)
         \/ ExistsAuction(t) \/ IsAuctionFinished(t) \/ GetLastBid(t)
  PROVE  SafeInv'
<1>1. /\ mutex = None /\ UNCHANGED dbVars
      /\ pc[t] \notin {"idle", "dead"}
      /\ Serves(t) /\ req[t] \in Request /\ req[t].op \in OpsAt(pc[t])
  BY DEF SafeInv, TypeInv, Serves, Calls, ExistsUser, IsUserLoggedIn,
         IsAuthenticUser, ExistsAuction, IsAuctionFinished, GetLastBid
<1>2. \/ \E s \in Statuses : Refuse(t, s)
      \/ \E s \in Steps \ {"as_recv_asset_file"} : Goto(t, s) /\ Bidding(t)'
  <2>1. CASE ExistsUser(t)
    BY <1>1, <2>1
       DEF ExistsUser, Calls, Goto, op, OpsAt, Statuses, Steps, Bidding, BidSteps,
           SafeInv, TypeInv, TypeOK, UserOps, MyOps
  <2>2. CASE IsUserLoggedIn(t)
    BY <1>1, <2>2
       DEF IsUserLoggedIn, Calls, Goto, op, OpsAt, Statuses, Steps, Bidding,
           BidSteps, SafeInv, TypeInv, TypeOK, UserOps, MyOps
  <2>3. CASE IsAuthenticUser(t)
    BY <1>1, <2>3
       DEF IsAuthenticUser, Calls, Goto, op, OpsAt, Statuses, Steps, Bidding,
           BidSteps, SafeInv, TypeInv, TypeOK, UserOps, MyOps
  <2>4. CASE ExistsAuction(t)
    <3>1. CASE ~exists_auction(aid(t))
      BY <1>1, <2>4, <3>1
         DEF ExistsAuction, Calls, op, OpsAt, Statuses
    <3>2. CASE exists_auction(aid(t))
      <4>1. aid(t) \in Int
        BY <1>1, <2>4, RequestFields DEF ExistsAuction, Calls, OpsAt, aid
      <4>2. Published(aid(t))
        BY <1>1, <3>2, <4>1 DEF Published, exists_auction, SafeInv, TypeInv, TypeOK, DbTypeOK
      <4>3. PICK s \in {"update_database", "get_auction_info"} : Goto(t, s)
        BY <2>4, <3>2 DEF ExistsAuction
      <4>4. Published(aid(t))'
        BY <1>1, <4>2, <4>3
           DEF Published, Goto, aid, dbVars, auctionVars
      <4>5. Bidding(t)'
        BY <4>3, <4>4 DEF Goto, Bidding, BidSteps, SafeInv, TypeInv, TypeOK
      <4> QED BY <4>3, <4>5 DEF Steps
    <3> QED BY <3>1, <3>2
  <2>5. CASE IsAuctionFinished(t)
    BY <1>1, <2>5
       DEF IsAuctionFinished, Calls, Goto, op, uid, aid, OpsAt, Statuses, Steps,
           Bidding, BidSteps, SafeInv, Safe, TypeInv, TypeOK, Published, dbVars,
           auctionVars
  <2>6. CASE GetLastBid(t)
    <3>1. /\ pc[t] = "get_last_bid" /\ op(t) = "BID"
          /\ aid(t) \in AIDs /\ req[t].value \in Nat
      BY <1>1, <2>6, RequestFields
         DEF GetLastBid, Calls, OpsAt, op, aid, Serves, AfterExists
    <3>2. /\ Published(aid(t)) /\ info[t] = start[aid(t)] /\ info[t] # None
          /\ info[t].uid # uid(t) /\ info[t].value \in Nat
      BY <3>1
         DEF SafeInv, Safe, Bidding, BidSteps, TypeInv, TypeOK, StartRecord
    <3>3. Bar(t) \in Nat /\ Bar(t) >= info[t].value
      <4>1. CASE bids[aid(t)] = {}
        BY <3>2, <4>1 DEF Bar, get_last_bid
      <4>2. CASE bids[aid(t)] # {}
        <5>1. PICK b \in bids[aid(t)] : get_last_bid(aid(t)) = b.value
          BY <3>1, <4>2 DEF SafeInv, Safe, FilesSafe, HasHighest, get_last_bid
        <5>2. b.value > start[aid(t)].value /\ b.value \in Nat
          BY <3>1, <5>1
             DEF SafeInv, Safe, FilesSafe, BidsLawful, TypeInv, TypeOK, DbTypeOK,
                 BidRecord
        <5> QED BY <3>2, <5>1, <5>2 DEF Bar
      <4> QED BY <4>1, <4>2
    <3>4. CASE req[t].value <= Bar(t)
      BY <2>6, <3>4 DEF GetLastBid, Statuses
    <3>5. CASE ~(req[t].value <= Bar(t))
      <4>1. Goto(t, "bid") /\ req[t].value > info[t].value
        BY <2>6, <3>1, <3>2, <3>3, <3>5 DEF GetLastBid
      <4>2. Bidding(t)'
        BY <1>1, <3>2, <4>1
           DEF Goto, Bidding, Published, op, uid, aid, SafeInv, TypeInv, TypeOK,
               dbVars, auctionVars
      <4> QED BY <4>1, <4>2 DEF Steps
    <3> QED BY <3>4, <3>5
  <2> QED BY <2>1, <2>2, <2>3, <2>4, <2>5, <2>6
<1>3. CASE \E s \in Statuses : Refuse(t, s)
  <2>1. FilesSafe' /\ StartsKept
    BY <1>1, <1>3, QuietIsSafe
       DEF SafeInv, Refuse, Quiet, dbVars, userVars, auctionVars
  <2> QED BY <1>1, <1>3, <2>1, AnswerStaysSafe DEF Refuse
<1>4. CASE ~ \E s \in Statuses : Refuse(t, s)
  <2>1. PICK s \in Steps \ {"as_recv_asset_file"} : Goto(t, s) /\ Bidding(t)'
    BY <1>2, <1>4
  <2>2. Quiet
    BY <1>1, <2>1 DEF Quiet, Goto, dbVars, userVars, auctionVars
  <2> QED BY <2>1, <2>2, GotoStaysSafe
<1> QED BY <1>3, <1>4

LEMMA GetAuctionInfoStaysSafe ==
  ASSUME SafeInv, TypeInv', NEW t \in Threads, GetAuctionInfo(t)
  PROVE  SafeInv'
<1>1. /\ mutex = None /\ mutex' = None /\ UNCHANGED dbVars
      /\ pc[t] = "get_auction_info"
      /\ req[t] \in Request /\ req[t].op \in OpsAt("get_auction_info")
  BY DEF SafeInv, TypeInv, Serves, Calls, GetAuctionInfo, Dies, Refuse, Answer
<1>2. FilesSafe' /\ StartsKept /\ Quiet
  BY <1>1, QuietIsSafe DEF SafeInv, Quiet, dbVars, userVars, auctionVars
<1>3. CASE \E s \in Statuses : Refuse(t, s)
  BY <1>1, <1>2, <1>3, AnswerStaysSafe DEF Refuse
<1>4. CASE Dies
  BY <1>2, <1>4 DEF Dies, Pending, Bidding, BidSteps, SafeInv, Safe
<1>5. CASE ~Dies /\ ~ \E s \in Statuses : Refuse(t, s)
  <2>1. PICK s \in {"show_asset", "get_auction_bidders_list",
                    "is_auction_finished"} :
          /\ start[aid(t)] # None
          /\ op(t) = "BID" => start[aid(t)].uid # uid(t)
          /\ info' = [info EXCEPT ![t] = start[aid(t)]]
          /\ pc' = [pc EXCEPT ![t] = s]
          /\ UNCHANGED <<mutex, req, reply>>
    BY <1>1, <1>5 DEF GetAuctionInfo, op, OpsAt, Statuses
  <2>2. ASSUME NEW x \in Threads PROVE Pending(x)' /\ Bidding(x)'
    <3>1. CASE x = t
      <4>1. op(t) = "BID" => Published(aid(t))
        BY <1>1 DEF SafeInv, Safe, Bidding, BidSteps
      <4> QED
        BY <1>1, <2>1, <3>1, <4>1
           DEF Pending, Bidding, BidSteps, Published, op, uid, aid, SafeInv,
               TypeInv, TypeOK, dbVars, auctionVars
    <3>2. CASE x # t
      BY <1>1, <1>2, <2>1, <3>2, OthersStaySafe DEF SafeInv, TypeInv, TypeOK
    <3> QED BY <3>1, <3>2
  <2> QED BY <1>2, <2>2 DEF SafeInv, Safe
<1> QED BY <1>3, <1>4, <1>5

\* Users come and go, auctions are closed and lists are sent.
LEMMA RepliesStaySafe ==
  ASSUME SafeInv, TypeInv', NEW t \in Threads,
         \/ RegisterUser(t) \/ LogInUser(t) \/ LogOutUser(t) \/ UnregisterUser(t)
         \/ CloseAuction(t)
         \/ ShowAsset(t) \/ GetUserAuctions(t) \/ GetUserBids(t)
         \/ GetAuctionsList(t) \/ GetAuctionBiddersList(t)
  PROVE  SafeInv'
<1>1. Quiet
  BY DEF Quiet, RegisterUser, LogInUser, LogOutUser, UnregisterUser,
         CloseAuction, ShowAsset, GetUserAuctions, GetUserBids,
         GetAuctionsList, GetAuctionBiddersList, AnswerList, Refuse,
         log_in_user, log_out_user, register_user, register_user_fails,
         unregister_user, unregister_user_fails, close_auction,
         close_auction_unwritten, close_auction_fails, dbVars, userVars,
         auctionVars
<1>2. \E r : Answer(t, r)
  BY DEF RegisterUser, LogInUser, LogOutUser, UnregisterUser, CloseAuction,
         ShowAsset, GetUserAuctions, GetUserBids, GetAuctionsList,
         GetAuctionBiddersList, AnswerList, Refuse
<1>3. FilesSafe' /\ StartsKept
  BY <1>1, QuietIsSafe DEF SafeInv
<1> QED BY <1>1, <1>2, <1>3, AnswerStaysSafe DEF Quiet

LEMMA UpdateStaysSafe ==
  ASSUME SafeInv, TypeInv', NEW t \in Threads, UpdateDatabase(t)
  PROVE  SafeInv'
<1>1. Quiet
  BY DEF UpdateDatabase, update_database, Goto, Quiet, userVars
<1>2. req[t].op \in OpsAt("update_database")
  BY DEF SafeInv, TypeInv, Serves, UpdateDatabase, Calls
<1>3. PICK s \in {"exists_user", "get_user_auctions", "get_user_bids",
                  "get_auctions_list", "get_auction_info"} :
        Goto(t, s) /\ (s = "get_auction_info" => op(t) = "SRC")
  BY <1>2 DEF UpdateDatabase, op, OpsAt
<1>4. Bidding(t)'
  BY <1>3 DEF Goto, Bidding, BidSteps, op, SafeInv, TypeInv, TypeOK
<1> QED BY <1>1, <1>3, <1>4, GotoStaysSafe

-----------------------------------------------------------------------------
(* Bids                                                                    *)

\* A bid above the start value, of someone else than the owner
LEMMA BidFileIsSafe ==
  ASSUME DbTypeOK, FilesSafe, NEW a \in AIDs, NEW w \in Users \cup {Blank},
         NEW v \in Nat, BidFile(a, v, w), Published(a),
         start[a] # None, v > start[a].value, w # start[a].uid,
         UNCHANGED <<hosted, aucCount, dirs, start, asset, mutex>>
  PROVE  FilesSafe' /\ StartsKept
<1> DEFINE new == [value |-> v, uid |-> w, time |-> now]
<1>1. /\ bids'[a] = {b \in bids[a] : b.value # v} \cup {new}
      /\ \A c \in AIDs \ {a} : bids'[c] = bids[c]
  BY DEF BidFile, DbTypeOK
<1>2. BidsLawful'
  BY <1>1 DEF FilesSafe, BidsLawful
<1>3. HasHighest(a)'
  <2>1. \A c \in bids[a] : c.value \in Nat
    BY DEF DbTypeOK, BidRecord
  <2>2. CASE \A c \in bids[a] : c.value <= v
    <3>1. \A c \in bids'[a] : c.value <= new.value
      BY <1>1, <2>2
    <3> QED BY <1>1, <3>1 DEF HasHighest
  <2>3. CASE \E c \in bids[a] : c.value > v
    <3>1. PICK b \in bids[a] : \A c \in bids[a] : c.value <= b.value
      BY <2>3 DEF FilesSafe, HasHighest
    <3>2. b.value > v
      BY <2>1, <2>3, <3>1
    <3> QED BY <1>1, <2>1, <3>1, <3>2 DEF HasHighest
  <2> QED BY <2>1, <2>2, <2>3
<1>4. \A c \in AIDs : HasHighest(c)'
  <2> SUFFICES ASSUME NEW c \in AIDs \ {a} PROVE HasHighest(c)'
    BY <1>3
  <2>1. HasHighest(c)
    BY DEF FilesSafe
  <2> QED BY <1>1, <2>1 DEF HasHighest
<1>5. \A c \in AIDs : ~Published(c)' => bids'[c] = {}
  BY <1>1 DEF FilesSafe, Published
<1>6. HostedOwned' /\ \A u \in Users : \A c \in hosted'[u] : Published(c)'
  BY DEF FilesSafe, HostedOwned, Published
<1>7. ~FsErrors => Whole'
  BY DEF FilesSafe, Whole, HostedComplete
<1> QED BY <1>2, <1>4, <1>5, <1>6, <1>7 DEF FilesSafe, StartsKept, Published

LEMMA BidStaysSafe ==
  ASSUME SafeInv, TypeInv', NEW t \in Threads, Bid(t)
  PROVE  SafeInv'
<1>1. /\ pc[t] = "bid" /\ mutex = None /\ mutex' = mutex
      /\ \E s \in Statuses : Refuse(t, s)
  BY DEF Bid, Calls, Refuse, Statuses
<1>2. /\ op(t) = "BID" /\ aid(t) \in AIDs /\ uid(t) \in Users
      /\ req[t].value \in Nat
  BY <1>1, RequestFields
     DEF SafeInv, TypeInv, Serves, OpsAt, AfterExists, op, aid, uid
<1>3. /\ Published(aid(t)) /\ start[aid(t)] # None
      /\ start[aid(t)].uid # uid(t) /\ req[t].value > start[aid(t)].value
      /\ start[aid(t)].uid # Blank
  <2>1. start[aid(t)] # None /\ info[t] = start[aid(t)]
    BY <1>1, <1>2 DEF SafeInv, Safe, Bidding, BidSteps
  <2>2. start[aid(t)].uid \in Users
    BY <1>2, <2>1 DEF SafeInv, TypeInv, TypeOK, DbTypeOK, StartRecord
  <2> QED
    BY <1>1, <1>2, <2>1, <2>2, DbAssumption
       DEF SafeInv, Safe, Bidding, BidSteps
<1>4. UNCHANGED <<hosted, aucCount, dirs, start, asset, mutex>>
  BY <1>1 DEF Bid, bid, bid_unwritten, bid_fails, userVars
<1>5. FilesSafe' /\ StartsKept
  <2>1. CASE UNCHANGED bids
    BY <1>4, <2>1, QuietIsSafe DEF SafeInv, Quiet
  <2>2. CASE \E w \in {uid(t), Blank} : BidFile(aid(t), req[t].value, w)
    BY <1>2, <1>3, <1>4, <2>2, BidFileIsSafe
       DEF SafeInv, Safe, TypeInv, TypeOK
  <2> QED BY <2>1, <2>2 DEF Bid, bid, bid_unwritten, bid_fails
<1> QED BY <1>1, <1>5, AnswerStaysSafe DEF Refuse

-----------------------------------------------------------------------------
(* Auctions are created, kept or rolled back, all beyond the published.    *)

\* A step that changes the files of one auction that no request finds yet
LEMMA BeyondIsSafe ==
  ASSUME DbTypeOK, FilesSafe, NEW a \in AIDs, ~Published(a),
         \A c \in AIDs \ {a} :
           /\ start'[c] = start[c] /\ asset'[c] = asset[c] /\ bids'[c] = bids[c]
           /\ c \in dirs => c \in dirs',
         bids'[a] = {}, hosted' = hosted,
         \A c \in AIDs : Published(c) => Published(c)',
         ~FsErrors => Whole'
  PROVE  FilesSafe' /\ StartsKept
<1>1. \A c \in AIDs : Published(c) => c # a /\ c <= aucCount'
  BY DEF Published
<1>2. \A c \in AIDs : ~Published(c)' => bids'[c] = {}
  BY DEF FilesSafe
<1>3. \A c \in AIDs : HasHighest(c)'
  BY DEF FilesSafe, HasHighest
<1>4. \A u \in Users : \A c \in hosted[u] : c \in AIDs /\ Published(c)
  BY DEF FilesSafe, DbTypeOK
<1>5. HostedOwned'
  BY <1>1, <1>4 DEF FilesSafe, HostedOwned
<1>6. BidsLawful'
  BY DEF FilesSafe, BidsLawful
<1>7. \A u \in Users : \A c \in hosted'[u] : Published(c)'
  BY <1>4
<1>8. StartsKept
  BY <1>1 DEF StartsKept
<1> QED BY <1>2, <1>3, <1>5, <1>6, <1>7, <1>8 DEF FilesSafe

LEMMA OpenIsSafe ==
  ASSUME DbTypeOK, FilesSafe, mutex = None, mutex' # None,
         aucCount + 1 \in AIDs, NEW line, OpenAuction(line)
  PROVE  FilesSafe' /\ StartsKept
<1> DEFINE a == aucCount + 1
<1>1. /\ aucCount \in Nat /\ aucCount' = a /\ dirs' = dirs \cup {a}
      /\ start' = [start EXCEPT ![a] = line]
      /\ UNCHANGED <<hosted, bids>>
  BY DEF OpenAuction, userVars, DbTypeOK
<1>2. PICK file \in Opened(asset[a]) : asset' = [asset EXCEPT ![a] = file]
  BY DEF OpenAuction
<1>3. /\ ~Published(a)
      /\ \A c \in AIDs : Published(c) => Published(c)'
  BY <1>1 DEF Published
<1>4. ASSUME ~FsErrors PROVE Whole'
  <2>1. a \notin dirs /\ asset[a] = None
    BY <1>1, <1>4 DEF FilesSafe, Whole
  <2>2. asset' = [asset EXCEPT ![a] = "part"]
    BY <1>2, <2>1 DEF Opened
  <2>3. dirs' = 1..aucCount'
    BY <1>1, <1>4 DEF FilesSafe, Whole
  <2>4. HostedComplete'
    <3> SUFFICES ASSUME NEW u \in Users, NEW c \in hosted[u]
                 PROVE  /\ start'[c] # None /\ start'[c].uid = u
                        /\ asset'[c] = "whole" /\ c \in dirs' /\ c <= aucCount'
      BY <1>1 DEF HostedComplete
    <3>1. /\ c \in AIDs /\ c # a
          /\ start[c] # None /\ start[c].uid = u /\ asset[c] = "whole"
          /\ c \in dirs /\ c <= aucCount
      BY <1>1, <1>3, <1>4 DEF FilesSafe, Whole, HostedComplete, DbTypeOK
    <3>2. c <= aucCount'
      BY <1>1, <2>3, <3>1
    <3> QED BY <1>1, <2>2, <3>1, <3>2 DEF DbTypeOK
  <2>5. \A c \in AIDs : asset'[c] # "mixed" /\ (c \notin dirs' => asset'[c] = None)
    BY <1>1, <1>4, <2>2 DEF FilesSafe, Whole, DbTypeOK
  <2> QED BY <2>3, <2>4, <2>5 DEF Whole
<1>5. /\ bids'[a] = {}
      /\ \A c \in AIDs \ {a} :
           /\ start'[c] = start[c] /\ asset'[c] = asset[c] /\ bids'[c] = bids[c]
           /\ c \in dirs => c \in dirs'
  BY <1>1, <1>2, <1>3 DEF FilesSafe, DbTypeOK
<1> QED BY <1>1, <1>3, <1>4, <1>5, BeyondIsSafe

\* What is left of an auction that could not be rolled back is found by requests
\* from then on or overwritten by the next one, and nobody has bid on it.
LEMMA RollbackFailsIsSafe ==
  ASSUME DbTypeOK, FilesSafe, FsErrors, NEW a \in AIDs, NEW line, NEW file,
         \A c \in AIDs : Published(c) <=> c < a,
         RollbackFails(a, line, file), mutex' = None
  PROVE  FilesSafe' /\ StartsKept
<1>1. a \in Nat /\ ~Published(a) /\ bids[a] = {}
  BY DEF AIDs, FilesSafe
<1>2. aucCount' \in {a, a - 1} /\ dirs' = dirs \cup {a} /\ hosted' = hosted
  BY DEF RollbackFails, userVars
<1>3. \A c \in AIDs : Published(c) => Published(c)'
  <2>1. \A c, n \in Nat : c > 0 /\ c < a /\ n \in {a, a - 1} => c \in 1..n
    BY <1>1
  <2>2. \A c \in AIDs : c \in Nat /\ c > 0
    BY DEF AIDs
  <2>3. aucCount' \in Nat
    BY <1>1, <1>2 DEF AIDs
  <2> QED BY <1>2, <2>1, <2>2, <2>3 DEF Published
<1>4. \A c \in AIDs \ {a} :
        /\ start'[c] = start[c] /\ asset'[c] = asset[c] /\ bids'[c] = bids[c]
        /\ c \in dirs => c \in dirs'
  BY <1>2 DEF RollbackFails, DbTypeOK
<1>5. bids'[a] = {}
  BY <1>1 DEF RollbackFails, DbTypeOK
<1> QED BY <1>1, <1>2, <1>3, <1>4, <1>5, BeyondIsSafe

LEMMA CreateStaysSafe ==
  ASSUME SafeInv, TypeInv', NEW t \in Threads, CreateNewAuction(t)
  PROVE  SafeInv'
<1> DEFINE line == StartLine(uid(t), req[t].value, req[t].timeActive)
<1>1. mutex = None /\ pc[t] = "create_new_auction" /\ aucCount \in Nat
  BY DEF CreateNewAuction, Calls, SafeInv, TypeInv, TypeOK, DbTypeOK
<1>2. FilesSafe /\ DbTypeOK
  BY DEF SafeInv, Safe, TypeInv, TypeOK
<1>3. CASE UNCHANGED dbVars /\ Refuse(t, "NOK")
  BY <1>1, <1>3, QuietIsSafe, AnswerStaysSafe
     DEF SafeInv, Refuse, Quiet, dbVars, userVars, auctionVars
<1>4. ~Full => aucCount + 1 \in AIDs
  BY <1>1, DbAssumption DEF Full, AIDs
<1>5. \A c \in AIDs : Published(c) <=> c < aucCount + 1
  BY <1>1 DEF Published, AIDs
<1>6. CASE FsErrors /\ ~Full /\ create_auction_dir_fails /\ Refuse(t, "NOK")
  <2>1. /\ UNCHANGED <<hosted, start, bids, asset, mutex>>
        /\ aucCount' = aucCount + 1 /\ dirs \subseteq dirs'
    BY <1>6 DEF create_auction_dir_fails, Refuse, userVars
  <2>2. \A c \in AIDs : Published(c) => Published(c)'
    BY <1>1, <2>1 DEF Published
  <2>3. bids'[aucCount + 1] = {} /\ ~Published(aucCount + 1)
    BY <1>2, <1>4, <1>5, <1>6, <2>1 DEF FilesSafe
  <2>4. FilesSafe' /\ StartsKept
    BY <1>2, <1>4, <1>6, <2>1, <2>2, <2>3, BeyondIsSafe
  <2> QED BY <1>1, <1>6, <2>4, AnswerStaysSafe DEF Refuse
<1>7. CASE FsErrors /\ ~Full /\ CreateFailsAndRollsBack(line) /\ Refuse(t, "NOK")
  <2>1. mutex' = None
    BY <1>1, <1>7 DEF Refuse
  <2>2. CASE EmptyDirectory(aucCount + 1) /\ UNCHANGED <<userVars, aucCount, now>>
    <3>1. /\ hosted' = hosted /\ ~Published(aucCount + 1)
          /\ \A c \in AIDs : Published(c) => Published(c)'
      BY <1>1, <1>4, <1>5, <1>7, <2>1, <2>2 DEF Published, userVars
    <3>2. /\ bids'[aucCount + 1] = {}
          /\ \A c \in AIDs \ {aucCount + 1} :
               /\ start'[c] = start[c] /\ asset'[c] = asset[c]
               /\ bids'[c] = bids[c]
               /\ c \in dirs => c \in dirs'
      BY <1>2, <1>4, <1>7, <2>2 DEF EmptyDirectory, DbTypeOK
    <3>3. FilesSafe' /\ StartsKept
      BY <1>2, <1>4, <1>7, <3>1, <3>2, BeyondIsSafe
    <3> QED BY <1>1, <1>7, <3>3, AnswerStaysSafe DEF Refuse
  <2>3. CASE \E l \in {line, None, start[aucCount + 1]} :
               RollbackFails(aucCount + 1, l, asset[aucCount + 1])
    <3>1. FilesSafe' /\ StartsKept
      BY <1>2, <1>4, <1>5, <1>7, <2>1, <2>3, RollbackFailsIsSafe
    <3> QED BY <1>1, <1>7, <3>1, AnswerStaysSafe DEF Refuse
  <2> QED BY <1>7, <2>2, <2>3 DEF CreateFailsAndRollsBack
<1>8. CASE /\ ~Full
           /\ OpenAuction(line) \/ (FsErrors /\ OpenAuction(None))
           /\ AwaitAsset(t)
  <2>1. aucCount + 1 \in AIDs /\ uid(t) \in Users /\ line # None
    <3>1. req[t] \in Request /\ req[t].op = "OPA"
      BY <1>1 DEF SafeInv, TypeInv, Serves, OpsAt
    <3>2. line \in StartRecord
      BY <1>2, <3>1, RequestFields, StartLineIsRecord DEF uid
    <3> QED BY <1>4, <1>8, <3>1, <3>2, RequestFields, DbAssumption DEF uid
  <2>2. PICK l \in {line, None} : OpenAuction(l) /\ (~FsErrors => l = line)
    BY <1>8
  <2>3. /\ start'[aucCount'] = l /\ aucCount' \in dirs'
        /\ l # None => l.uid = uid(t)
        /\ ~FsErrors => l # None
    <3>1. line.uid = uid(t)
      BY DEF StartLine
    <3> HIDE DEF line
    <3> QED BY <1>2, <2>1, <2>2, <3>1 DEF OpenAuction, DbTypeOK
  <2>4. mutex' # None
    BY <1>8, ServerAssumption DEF AwaitAsset
  <2>5. FilesSafe' /\ StartsKept
    BY <1>1, <1>2, <2>1, <2>2, <2>4, OpenIsSafe
  <2> HIDE DEF line
  <2>6. ASSUME NEW x \in Threads PROVE Pending(x)' /\ Bidding(x)'
    <3>1. CASE x = t
      BY <1>8, <2>3, <3>1
         DEF AwaitAsset, Pending, Bidding, BidSteps, uid, SafeInv, TypeInv, TypeOK
    <3>2. CASE x # t
      BY <1>1, <1>8, <2>5, <3>2, OthersStaySafe
         DEF AwaitAsset, SafeInv, TypeInv, TypeOK
    <3> QED BY <3>1, <3>2
  <2> QED BY <2>5, <2>6 DEF SafeInv, Safe
<1> HIDE DEF line
<1>9. \/ UNCHANGED dbVars /\ Refuse(t, "NOK")
      \/ FsErrors /\ ~Full /\ create_auction_dir_fails /\ Refuse(t, "NOK")
      \/ FsErrors /\ ~Full /\ CreateFailsAndRollsBack(line) /\ Refuse(t, "NOK")
      \/ /\ ~Full
         /\ OpenAuction(line) \/ (FsErrors /\ OpenAuction(None))
         /\ AwaitAsset(t)
  BY Zenon DEF CreateNewAuction, NewAuction, NewAuction_unwritten, line
<1> QED BY <1>3, <1>6, <1>7, <1>8, <1>9

\* What a thread that uploads knows
LEMMA Uploading ==
  ASSUME SafeInv, NEW t \in Threads, pc[t] = "as_recv_asset_file"
  PROVE  /\ mutex = t /\ mutex # None
         /\ aucCount \in AIDs /\ aucCount \in dirs
         /\ start[aucCount] # None => start[aucCount].uid = uid(t)
         /\ ~FsErrors => start[aucCount] # None
         /\ uid(t) \in Users
         /\ \A c \in AIDs : Published(c) <=> c < aucCount
<1>1. mutex = t /\ mutex # None /\ aucCount > 0
  BY ServerAssumption DEF SafeInv, TypeInv, Uploads
<1>2. aucCount \in AIDs
  BY <1>1, DbAssumption DEF SafeInv, TypeInv, TypeOK, DbTypeOK, AIDs
<1>3. uid(t) \in Users
  BY RequestFields DEF SafeInv, TypeInv, Serves, OpsAt, uid
<1>4. \A c \in AIDs : Published(c) <=> c < aucCount
  BY <1>1, <1>2 DEF Published, AIDs
<1> QED BY <1>1, <1>2, <1>3, <1>4 DEF SafeInv, Safe, Pending

LEMMA AssetReceivedStaysSafe ==
  ASSUME SafeInv, TypeInv', NEW t \in Threads, AssetReceived(t)
  PROVE  SafeInv'
<1>1. /\ mutex = t /\ mutex # None /\ mutex' = None
      /\ aucCount \in AIDs /\ aucCount \in dirs
      /\ start[aucCount] # None => start[aucCount].uid = uid(t)
      /\ ~FsErrors => start[aucCount] # None
      /\ uid(t) \in Users
      /\ \A c \in AIDs : Published(c) <=> c < aucCount
  BY Uploading DEF AssetReceived
<1>2. FilesSafe /\ DbTypeOK
  BY DEF SafeInv, Safe, TypeInv, TypeOK
<1>3. /\ hosted' = [hosted EXCEPT ![uid(t)] = @ \cup {aucCount}]
      /\ asset' = [asset EXCEPT ![aucCount] = Filled(asset[aucCount])]
      /\ UNCHANGED <<aucCount, dirs, start, bids>>
      /\ \E r : Answer(t, r)
  BY <1>1, <1>2 DEF AssetReceived, HostAuction, DbTypeOK
<1>4. \A a \in AIDs : Published(a)' <=> Published(a) \/ a = aucCount
  BY <1>1, <1>3 DEF Published, AIDs
<1>5. ASSUME NEW u \in Users, NEW a \in hosted'[u]
      PROVE  \/ a \in hosted[u] /\ a \in AIDs /\ a < aucCount /\ asset'[a] = asset[a]
             \/ a = aucCount /\ u = uid(t)
  BY <1>1, <1>2, <1>3 DEF FilesSafe, DbTypeOK
<1>6. \A u \in Users : \A a \in hosted'[u] : Published(a)'
  BY <1>1, <1>2, <1>4, <1>5 DEF FilesSafe
<1>7. HostedOwned'
  <2> SUFFICES ASSUME NEW u \in Users, NEW a \in hosted'[u]
               PROVE  /\ \A w \in Users \ {u} : a \notin hosted'[w]
                      /\ start[a] # None => start[a].uid = u
                      /\ asset'[a] \notin {None, "part"}
                      /\ a \in dirs /\ a <= aucCount
    BY <1>3 DEF HostedOwned
  <2>1. CASE a = aucCount /\ u = uid(t)
    <3>1. asset'[a] \notin {None, "part"}
      BY <1>1, <1>2, <1>3, <2>1, DbAssumption DEF DbTypeOK, Filled
    <3>2. \A w \in Users \ {u} : a \notin hosted'[w]
      BY <1>1, <1>5, <2>1 DEF AIDs
    <3> QED BY <1>1, <2>1, <3>1, <3>2 DEF AIDs
  <2>2. CASE a \in hosted[u] /\ a \in AIDs /\ a < aucCount /\ asset'[a] = asset[a]
    <3>1. /\ \A w \in Users \ {u} : a \notin hosted[w]
          /\ start[a] # None => start[a].uid = u
          /\ asset[a] \notin {None, "part"}
          /\ a \in dirs /\ a <= aucCount
      BY <1>2, <2>2 DEF FilesSafe, HostedOwned
    <3>2. \A w \in Users \ {u} : a \notin hosted'[w]
      BY <1>1, <1>5, <2>2, <3>1 DEF AIDs
    <3> QED BY <2>2, <3>1, <3>2
  <2> QED BY <1>5, <2>1, <2>2
<1>8. ASSUME ~FsErrors PROVE Whole'
  <2>1. asset'[aucCount] = "whole" /\ \A a \in AIDs : asset'[a] # "mixed"
    BY <1>1, <1>2, <1>3, <1>8 DEF FilesSafe, Whole, DbTypeOK, Filled
  <2>2. HostedComplete'
    BY <1>1, <1>2, <1>3, <1>5, <1>8, <2>1
       DEF FilesSafe, Whole, HostedComplete, AIDs
  <2>3. \A a \in AIDs : a \notin dirs' => asset'[a] = None
    BY <1>1, <1>2, <1>3, <1>8 DEF FilesSafe, Whole, DbTypeOK
  <2> QED BY <1>2, <1>3, <1>8, <2>1, <2>2, <2>3 DEF FilesSafe, Whole
<1>9. FilesSafe' /\ StartsKept
  BY <1>2, <1>3, <1>4, <1>6, <1>7, <1>8
     DEF FilesSafe, StartsKept, HasHighest, BidsLawful
<1> QED BY <1>1, <1>3, <1>9, AnswerStaysSafe

LEMMA AssetFailsStaysSafe ==
  ASSUME SafeInv, TypeInv', NEW t \in Threads, AssetFails(t)
  PROVE  SafeInv'
<1>1. /\ mutex = t /\ mutex # None /\ mutex' = None
      /\ aucCount \in AIDs /\ aucCount \in Nat
      /\ \A c \in AIDs : Published(c) <=> c < aucCount
      /\ ~Published(aucCount)
  BY Uploading DEF AssetFails, AIDs
<1>2. FilesSafe /\ DbTypeOK
  BY DEF SafeInv, Safe, TypeInv, TypeOK
<1>3. CASE FsErrors /\ rollback_auction_dir_creation_fails
  BY <1>1, <1>2, <1>3, RollbackFailsIsSafe, AnswerStaysSafe
     DEF AssetFails, rollback_auction_dir_creation_fails
<1>4. CASE rollback_auction_dir_creation
  <2>1. /\ EmptyDirectory(aucCount)
        /\ aucCount' = aucCount - 1
        /\ hosted' = hosted
    BY <1>4 DEF rollback_auction_dir_creation, userVars
  <2>2. \A a \in AIDs : Published(a) => Published(a)'
    BY <1>1, <2>1 DEF Published, AIDs
  <2>3. \A a \in AIDs \ {aucCount} :
          /\ start'[a] = start[a] /\ asset'[a] = asset[a] /\ bids'[a] = bids[a]
          /\ a \in dirs => a \in dirs'
    BY <1>2, <2>1 DEF EmptyDirectory, DbTypeOK
  <2>4. bids'[aucCount] = {} /\ asset'[aucCount] = None /\ dirs' = dirs \ {aucCount}
    BY <1>1, <1>2, <2>1 DEF EmptyDirectory, DbTypeOK
  <2>5. ASSUME ~FsErrors PROVE Whole'
    <3>1. dirs' = 1..aucCount'
      BY <1>1, <1>2, <2>1, <2>4, <2>5 DEF FilesSafe, Whole
    <3>2. ASSUME NEW u \in Users, NEW a \in hosted[u]
          PROVE  /\ start'[a] # None /\ start'[a].uid = u
                 /\ asset'[a] = "whole" /\ a \in dirs' /\ a <= aucCount'
      <4>1. /\ a \in AIDs /\ a # aucCount /\ a \in dirs
            /\ start[a] # None /\ start[a].uid = u /\ asset[a] = "whole"
        BY <1>1, <1>2, <2>5 DEF FilesSafe, Whole, HostedComplete, DbTypeOK
      <4>2. a \in dirs'
        BY <2>3, <4>1
      <4>3. a <= aucCount'
        BY <3>1, <4>2
      <4> QED BY <2>3, <4>1, <4>2, <4>3
    <3>3. HostedComplete'
      BY <2>1, <3>2 DEF HostedComplete
    <3>4. \A a \in AIDs : asset'[a] # "mixed" /\ (a \notin dirs' => asset'[a] = None)
      BY <1>2, <2>3, <2>4, <2>5, DbAssumption DEF FilesSafe, Whole
    <3> QED BY <3>1, <3>3, <3>4 DEF Whole
  <2>6. FilesSafe' /\ StartsKept
    BY <1>1, <1>2, <2>1, <2>2, <2>3, <2>4, <2>5, BeyondIsSafe
  <2> QED BY <1>1, <2>6, AnswerStaysSafe DEF AssetFails
<1> QED BY <1>3, <1>4 DEF AssetFails

-----------------------------------------------------------------------------
\* The counter of a server that starts again is right when no write failed.
LEMMA RestartStaysSafe ==
  ASSUME SafeInv, TypeInv', Restart, ~FsErrors
  PROVE  SafeInv'
<1>1. /\ UNCHANGED <<hosted, dirs, start, bids, asset>>
      /\ mutex' = None /\ aucCount' = Cardinality(dirs)
      /\ \A x \in Threads : pc'[x] = "idle"
  BY DEF Restart, load_db_state, userVars
<1>2. aucCount' = aucCount
  BY <1>1, FS_Interval
     DEF SafeInv, Safe, FilesSafe, Whole, TypeInv, TypeOK, DbTypeOK
<1>3. FilesSafe'
  BY <1>1, <1>2
     DEF SafeInv, Safe, FilesSafe, Whole, Published, HasHighest, HostedComplete,
         HostedOwned, BidsLawful
<1>4. \A x \in Threads : Pending(x)' /\ Bidding(x)'
  BY <1>1 DEF Pending, Bidding, BidSteps
<1> QED BY <1>3, <1>4 DEF SafeInv, Safe

LEMMA TimeStaysSafe ==
  ASSUME SafeInv, TypeInv', Time \/ UNCHANGED vars
  PROVE  SafeInv'
<1>1. Quiet /\ UNCHANGED threadVars
  BY DEF Time, Tick, Quiet, vars, dbVars, userVars, auctionVars
<1>2. FilesSafe'
  BY <1>1, QuietIsSafe DEF SafeInv
<1>3. \A x \in Threads : Pending(x)' /\ Bidding(x)'
  BY <1>1
     DEF Quiet, threadVars, SafeInv, Safe, Pending, Bidding, Published, op, uid, aid
<1> QED BY <1>2, <1>3 DEF SafeInv, Safe

LEMMA InitSafe == Init => SafeInv
<1> SUFFICES ASSUME Init PROVE SafeInv
  OBVIOUS
<1>1. FilesSafe
  BY DbAssumption
     DEF Init, DbInit, FilesSafe, Whole, HasHighest, HostedComplete, HostedOwned,
         BidsLawful
<1>2. \A x \in Threads : Pending(x) /\ Bidding(x)
  BY DEF Init, Pending, Bidding, BidSteps
<1> QED BY <1>1, <1>2, InitTypes DEF SafeInv, Safe

\* Either no write fails or the server is never started again.
NoRestartAfterFailure == ~FsErrors \/ ~Restarts

LEMMA NextStaysSafe ==
  ASSUME NoRestartAfterFailure
  PROVE  SafeInv /\ [Next]_vars => SafeInv'
<1> SUFFICES ASSUME SafeInv, [Next]_vars PROVE SafeInv'
  OBVIOUS
<1>1. TypeInv'
  BY NextKeepsTypes DEF SafeInv
<1>2. ASSUME NEW t \in Threads, Step(t) PROVE SafeInv'
  BY <1>1, <1>2, ReceiveStaysSafe, ChecksStaySafe, GetAuctionInfoStaysSafe,
     RepliesStaySafe, UpdateStaysSafe, BidStaysSafe, CreateStaysSafe,
     AssetReceivedStaysSafe, AssetFailsStaysSafe
     DEF Step
<1>3. CASE Restart
  BY <1>1, <1>3, RestartStaysSafe DEF NoRestartAfterFailure, Restart
<1> QED BY <1>1, <1>2, <1>3, TimeStaysSafe DEF Next

\* What the requests have found out stays true, and the theorems below with it.
THEOREM SafeHolds ==
  ASSUME NoRestartAfterFailure
  PROVE  Spec => []SafeInv
<1>1. Init => SafeInv
  BY InitSafe
<1>2. SafeInv /\ [Next]_vars => SafeInv'
  BY NextStaysSafe
<1> QED BY <1>1, <1>2, PTL DEF Spec

\* Every bid that is kept was above the start value and not the owner's,
\* however many workers serve bids and whatever else they serve meanwhile.
THEOREM BidsLawfulHolds ==
  ASSUME NoRestartAfterFailure
  PROVE  Spec => []BidsLawful
<1>1. SafeInv => BidsLawful
  BY DEF SafeInv, Safe, FilesSafe
<1> QED BY <1>1, SafeHolds, PTL

\* As long as the disk takes what is written, an auction that HOSTED names has its
\* START line, its whole asset and a number that requests can find, whatever
\* uploads fail and however often the server is killed between two calls.
THEOREM HostedCompleteHolds ==
  ASSUME ~FsErrors
  PROVE  Spec => []HostedComplete
<1>1. SafeInv => HostedComplete
  BY DEF SafeInv, Safe, FilesSafe, Whole
<1> QED BY <1>1, SafeHolds, PTL DEF NoRestartAfterFailure

\* When writes and rollbacks fail, an auction that HOSTED names may lack its START
\* line, but it is still nobody else's, found by requests and received in full.
THEOREM HostedOwnedHolds ==
  ASSUME NoRestartAfterFailure
  PROVE  Spec => []HostedOwned
<1>1. SafeInv => HostedOwned
  BY DEF SafeInv, Safe, FilesSafe
<1> QED BY <1>1, SafeHolds, PTL

-----------------------------------------------------------------------------
(* What a step may do to an auction that is hosted                         *)

HostedStays ==
  \A u \in Users : \A a \in hosted[u] :
    /\ a \in hosted'[u]
    /\ start'[a] = start[a]
    /\ asset'[a] = asset[a]
    /\ end[a] # None => end'[a] # None
    /\ \A b \in bids[a] : \E c \in bids'[a] : c.value = b.value

\* An END file that is there is at most written again.
LEMMA EndsStay ==
  ASSUME SafeInv, NEW t \in Threads, UpdateDatabase(t) \/ CloseAuction(t)
  PROVE  \A a \in AIDs : end[a] # None => end'[a] # None
<1>1. CASE UpdateDatabase(t)
  BY <1>1 DEF UpdateDatabase, update_database, Expired
<1>2. CASE CloseAuction(t)
  <2>1. start[aid(t)] # None =>
          [time |-> now, secs |-> now - start[aid(t)].time] # None
    <3> SUFFICES ASSUME start[aid(t)] # None
                 PROVE  [time |-> now, secs |-> now - start[aid(t)].time]
                          \in EndRecord
      BY DbAssumption
    <3>1. aid(t) \in AIDs
      BY <1>2 DEF CloseAuction, Calls, SafeInv, TypeInv, Serves, AfterExists, aid
    <3> QED
      BY <3>1 DEF SafeInv, TypeInv, TypeOK, DbTypeOK, StartRecord, EndRecord
  <2> QED
    BY <1>2, <2>1, DbAssumption
       DEF CloseAuction, close_auction, close_auction_unwritten,
           close_auction_fails, SafeInv, TypeInv, TypeOK, DbTypeOK
<1> QED BY <1>1, <1>2

\* A creation changes the files of the next auction only.
LEMMA CreateChangesNext ==
  ASSUME DbTypeOK, NEW t \in Threads, CreateNewAuction(t)
  PROVE  /\ UNCHANGED userVars
         /\ \A a \in AIDs : a # aucCount + 1 =>
              /\ start'[a] = start[a] /\ asset'[a] = asset[a]
              /\ end'[a] = end[a] /\ bids'[a] = bids[a]
<1> DEFINE line == StartLine(uid(t), req[t].value, req[t].timeActive)
<1>1. CASE UNCHANGED dbVars \/ create_auction_dir_fails
  BY <1>1 DEF create_auction_dir_fails, dbVars, auctionVars
<1>2. CASE OpenAuction(line) \/ OpenAuction(None)
  BY <1>2 DEF OpenAuction, DbTypeOK
<1>3. CASE EmptyDirectory(aucCount + 1) /\ UNCHANGED userVars
  BY <1>3 DEF EmptyDirectory, DbTypeOK
<1>4. CASE \E l, file : RollbackFails(aucCount + 1, l, file)
  BY <1>4 DEF RollbackFails, DbTypeOK
<1> HIDE DEF line
<1>5. \/ UNCHANGED dbVars \/ create_auction_dir_fails
      \/ OpenAuction(line) \/ OpenAuction(None)
      \/ EmptyDirectory(aucCount + 1) /\ UNCHANGED userVars
      \/ \E l, file : RollbackFails(aucCount + 1, l, file)
  BY DEF CreateNewAuction, NewAuction, NewAuction_unwritten,
         CreateFailsAndRollsBack, line
<1> QED BY <1>1, <1>2, <1>3, <1>4, <1>5

\* The end of an upload changes the files of the last auction only.
LEMMA UploadEndChangesLast ==
  ASSUME DbTypeOK, NEW t \in Threads, uid(t) \in Users,
         AssetReceived(t) \/ AssetFails(t)
  PROVE  /\ UNCHANGED <<pass, login, bidded>>
         /\ \A u \in Users : hosted[u] \subseteq hosted'[u]
         /\ \A a \in AIDs : a # aucCount =>
              /\ start'[a] = start[a] /\ asset'[a] = asset[a]
              /\ end'[a] = end[a] /\ bids'[a] = bids[a]
<1>1. CASE AssetReceived(t)
  BY <1>1 DEF AssetReceived, HostAuction, DbTypeOK
<1>2. CASE rollback_auction_dir_creation
  BY <1>2 DEF rollback_auction_dir_creation, EmptyDirectory, userVars, DbTypeOK
<1>3. CASE \E l, file : RollbackFails(aucCount, l, file)
  BY <1>3 DEF RollbackFails, userVars, DbTypeOK
<1> QED
  BY <1>1, <1>2, <1>3 DEF AssetFails, rollback_auction_dir_creation_fails

LEMMA StepKeepsHosted ==
  ASSUME SafeInv, NEW t \in Threads, Step(t)
  PROVE  HostedStays
<1>1. /\ hosted \in [Users -> SUBSET AIDs]
      /\ \A u \in Users : \A a \in hosted[u] : Published(a) /\ a \in AIDs
      /\ aucCount \in Nat
  BY DEF SafeInv, Safe, FilesSafe, TypeInv, TypeOK, DbTypeOK
<1>2. CASE UpdateDatabase(t) \/ CloseAuction(t)
  <2>1. UNCHANGED <<hosted, start, asset, bids>>
    BY <1>2 DEF UpdateDatabase, update_database, CloseAuction, close_auction,
                close_auction_unwritten, close_auction_fails, userVars
  <2> QED BY <1>1, <1>2, <2>1, EndsStay DEF HostedStays
<1>3. CASE \/ Receive(t)
           \/ ExistsUser(t) \/ IsUserLoggedIn(t) \/ IsAuthenticUser(t)
           \/ ExistsAuction(t) \/ GetAuctionInfo(t) \/ IsAuctionFinished(t)
           \/ GetLastBid(t) \/ ShowAsset(t) \/ GetUserAuctions(t)
           \/ GetUserBids(t) \/ GetAuctionsList(t) \/ GetAuctionBiddersList(t)
  <2>1. UNCHANGED dbVars
    BY <1>3 DEF Receive, ExistsUser, IsUserLoggedIn, IsAuthenticUser,
                ExistsAuction, GetAuctionInfo, IsAuctionFinished, GetLastBid,
                ShowAsset, GetUserAuctions, GetUserBids, GetAuctionsList,
                GetAuctionBiddersList
  <2> QED BY <2>1 DEF HostedStays, dbVars, userVars, auctionVars
<1>4. CASE \/ RegisterUser(t) \/ LogInUser(t) \/ LogOutUser(t)
           \/ UnregisterUser(t)
  <2>1. UNCHANGED <<hosted, start, end, asset, bids>>
    BY <1>4 DEF RegisterUser, LogInUser, LogOutUser, UnregisterUser,
                log_in_user, log_out_user, register_user, register_user_fails,
                unregister_user, unregister_user_fails, dbVars, userVars,
                auctionVars
  <2> QED BY <2>1 DEF HostedStays
<1>5. CASE Bid(t)
  <2>1. UNCHANGED <<hosted, start, end, asset>>
    BY <1>5 DEF Bid, bid, bid_unwritten, bid_fails, userVars
  <2>2. UNCHANGED bids \/ \E w : BidFile(aid(t), req[t].value, w)
    BY <1>5 DEF Bid, bid, bid_unwritten, bid_fails
  <2>3. ASSUME NEW a \in AIDs, NEW b \in bids[a]
        PROVE  \E c \in bids'[a] : c.value = b.value
    <3>1. CASE UNCHANGED bids
      BY <3>1
    <3>2. CASE \E w : BidFile(aid(t), req[t].value, w)
      <4>1. PICK w : BidFile(aid(t), req[t].value, w)
        BY <3>2
      <4> DEFINE new == [value |-> req[t].value, uid |-> w, time |-> now]
      <4>2. CASE a # aid(t) \/ b.value # req[t].value
        BY <4>1, <4>2 DEF BidFile, SafeInv, TypeInv, TypeOK, DbTypeOK
      <4>3. CASE a = aid(t) /\ b.value = req[t].value
        <5>1. new \in bids'[a] /\ new.value = b.value
          BY <4>1, <4>3 DEF BidFile, SafeInv, TypeInv, TypeOK, DbTypeOK
        <5> QED BY <5>1
      <4> QED BY <4>2, <4>3
    <3> QED BY <2>2, <3>1, <3>2
  <2> QED BY <1>1, <2>1, <2>3 DEF HostedStays
<1>6. CASE CreateNewAuction(t)
  <2>1. \A u \in Users : \A a \in hosted[u] : a \in AIDs /\ a # aucCount + 1
    BY <1>1 DEF Published
  <2> QED
    BY <1>6, <2>1, CreateChangesNext
       DEF HostedStays, SafeInv, TypeInv, TypeOK, userVars
<1>7. CASE AssetReceived(t) \/ AssetFails(t)
  <2>1. \A u \in Users : \A a \in hosted[u] : a \in AIDs /\ a # aucCount
    BY <1>1, <1>7, Uploading DEF AssetReceived, AssetFails, Published
  <2>2. uid(t) \in Users
    BY <1>7, Uploading DEF AssetReceived, AssetFails
  <2> QED
    BY <1>1, <1>7, <2>1, <2>2, UploadEndChangesLast
       DEF HostedStays, SafeInv, TypeInv, TypeOK
<1> QED BY <1>2, <1>3, <1>4, <1>5, <1>6, <1>7 DEF Step

LEMMA NextKeepsHosted == SafeInv /\ [Next]_vars => [HostedStays]_vars
<1> SUFFICES ASSUME SafeInv, Next PROVE HostedStays
  OBVIOUS
<1>1. CASE Time \/ Restart
  BY <1>1 DEF Time, Tick, Restart, load_db_state, userVars, auctionVars,
              HostedStays
<1> QED BY <1>1, StepKeepsHosted DEF Next

\* What HOSTED names is never lost or altered by a later step, neither by a
\* rollback nor by another user's requests.
THEOREM HostedKeptHolds ==
  ASSUME NoRestartAfterFailure
  PROVE  Spec => HostedKept
<1>1. SafeInv /\ [Next]_vars => [HostedStays]_vars
  BY NextKeepsHosted
<1> QED BY <1>1, SafeHolds, PTL DEF Spec, HostedKept, HostedStays

-----------------------------------------------------------------------------
(* Creating an auction is all or nothing when no write fails and the server *)
(* is not killed in the middle.                                            *)

\* AuctionsComplete, and what holds during an upload
Complete ==
  \A a \in AIDs :
    /\ start[a] # None <=> a <= aucCount
    /\ asset[a] = (IF Published(a) THEN "whole"
                   ELSE IF a <= aucCount THEN "part" ELSE None)
    /\ \A u \in Users : a \in hosted[u] <=> Published(a) /\ start[a].uid = u

CompleteInv == SafeInv /\ Complete

\* Four calls change the auctions and the bids; the others leave them alone.
LEMMA QuietOrNot ==
  ASSUME NEW t \in Threads, Step(t)
  PROVE  \/ CreateNewAuction(t) \/ AssetReceived(t) \/ AssetFails(t)
         \/ Bid(t) \/ Quiet
<1>1. Asks(t) => Quiet
  BY AsksChangeNothing DEF Quiet, dbVars, userVars, auctionVars
<1>2. CASE \/ RegisterUser(t) \/ LogInUser(t) \/ LogOutUser(t)
           \/ UnregisterUser(t) \/ UpdateDatabase(t) \/ CloseAuction(t)
  BY <1>2
     DEF Quiet, RegisterUser, LogInUser, LogOutUser, UnregisterUser,
         UpdateDatabase, update_database, CloseAuction, Goto, Refuse,
         log_in_user, log_out_user, register_user, register_user_fails,
         unregister_user, unregister_user_fails, close_auction,
         close_auction_unwritten, close_auction_fails, dbVars, userVars,
         auctionVars
<1> QED BY <1>1, <1>2 DEF Step, Asks

LEMMA QuietIsComplete ==
  ASSUME Complete, Quiet
  PROVE  Complete'
BY DEF Complete, Quiet, Published

LEMMA CreateIsComplete ==
  ASSUME CompleteInv, ~FsErrors, NEW t \in Threads, CreateNewAuction(t)
  PROVE  Complete'
<1>1. /\ mutex = None /\ aucCount \in Nat
      /\ req[t] \in Request /\ req[t].op = "OPA"
  BY DEF CreateNewAuction, Calls, CompleteInv, SafeInv, TypeInv, TypeOK, DbTypeOK,
         Serves, OpsAt
<1>2. CASE UNCHANGED dbVars /\ Refuse(t, "NOK")
  BY <1>2, QuietIsComplete
     DEF CompleteInv, Refuse, Quiet, dbVars, userVars, auctionVars
<1>3. CASE /\ ~Full
           /\ NewAuction(uid(t), req[t].value, req[t].timeActive)
           /\ AwaitAsset(t)
  <2> DEFINE line == StartLine(uid(t), req[t].value, req[t].timeActive)
  <2>1. line # None /\ line.uid = uid(t)
    <3>1. line \in StartRecord
      BY <1>1, RequestFields, StartLineIsRecord
         DEF CompleteInv, SafeInv, TypeInv, TypeOK, uid
    <3> QED BY <3>1, DbAssumption DEF StartLine
  <2>2. /\ aucCount' = aucCount + 1 /\ mutex' = t /\ hosted' = hosted
        /\ start' = [start EXCEPT ![aucCount + 1] = line]
        /\ asset' = [asset EXCEPT ![aucCount + 1] = "part"]
    <3>1. aucCount + 1 \in AIDs
      BY <1>1, <1>3, DbAssumption DEF Full, AIDs
    <3>2. asset[aucCount + 1] = None
      BY <1>1, <3>1 DEF CompleteInv, Complete, Published
    <3> QED
      BY <1>3, <3>2 DEF NewAuction, OpenAuction, Opened, AwaitAsset, userVars
  <2> HIDE DEF line
  <2>3. \A a \in AIDs : Published(a)' <=> Published(a)
    BY <1>1, <2>2, ServerAssumption DEF Published
  <2>4. ASSUME NEW a \in AIDs, a # aucCount + 1
        PROVE  /\ start'[a] = start[a] /\ asset'[a] = asset[a]
               /\ a <= aucCount' <=> a <= aucCount
    BY <1>1, <2>2, <2>4
       DEF AIDs, CompleteInv, SafeInv, TypeInv, TypeOK, DbTypeOK
  <2>5. ASSUME NEW a \in AIDs, a = aucCount + 1
        PROVE  /\ start'[a] = line /\ asset'[a] = "part"
               /\ a <= aucCount' /\ ~Published(a)
    BY <1>1, <2>2, <2>5
       DEF Published, CompleteInv, SafeInv, TypeInv, TypeOK, DbTypeOK
  <2> QED
    BY <2>1, <2>2, <2>3, <2>4, <2>5 DEF CompleteInv, Complete
<1> QED BY <1>2, <1>3 DEF CreateNewAuction

LEMMA UploadEndIsComplete ==
  ASSUME CompleteInv, ~FsErrors, NEW t \in Threads,
         AssetReceived(t) \/ AssetFails(t)
  PROVE  Complete'
<1>1. /\ mutex = t /\ mutex # None /\ mutex' = None
      /\ aucCount \in AIDs /\ aucCount \in Nat
      /\ start[aucCount].uid = uid(t) /\ uid(t) \in Users
  BY Uploading DEF CompleteInv, AssetReceived, AssetFails, AIDs
<1>2. DbTypeOK
  BY DEF CompleteInv, SafeInv, TypeInv, TypeOK
<1>3. \A a \in AIDs : Published(a) <=> a < aucCount
  BY Uploading DEF CompleteInv, AssetReceived, AssetFails
<1>4. CASE AssetReceived(t)
  <2>1. /\ UNCHANGED <<aucCount, start>>
        /\ asset' = [asset EXCEPT ![aucCount] = "whole"]
        /\ hosted' = [hosted EXCEPT ![uid(t)] = @ \cup {aucCount}]
    <3>1. Filled(asset[aucCount]) = "whole"
      BY <1>1, <1>3 DEF CompleteInv, Complete, Filled
    <3> QED BY <1>4, <3>1 DEF AssetReceived, HostAuction
  <2>2. \A a \in AIDs : Published(a)' <=> a <= aucCount
    BY <1>1, <2>1 DEF Published, AIDs
  <2>3. ASSUME NEW a \in AIDs
        PROVE  /\ start'[a] # None <=> a <= aucCount'
               /\ asset'[a] = (IF Published(a)' THEN "whole"
                               ELSE IF a <= aucCount' THEN "part" ELSE None)
    BY <1>1, <1>2, <1>3, <2>1, <2>2
       DEF CompleteInv, Complete, DbTypeOK, AIDs
  <2>4. ASSUME NEW a \in AIDs, NEW u \in Users
        PROVE  a \in hosted'[u] <=> Published(a)' /\ start'[a].uid = u
    <3>1. a \in hosted[u] <=> a < aucCount /\ start[a].uid = u
      BY <1>3 DEF CompleteInv, Complete
    <3>2. a \in hosted'[u] <=> a \in hosted[u] \/ (a = aucCount /\ u = uid(t))
      BY <1>1, <1>2, <2>1 DEF DbTypeOK
    <3> QED BY <1>1, <2>1, <2>2, <3>1, <3>2 DEF AIDs
  <2> QED BY <2>3, <2>4 DEF Complete
<1>5. CASE AssetFails(t)
  <2>1. /\ aucCount' = aucCount - 1 /\ hosted' = hosted
        /\ start' = [start EXCEPT ![aucCount] = None]
        /\ asset' = [asset EXCEPT ![aucCount] = None]
    BY <1>5 DEF AssetFails, rollback_auction_dir_creation, EmptyDirectory, userVars
  <2>2. \A a \in AIDs : Published(a)' <=> a < aucCount
    BY <1>1, <2>1 DEF Published, AIDs
  <2>3. ASSUME NEW a \in AIDs
        PROVE  /\ start'[a] # None <=> a <= aucCount'
               /\ asset'[a] = (IF Published(a)' THEN "whole"
                               ELSE IF a <= aucCount' THEN "part" ELSE None)
    BY <1>1, <1>2, <1>3, <2>1, <2>2
       DEF CompleteInv, Complete, DbTypeOK, AIDs
  <2>4. ASSUME NEW a \in AIDs, NEW u \in Users
        PROVE  a \in hosted'[u] <=> Published(a)' /\ start'[a].uid = u
    <3>1. a \in hosted[u] <=> a < aucCount /\ start[a].uid = u
      BY <1>3 DEF CompleteInv, Complete
    <3>2. a < aucCount => start'[a] = start[a]
      BY <1>1, <1>2, <2>1 DEF DbTypeOK, AIDs
    <3> QED BY <2>1, <2>2, <3>1, <3>2
  <2> QED BY <2>3, <2>4 DEF Complete
<1> QED BY <1>4, <1>5

LEMMA NextStaysComplete ==
  ASSUME ~FsErrors, ~Restarts
  PROVE  CompleteInv /\ [Next]_vars => CompleteInv'
<1> SUFFICES ASSUME CompleteInv, [Next]_vars PROVE CompleteInv'
  OBVIOUS
<1>1. SafeInv'
  BY NextStaysSafe DEF CompleteInv, NoRestartAfterFailure
<1>2. CASE \E t \in Threads :
             CreateNewAuction(t) \/ AssetReceived(t) \/ AssetFails(t)
  BY <1>1, <1>2, CreateIsComplete, UploadEndIsComplete DEF CompleteInv
<1>3. CASE Quiet
  BY <1>1, <1>3, QuietIsComplete DEF CompleteInv
<1>4. CASE \E t \in Threads : Bid(t)
  BY <1>1, <1>4
     DEF CompleteInv, Complete, Published, Bid, bid, bid_unwritten, bid_fails,
         Refuse, userVars
<1>5. ASSUME NEW t \in Threads, Step(t)
      PROVE  \/ CreateNewAuction(t) \/ AssetReceived(t) \/ AssetFails(t)
             \/ Bid(t) \/ Quiet
  BY <1>5, QuietOrNot
<1>6. CASE Time \/ UNCHANGED vars
  <2>1. Quiet
    BY <1>6 DEF Time, Tick, Quiet, vars, dbVars, userVars, auctionVars
  <2> QED BY <1>3, <2>1
<1> QED BY <1>2, <1>3, <1>4, <1>5, <1>6 DEF Next, Restart

\* Between two uses of the mutex the auctions are numbered without a gap, each
\* is complete, and HOSTED names exactly the auctions that a user opened.
THEOREM AuctionsCompleteHolds ==
  ASSUME ~FsErrors, ~Restarts
  PROVE  Spec => []AuctionsComplete
<1>1. Init => CompleteInv
  <2>1. Init => Complete
    BY DEF Init, DbInit, Complete, Published, AIDs
  <2> QED BY <2>1, InitSafe DEF CompleteInv
<1>2. CompleteInv /\ [Next]_vars => CompleteInv'
  BY NextStaysComplete
<1>3. CompleteInv => AuctionsComplete
  <2> SUFFICES ASSUME CompleteInv, mutex = None, NEW a \in AIDs
               PROVE  /\ a \in dirs <=> a <= aucCount
                      /\ start[a] # None <=> a <= aucCount
                      /\ asset[a] = (IF a <= aucCount THEN "whole" ELSE None)
                      /\ \A u \in Users :
                           a \in hosted[u] <=> a <= aucCount /\ start[a].uid = u
    BY DEF AuctionsComplete
  <2>1. Published(a) <=> a <= aucCount
    BY DEF Published, AIDs, CompleteInv, SafeInv, TypeInv, TypeOK, DbTypeOK
  <2>2. a \in dirs <=> a <= aucCount
    BY DEF CompleteInv, SafeInv, Safe, FilesSafe, Whole, TypeInv, TypeOK, DbTypeOK,
           AIDs
  <2> QED BY <2>1, <2>2 DEF CompleteInv, Complete
<1> QED BY <1>1, <1>2, <1>3, PTL DEF Spec

-----------------------------------------------------------------------------
(* What the files of users and auctions say of each other                  *)

\* A bid is entered in BIDDED in the same use of the mutex.
Indexed ==
  \A a \in AIDs : \A b \in bids[a] : b.uid \in Users /\ a \in bidded[b.uid]

LEMMA BidIsIndexed ==
  ASSUME SafeInv, Indexed, ~FsErrors, NEW t \in Threads, Bid(t)
  PROVE  Indexed'
<1>1. /\ pc[t] = "bid" /\ op(t) = "BID" /\ aid(t) \in AIDs /\ uid(t) \in Users
      /\ DbTypeOK
  BY RequestFields
     DEF Bid, Calls, SafeInv, TypeInv, TypeOK, Serves, OpsAt, AfterExists, op, aid,
         uid
<1>2. start[aid(t)] # None
  BY <1>1 DEF SafeInv, Safe, Bidding, BidSteps
<1> DEFINE new == [value |-> req[t].value, uid |-> uid(t), time |-> now]
<1>3. /\ bids' = [bids EXCEPT ![aid(t)] =
                    {b \in @ : b.value # req[t].value} \cup {new}]
      /\ bidded' = [bidded EXCEPT ![uid(t)] = @ \cup {aid(t)}]
  BY <1>2 DEF Bid, bid, BidFile
<1>4. new.uid = uid(t)
  OBVIOUS
<1> HIDE DEF new
<1>5. /\ \A u \in Users : bidded[u] \subseteq bidded'[u]
      /\ aid(t) \in bidded'[uid(t)]
  BY <1>1, <1>3 DEF DbTypeOK
<1>6. \A a \in AIDs : \A b \in bids'[a] :
        b \in bids[a] \/ (a = aid(t) /\ b = new)
  BY <1>1, <1>3 DEF DbTypeOK
<1> QED BY <1>1, <1>4, <1>5, <1>6 DEF Indexed

\* The auctions that are taken over or rolled back have no bids.
LEMMA NextStaysIndexed ==
  ASSUME ~FsErrors
  PROVE  SafeInv /\ Indexed /\ [Next]_vars => Indexed'
<1> SUFFICES ASSUME SafeInv, Indexed, [Next]_vars PROVE Indexed'
  OBVIOUS
<1>1. CASE \E t \in Threads : Bid(t)
  BY <1>1, BidIsIndexed
<1>2. CASE /\ \A a \in AIDs : bids'[a] \subseteq bids[a]
           /\ UNCHANGED bidded
  BY <1>2 DEF Indexed
<1>3. ASSUME NEW t \in Threads, Step(t), ~Bid(t)
      PROVE  UNCHANGED bidded
  <2>1. Asks(t) => UNCHANGED bidded
    BY AsksChangeNothing DEF dbVars, userVars
  <2>2. CASE \/ RegisterUser(t) \/ LogInUser(t) \/ LogOutUser(t)
             \/ UnregisterUser(t) \/ UpdateDatabase(t) \/ CloseAuction(t)
    BY <2>2
       DEF RegisterUser, LogInUser, LogOutUser, UnregisterUser, UpdateDatabase,
           update_database, CloseAuction, Refuse, log_in_user, log_out_user,
           register_user, register_user_fails, unregister_user,
           unregister_user_fails, close_auction, close_auction_unwritten,
           close_auction_fails, dbVars, userVars
  <2>3. CASE CreateNewAuction(t) \/ AssetReceived(t) \/ AssetFails(t)
    BY <2>3, CreateChangesNext, Uploading, UploadEndChangesLast
       DEF AssetReceived, AssetFails, SafeInv, TypeInv, TypeOK, userVars
  <2> QED BY <1>3, <2>1, <2>2, <2>3 DEF Step, Asks
<1>4. ASSUME NEW t \in Threads, Step(t), ~Bid(t), NEW a \in AIDs
      PROVE  bids'[a] \subseteq bids[a]
  <2>1. bids \in [AIDs -> SUBSET BidRecord]
    BY DEF SafeInv, TypeInv, TypeOK, DbTypeOK
  <2>2. CASE Quiet
    BY <2>2 DEF Quiet
  <2>3. CASE CreateNewAuction(t) \/ AssetReceived(t) \/ AssetFails(t)
    BY <2>1, <2>3
       DEF CreateNewAuction, NewAuction, OpenAuction, AssetReceived, HostAuction,
           AssetFails, rollback_auction_dir_creation, EmptyDirectory, dbVars,
           auctionVars
  <2> QED BY <1>4, <2>2, <2>3, QuietOrNot
<1>5. CASE Time \/ Restart \/ UNCHANGED vars
  <2>1. UNCHANGED <<bids, bidded>>
    BY <1>5 DEF Time, Tick, Restart, load_db_state, vars, dbVars, userVars,
                auctionVars
  <2> QED BY <1>2, <2>1
<1> QED BY <1>1, <1>2, <1>3, <1>4, <1>5 DEF Next

\* mybids finds every auction that keeps a bid of the user, whatever restarts.
THEOREM BidsIndexedHolds ==
  ASSUME ~FsErrors
  PROVE  Spec => []BidsIndexed
<1>1. Init => SafeInv /\ Indexed
  BY InitSafe DEF Init, DbInit, Indexed
<1>2. SafeInv /\ Indexed /\ [Next]_vars => SafeInv' /\ Indexed'
  BY NextStaysSafe, NextStaysIndexed DEF NoRestartAfterFailure
<1>3. Indexed => BidsIndexed
  BY DEF Indexed, BidsIndexed
<1> QED BY <1>1, <1>2, <1>3, PTL DEF Spec

-----------------------------------------------------------------------------
(* show_asset, which reads without the mutex                               *)

\* An upload that has not ended is the one that keeps the mutex.
Parts == \A a \in AIDs : asset[a] = "part" => mutex # None /\ a = aucCount

\* The auction of a request for an asset is not the one being uploaded.
Showing(t) ==
  pc[t] \in {"get_auction_info", "show_asset"} /\ op(t) = "SAS"
    => Published(aid(t))

SentInv ==
  SafeInv /\ Parts /\ \A t \in Threads : Showing(t) /\ reply[t].asset # "part"

\* What a request has found is found until the server ends.
LEMMA PublishedStays ==
  ASSUME SafeInv, ~FsErrors, NEW t \in Threads, Step(t), NEW a, Published(a)
  PROVE  Published(a)'
<1>1. aucCount \in Nat
  BY DEF SafeInv, TypeInv, TypeOK, DbTypeOK
<1>2. CASE Quiet
  BY <1>2 DEF Quiet, Published
<1>3. CASE Bid(t)
  BY <1>3 DEF Bid, bid, bid_unwritten, bid_fails, Refuse, Published
<1>4. CASE CreateNewAuction(t)
  <2>1. /\ \/ aucCount' = aucCount /\ mutex' = None
           \/ aucCount' = aucCount + 1
        /\ mutex = None
    BY <1>4
       DEF CreateNewAuction, Calls, NewAuction, OpenAuction, Refuse, dbVars,
           auctionVars
  <2>2. a \in 1..aucCount' /\ a # aucCount + 1
    BY <1>1, <2>1 DEF Published
  <2> QED BY <2>1, <2>2 DEF Published
<1>5. CASE AssetReceived(t) \/ AssetFails(t)
  <2>1. mutex # None /\ mutex' = None /\ aucCount' \in {aucCount, aucCount - 1}
    BY <1>5, Uploading
       DEF AssetReceived, AssetFails, HostAuction, rollback_auction_dir_creation
  <2>2. a # aucCount /\ a \in 1..aucCount'
    BY <1>1, <2>1 DEF Published
  <2> QED BY <2>1, <2>2 DEF Published
<1> QED BY <1>2, <1>3, <1>4, <1>5, QuietOrNot

LEMMA PartsStay ==
  ASSUME SafeInv, ~FsErrors, Parts, NEW t \in Threads, Step(t)
  PROVE  Parts'
<1>1. asset \in [AIDs -> Contents] /\ aucCount \in Nat
  BY DEF SafeInv, TypeInv, TypeOK, DbTypeOK, Contents
<1>2. CASE Quiet
  BY <1>2 DEF Quiet, Parts
<1>3. CASE Bid(t)
  BY <1>3 DEF Bid, bid, bid_unwritten, bid_fails, Refuse, Parts
<1>4. CASE CreateNewAuction(t)
  <2>1. mutex = None /\ \A a \in AIDs : asset[a] # "part"
    BY <1>4 DEF CreateNewAuction, Calls, Parts
  <2>2. CASE NewAuction(uid(t), req[t].value, req[t].timeActive) /\ AwaitAsset(t)
    <3>1. mutex' # None
      BY <2>2, ServerAssumption DEF AwaitAsset
    <3>2. \A a \in AIDs : asset'[a] = "part" => a = aucCount'
      BY <1>1, <2>1, <2>2 DEF NewAuction, OpenAuction
    <3> QED BY <3>1, <3>2 DEF Parts
  <2>3. CASE UNCHANGED asset
    BY <2>1, <2>3 DEF Parts
  <2> QED BY <1>4, <2>2, <2>3 DEF CreateNewAuction, dbVars, auctionVars
<1>5. CASE AssetReceived(t) \/ AssetFails(t)
  <2>1. aucCount \in AIDs
    BY <1>5, Uploading DEF AssetReceived, AssetFails
  <2>2. \/ asset' = [asset EXCEPT ![aucCount] = Filled(asset[aucCount])]
        \/ asset' = [asset EXCEPT ![aucCount] = None]
    BY <1>1, <1>5, <2>1
       DEF AssetReceived, AssetFails, HostAuction, EmptyDirectory,
           rollback_auction_dir_creation
  <2>3. /\ asset'[aucCount] # "part"
        /\ \A a \in AIDs : a # aucCount => asset'[a] = asset[a]
    BY <1>1, <2>1, <2>2, DbAssumption DEF Filled
  <2> QED BY <2>1, <2>3 DEF Parts
<1> QED BY <1>2, <1>3, <1>4, <1>5, QuietOrNot

\* What a handler answers: a status, or a list, without an asset, but for
\* show_asset.
LEMMA RepliesWithoutAsset ==
  ASSUME SafeInv, NEW t \in Threads, Step(t), ~ShowAsset(t)
  PROVE  reply'[t] = reply[t] \/ reply'[t].asset = None
<1>1. reply \in [Threads -> Reply]
  BY DEF SafeInv, TypeInv, TypeOK
<1>2. \A r : Answer(t, r) => reply'[t] = r
  BY <1>1 DEF Answer
<1>3. \A s : Status(s).asset = None
  BY DEF Status
<1>4. \A s : Refuse(t, s) => reply'[t].asset = None
  BY <1>2, <1>3 DEF Refuse
<1>5. ASSUME NEW aids, AnswerList(t, aids) PROVE reply'[t].asset = None
  BY <1>2, <1>3, <1>5 DEF AnswerList, Status
<1>6. \A f : Goto(t, f) => reply'[t] = reply[t]
  BY DEF Goto
<1>7. CASE Receive(t) \/ GetAuctionBiddersList(t)
           \/ AssetReceived(t) \/ AssetFails(t)
  <2>1. Receive(t) \/ AssetFails(t) => \E s : reply'[t] = Status(s)
    BY <1>1, <1>2 DEF Receive, AssetFails
  <2>2. AssetReceived(t) => reply'[t] = [Status("OK") EXCEPT !.active = {aucCount}]
    BY <1>2 DEF AssetReceived
  <2>3. GetAuctionBiddersList(t) =>
          \E b, c, d : reply'[t] = [Status("OK") EXCEPT !.bids = b, !.active = c,
                                                       !.ended = d]
    BY <1>2 DEF GetAuctionBiddersList
  <2> QED BY <1>3, <1>7, <2>1, <2>2, <2>3 DEF Status
<1>8. CASE GetAuctionInfo(t)
  <2>1. Dies => reply'[t].asset = None
    BY <1>3 DEF Dies
  <2> QED BY <1>4, <1>8, <2>1 DEF GetAuctionInfo
<1>9. CASE CreateNewAuction(t)
  BY <1>4, <1>9 DEF CreateNewAuction, AwaitAsset
<1>10. CASE \/ ExistsUser(t) \/ IsUserLoggedIn(t) \/ IsAuthenticUser(t)
            \/ ExistsAuction(t) \/ IsAuctionFinished(t) \/ GetLastBid(t)
  BY <1>4, <1>6, <1>10
     DEF ExistsUser, IsUserLoggedIn, IsAuthenticUser, ExistsAuction,
         IsAuctionFinished, GetLastBid
<1>11. CASE \/ RegisterUser(t) \/ LogInUser(t) \/ LogOutUser(t)
            \/ UnregisterUser(t) \/ UpdateDatabase(t) \/ Bid(t)
            \/ CloseAuction(t)
  BY <1>4, <1>6, <1>11
     DEF RegisterUser, LogInUser, LogOutUser, UnregisterUser, UpdateDatabase,
         Bid, CloseAuction
<1>12. CASE GetUserAuctions(t) \/ GetUserBids(t) \/ GetAuctionsList(t)
  BY <1>5, <1>12 DEF GetUserAuctions, GetUserBids, GetAuctionsList
<1> QED BY <1>7, <1>8, <1>9, <1>10, <1>11, <1>12 DEF Step

\* Only exists_auction, under the mutex, leads a request for an asset on.
LEMMA OwnShowingStays ==
  ASSUME SafeInv, NEW t \in Threads, Showing(t), Step(t)
  PROVE  Showing(t)'
<1> SUFFICES ASSUME pc'[t] \in {"get_auction_info", "show_asset"},
                    req'[t].op = "SAS"
             PROVE  req' = req /\ Published(aid(t))'
  BY DEF Showing, op
<1>1. /\ pc \in [Threads -> Steps] /\ req \in [Threads -> Request \cup {None}]
      /\ aucCount \in Nat
  BY DEF SafeInv, TypeInv, TypeOK, DbTypeOK
<1>2. \A r : ~Answer(t, r)
  BY <1>1 DEF Answer
<1>3. \A s : ~Refuse(t, s)
  BY <1>2 DEF Refuse
<1>4. \A f : Goto(t, f) => pc'[t] = f /\ req' = req
  BY <1>1 DEF Goto
<1>5. CASE ExistsAuction(t)
  <2>1. req' = req /\ exists_auction(aid(t)) /\ mutex = None /\ mutex' = None
        /\ aucCount' = aucCount
    BY <1>3, <1>4, <1>5
       DEF ExistsAuction, Calls, Goto, dbVars, auctionVars
  <2>2. req[t].aid \in 0..MaxAuctions
    BY <1>5, RequestFields
       DEF ExistsAuction, Calls, SafeInv, TypeInv, Serves, OpsAt
  <2>3. Published(aid(t)) /\ aid(t)' = aid(t)
    BY <1>1, <2>1, <2>2, DbAssumption DEF exists_auction, Published, aid
  <2> QED BY <2>1, <2>3 DEF Published
<1>6. CASE GetAuctionInfo(t)
  <2>1. ~Dies
    BY DEF Dies
  <2>2. req' = req /\ pc[t] = "get_auction_info"
    BY <1>3, <1>6, <2>1 DEF GetAuctionInfo, Calls
  <2>3. Published(aid(t)) /\ aid(t)' = aid(t)
    BY <2>2 DEF Showing, op, aid
  <2>4. UNCHANGED <<aucCount, mutex>>
    BY <1>6, AsksChangeNothing DEF Asks, dbVars, auctionVars
  <2> QED BY <2>2, <2>3, <2>4 DEF Published
<1>7. ~Receive(t)
  BY <1>1 DEF Receive, FirstStep
<1>8. ~(ExistsUser(t) \/ IsUserLoggedIn(t) \/ IsAuthenticUser(t)
        \/ IsAuctionFinished(t) \/ GetLastBid(t))
  <2>1. \A f \in {"is_authentic_user", "is_user_logged_in", "register_user",
                  "update_database", "log_in_user", "log_out_user",
                  "unregister_user", "create_new_auction", "exists_auction",
                  "close_auction", "get_last_bid", "bid"} : ~Goto(t, f)
    BY <1>4
  <2>2. op(t) \in OpsAt(pc[t]) \/ pc[t] \in {"idle", "dead"}
    BY DEF SafeInv, TypeInv, Serves, op
  <2>3. ~ExistsUser(t) /\ ~IsUserLoggedIn(t) /\ ~IsAuctionFinished(t)
        /\ ~GetLastBid(t)
    BY <1>3, <2>1
       DEF ExistsUser, IsUserLoggedIn, IsAuctionFinished, GetLastBid
  <2>4. ~IsAuthenticUser(t)
    BY <1>3, <2>1, <2>2 DEF IsAuthenticUser, Calls, OpsAt, UserOps
  <2> QED BY <2>3, <2>4
<1>9. ~UpdateDatabase(t)
  <2> SUFFICES ASSUME UpdateDatabase(t) PROVE FALSE
    OBVIOUS
  <2>1. op(t) \in {"LMA", "LMB", "LST", "SRC", "CLS", "BID"}
    BY DEF UpdateDatabase, Calls, SafeInv, TypeInv, Serves, OpsAt, op
  <2>2. req' = req
    BY <1>4 DEF UpdateDatabase
  <2> QED BY <2>1, <2>2 DEF op
<1>10. ~CreateNewAuction(t)
  BY <1>1, <1>3 DEF CreateNewAuction, AwaitAsset
<1>11. ~(RegisterUser(t) \/ LogInUser(t) \/ LogOutUser(t) \/ UnregisterUser(t)
         \/ Bid(t) \/ CloseAuction(t) \/ AssetReceived(t) \/ AssetFails(t)
         \/ ShowAsset(t) \/ GetUserAuctions(t) \/ GetUserBids(t)
         \/ GetAuctionsList(t) \/ GetAuctionBiddersList(t))
  BY <1>2, <1>3
     DEF RegisterUser, LogInUser, LogOutUser, UnregisterUser, Bid, CloseAuction,
         AssetReceived, AssetFails, ShowAsset, GetUserAuctions, GetUserBids,
         GetAuctionsList, GetAuctionBiddersList, AnswerList
<1> QED BY <1>5, <1>6, <1>7, <1>8, <1>9, <1>10, <1>11 DEF Step

LEMMA StepStaysSent ==
  ASSUME SentInv, ~FsErrors, NEW t \in Threads, Step(t), NEW x \in Threads
  PROVE  Showing(x)' /\ reply'[x].asset # "part"
<1>1. None # "part" /\ reply \in [Threads -> Reply] /\ SafeInv
  BY DbAssumption DEF SentInv, SafeInv, TypeInv, TypeOK
<1>2. CASE Dies
  BY <1>1, <1>2 DEF Dies, Showing, Status
<1>3. CASE Alone(t) /\ x # t
  <2>1. /\ pc'[x] = pc[x] /\ req'[x] = req[x] /\ reply'[x] = reply[x]
        /\ aid(x)' = aid(x)
    BY <1>3 DEF Alone, aid
  <2>2. Showing(x) /\ reply[x].asset # "part"
    BY DEF SentInv
  <2>3. Published(aid(x)) => Published(aid(x))'
    <3>1. \A a : Published(a) => Published(a)'
      BY <1>1, PublishedStays
    <3> QED BY <2>1, <3>1 DEF Published
  <2> QED BY <2>1, <2>2, <2>3 DEF Showing, op
<1>4. CASE x = t
  <2>1. Showing(t)'
    BY <1>1, OwnShowingStays DEF SentInv
  <2>2. CASE ~ShowAsset(t)
    BY <1>1, <1>4, <2>1, <2>2, RepliesWithoutAsset DEF SentInv
  <2>3. CASE ShowAsset(t)
    <3>1. op(t) = "SAS" /\ aid(t) \in AIDs /\ pc[t] = "show_asset"
      BY <1>1, <2>3
         DEF ShowAsset, SafeInv, TypeInv, Serves, OpsAt, AfterExists, op, aid
    <3>2. asset[aid(t)] # "part"
      BY <1>4, <3>1 DEF SentInv, Parts, Showing, Published
    <3>3. reply'[t].asset \in {None, asset[aid(t)]}
      BY <1>1, <2>3 DEF ShowAsset, Answer, Status
    <3> QED BY <1>1, <1>4, <2>1, <3>2, <3>3
  <2> QED BY <2>2, <2>3
<1> QED BY <1>1, <1>2, <1>3, <1>4, StepAlone DEF SafeInv

LEMMA NextStaysSent ==
  ASSUME ~FsErrors, ~Restarts
  PROVE  SentInv /\ [Next]_vars => SentInv'
<1> SUFFICES ASSUME SentInv, [Next]_vars PROVE SentInv'
  OBVIOUS
<1>1. SafeInv'
  BY NextStaysSafe DEF SentInv, NoRestartAfterFailure
<1>2. ASSUME NEW t \in Threads, Step(t) PROVE SentInv'
  BY <1>1, <1>2, PartsStay, StepStaysSent DEF SentInv
<1>3. CASE Time \/ UNCHANGED vars
  <2>1. UNCHANGED <<asset, aucCount, mutex, pc, req, reply>>
    BY <1>3 DEF Time, Tick, vars, dbVars, auctionVars, threadVars
  <2>2. Parts' /\ \A t \in Threads : Showing(t)' /\ reply'[t].asset # "part"
    BY <2>1 DEF SentInv, Parts, Showing, Published, op, aid
  <2> QED BY <1>1, <2>2 DEF SentInv
<1> QED BY <1>2, <1>3 DEF Next, Restart

\* Although show_asset reads the file without the mutex, no client is sent an
\* asset that is still being uploaded: a request finds no auction before its
\* asset is there, or the auction is rolled back.  A kill in the middle of an
\* upload is another matter, and so is a rollback that fails: both leave an
\* auction that requests find with a part of its asset.
THEOREM AssetsSentWholeHolds ==
  ASSUME ~FsErrors, ~Restarts
  PROVE  Spec => []AssetsSentWhole
<1>1. Init => SentInv
  <2> SUFFICES ASSUME Init PROVE SentInv
    OBVIOUS
  <2>1. None # "part"
    BY DbAssumption
  <2>2. Parts /\ \A t \in Threads : Showing(t) /\ reply[t].asset # "part"
    BY <2>1 DEF Init, DbInit, Parts, Showing, Status
  <2> QED BY <2>2, InitSafe DEF SentInv
<1>2. SentInv /\ [Next]_vars => SentInv'
  BY NextStaysSent
<1>3. SentInv => AssetsSentWhole
  BY DEF SentInv, AssetsSentWhole
<1> QED BY <1>1, <1>2, <1>3, PTL DEF Spec
=============================================================================
