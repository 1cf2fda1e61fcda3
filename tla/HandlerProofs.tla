---------------------------- MODULE HandlerProofs ----------------------------
(***************************************************************************)
(* What a handler of AuctionServer has been told is still worth something  *)
(* when it acts, for every instance in which writes do not fail: the       *)
(* properties of ServerAudit, and the sessions that Sessions promises.     *)
(***************************************************************************)
EXTENDS AuctionSafetyProofs, ServerAudit

\* A thread has a request exactly while it works on one.
Busy(t) == req[t] = None <=> pc[t] \in {"idle", "dead"}

\* The handler of t ends with a reply.
Ends(t) == \E r : Answer(t, r)

\* It goes on with the call f.
GoesOn(t, f) ==
  /\ f \in Steps \ {"idle", "dead"}
  /\ pc' = [pc EXCEPT ![t] = f]
  /\ UNCHANGED <<req, reply>>

\* The calls after which a handler may go on
Decides(t) ==
  \/ ExistsUser(t) \/ IsUserLoggedIn(t) \/ IsAuthenticUser(t)
  \/ UpdateDatabase(t) \/ ExistsAuction(t) \/ GetAuctionInfo(t)
  \/ IsAuctionFinished(t) \/ GetLastBid(t) \/ CreateNewAuction(t)

\* Such a call refuses the request or leads on, unless the process ends.
LEMMA DecidesKinds ==
  ASSUME TypeInv, NEW t \in Threads, Decides(t)
  PROVE  Dies \/ (\E s : Refuse(t, s)) \/ \E f : GoesOn(t, f)
<1> SUFFICES ASSUME ~Dies, ~ \E s : Refuse(t, s)
             PROVE  \E f : GoesOn(t, f)
  OBVIOUS
<1>1. \A f \in Steps \ {"idle", "dead"} : Goto(t, f) => GoesOn(t, f)
  BY DEF Goto, GoesOn
<1>2. pc[t] \notin {"idle", "dead"} => op(t) \in OpsAt(pc[t])
  BY DEF TypeInv, Serves, op
<1>3. CASE ExistsUser(t) \/ IsUserLoggedIn(t)
  <2>1. \E f \in Steps \ {"idle", "dead"} : Goto(t, f)
    BY <1>3 DEF ExistsUser, IsUserLoggedIn, Steps
  <2> QED BY <1>1, <2>1
<1>4. CASE IsAuthenticUser(t)
  <2>1. op(t) \in {"LIN", "LOU", "UNR", "OPA", "CLS", "BID"}
    BY <1>2, <1>4 DEF IsAuthenticUser, Calls, OpsAt, UserOps
  <2>2. \E f \in Steps \ {"idle", "dead"} : Goto(t, f)
    BY <1>4, <2>1 DEF IsAuthenticUser, Steps
  <2> QED BY <1>1, <2>2
<1>5. CASE UpdateDatabase(t)
  <2>1. op(t) \in {"LMA", "LMB", "LST", "SRC", "CLS", "BID"}
    BY <1>2, <1>5 DEF UpdateDatabase, Calls, OpsAt
  <2>2. \E f \in Steps \ {"idle", "dead"} : Goto(t, f)
    BY <1>5, <2>1 DEF UpdateDatabase, Steps
  <2> QED BY <1>1, <2>2
<1>6. CASE ExistsAuction(t) \/ IsAuctionFinished(t) \/ GetLastBid(t)
  <2>1. \E f \in Steps \ {"idle", "dead"} : Goto(t, f)
    BY <1>6 DEF ExistsAuction, IsAuctionFinished, GetLastBid, Steps
  <2> QED BY <1>1, <2>1
<1>7. CASE GetAuctionInfo(t)
  <2>1. op(t) \in {"SRC", "SAS", "CLS", "BID"}
    BY <1>2, <1>7 DEF GetAuctionInfo, Calls, OpsAt
  <2>2. UNCHANGED <<req, reply>> /\
        \E f \in {"show_asset", "get_auction_bidders_list",
                  "is_auction_finished"} : pc' = [pc EXCEPT ![t] = f]
    BY <1>7, <2>1 DEF GetAuctionInfo
  <2> QED BY <2>2 DEF GoesOn, Steps
<1>8. CASE CreateNewAuction(t)
  <2>1. AwaitAsset(t)
    BY <1>8 DEF CreateNewAuction
  <2> QED BY <2>1 DEF AwaitAsset, GoesOn, Steps
<1> QED BY <1>3, <1>4, <1>5, <1>6, <1>7, <1>8 DEF Decides

\* A thread takes a request, goes on with it or ends it, or the process ends.
LEMMA StepKinds ==
  ASSUME TypeInv, NEW t \in Threads, Step(t)
  PROVE  \/ Receive(t) \/ Dies \/ Ends(t)
         \/ Decides(t) /\ \E f : GoesOn(t, f)
<1>1. \A s : Refuse(t, s) => Ends(t)
  BY DEF Refuse, Ends
<1>2. CASE Decides(t)
  BY <1>1, <1>2, DecidesKinds
<1>3. CASE \/ RegisterUser(t) \/ LogInUser(t) \/ LogOutUser(t)
           \/ UnregisterUser(t) \/ Bid(t) \/ CloseAuction(t)
  BY <1>1, <1>3
     DEF RegisterUser, LogInUser, LogOutUser, UnregisterUser, Bid, CloseAuction
<1>4. CASE \/ AssetReceived(t) \/ AssetFails(t) \/ ShowAsset(t)
           \/ GetUserAuctions(t) \/ GetUserBids(t) \/ GetAuctionsList(t)
           \/ GetAuctionBiddersList(t)
  BY <1>4
     DEF AssetReceived, AssetFails, ShowAsset, GetUserAuctions, GetUserBids,
         GetAuctionsList, GetAuctionBiddersList, AnswerList, Ends
<1> QED BY <1>2, <1>3, <1>4 DEF Step, Decides

\* Only an idle thread takes a request, and only one that works does the rest.
LEMMA StepStaysBusy ==
  ASSUME TypeInv, NEW t \in Threads, Step(t), Busy(t)
  PROVE  /\ Busy(t)'
         /\ ~Receive(t) => req[t] # None
<1>1. pc \in [Threads -> Steps] /\ req \in [Threads -> Request \cup {None}]
  BY DEF TypeInv, TypeOK
<1>2. ~Receive(t) => pc[t] \notin {"idle", "dead"}
  BY DEF Step, ExistsUser, IsUserLoggedIn, IsAuthenticUser, RegisterUser,
         LogInUser, LogOutUser, UnregisterUser, UpdateDatabase, ExistsAuction,
         GetAuctionInfo, IsAuctionFinished, GetLastBid, Bid, CloseAuction,
         CreateNewAuction, AssetReceived, AssetFails, ShowAsset,
         GetUserAuctions, GetUserBids, GetAuctionsList, GetAuctionBiddersList,
         Calls
<1>3. CASE Receive(t)
  <2>1. PICK r \in Requests :
          /\ req' = [req EXCEPT ![t] = r]
          /\ pc' = [pc EXCEPT ![t] = FirstStep(r.op)]
    BY <1>3 DEF Receive
  <2>2. r # None /\ FirstStep(r.op) \notin {"idle", "dead"}
    BY ServerAssumption DEF FirstStep
  <2> QED BY <1>1, <1>3, <2>1, <2>2 DEF Busy
<1>4. CASE Dies \/ Ends(t)
  <2>1. Dies => Busy(t)'
    BY DEF Dies, Busy
  <2>2. Ends(t) => Busy(t)'
    BY <1>1 DEF Ends, Answer, Busy
  <2>3. Receive(t) \/ req[t] # None
    BY <1>2 DEF Busy
  <2> QED BY <1>4, <2>1, <2>2, <2>3
<1>5. CASE ~Receive(t) /\ \E f : GoesOn(t, f)
  BY <1>1, <1>2, <1>5 DEF GoesOn, Busy
<1> QED BY <1>3, <1>4, <1>5, StepKinds

BusyInv == TypeInv /\ \A t \in Threads : Busy(t)

LEMMA NextStaysBusy == BusyInv /\ [Next]_vars => BusyInv'
<1> SUFFICES ASSUME BusyInv, [Next]_vars PROVE BusyInv'
  OBVIOUS
<1>1. TypeInv'
  BY NextKeepsTypes DEF BusyInv
<1>2. ASSUME NEW t \in Threads, Step(t), NEW x \in Threads PROVE Busy(x)'
  <2>1. CASE Dies
    BY <2>1 DEF Dies, Busy
  <2>2. CASE Alone(t) /\ x # t
    BY <2>2 DEF Alone, Busy, BusyInv
  <2>3. CASE x = t
    BY <1>2, <2>3, StepStaysBusy DEF BusyInv
  <2> QED BY <1>2, <2>1, <2>2, <2>3, StepAlone DEF BusyInv
<1>3. CASE Time \/ UNCHANGED vars
  BY <1>1, <1>3 DEF Time, vars, threadVars, Busy, BusyInv
<1>4. CASE Restart
  BY <1>1, <1>4 DEF Restart, Busy, BusyInv
<1> QED BY <1>1, <1>2, <1>3, <1>4 DEF Next, BusyInv

LEMMA InitBusy == Init => BusyInv
BY InitTypes DEF Init, BusyInv, Busy

-----------------------------------------------------------------------------
(* Who is registered                                                       *)

\* No user is left with an empty password file, which any password would fit.
PasswordsFilled == \A u \in Users : pass[u] # Blank

\* A user who gets a password gets a session with it.
PasswordsWithSession ==
  \A u \in Users : pass'[u] \notin {pass[u], None} => u \in login'

\* Three calls change the password or the session of a user, and so does
\* registering one; the others leave both alone.
LEMMA UsersOrNot ==
  ASSUME NEW t \in Threads, Step(t)
  PROVE  \/ RegisterUser(t) \/ LogInUser(t) \/ LogOutUser(t)
         \/ UnregisterUser(t)
         \/ UNCHANGED <<pass, login>>
<1>1. Asks(t) => UNCHANGED <<pass, login>>
  BY AsksChangeNothing DEF dbVars, userVars
<1>2. UpdateDatabase(t) \/ CloseAuction(t) => UNCHANGED <<pass, login>>
  BY DEF UpdateDatabase, update_database, CloseAuction, close_auction,
         close_auction_unwritten, close_auction_fails, userVars
<1>3. Bid(t) => UNCHANGED <<pass, login>>
  BY DEF Bid, bid, bid_unwritten, bid_fails, userVars
<1>4. CreateNewAuction(t) => UNCHANGED <<pass, login>>
  BY DEF CreateNewAuction, NewAuction, NewAuction_unwritten, OpenAuction,
         create_auction_dir_fails, CreateFailsAndRollsBack, RollbackFails,
         dbVars, userVars
<1>5. AssetReceived(t) \/ AssetFails(t) => UNCHANGED <<pass, login>>
  BY DEF AssetReceived, HostAuction, AssetFails, rollback_auction_dir_creation,
         rollback_auction_dir_creation_fails, RollbackFails, userVars
<1> QED BY <1>1, <1>2, <1>3, <1>4, <1>5 DEF Step, Asks

\* Without failing writes
LEMMA StepOfUsers ==
  ASSUME ~FsErrors, TypeInv, PasswordsFilled, NEW t \in Threads, Step(t)
  PROVE  PasswordsFilled' /\ PasswordsWithSession
<1>1. pass \in [Users -> Passwords \cup {None, Blank}]
  BY DEF TypeInv, TypeOK, DbTypeOK
<1>2. CASE UNCHANGED <<pass, login>>
  BY <1>2 DEF PasswordsFilled, PasswordsWithSession
<1>3. CASE RegisterUser(t)
  <2>1. req[t].passwd \in Passwords /\ uid(t) \in Users
    BY <1>3, RequestFields
       DEF RegisterUser, Calls, TypeInv, Serves, OpsAt, UserOps, uid
  <2>2. /\ pass' = [pass EXCEPT ![uid(t)] = req[t].passwd]
        /\ uid(t) \in login'
    BY <1>3 DEF RegisterUser, register_user
  <2> QED
    BY <1>1, <2>1, <2>2, DbAssumption DEF PasswordsFilled, PasswordsWithSession
<1>4. CASE LogInUser(t) \/ LogOutUser(t)
  <2>1. UNCHANGED pass
    BY <1>4 DEF LogInUser, log_in_user, LogOutUser, log_out_user, dbVars, userVars
  <2> QED BY <2>1 DEF PasswordsFilled, PasswordsWithSession
<1>5. CASE UnregisterUser(t)
  <2>1. UNCHANGED pass \/ pass' = [pass EXCEPT ![uid(t)] = None]
    BY <1>5 DEF UnregisterUser, unregister_user, unregister_user_fails
  <2> QED
    BY <1>1, <2>1, DbAssumption DEF PasswordsFilled, PasswordsWithSession
<1> QED BY <1>2, <1>3, <1>4, <1>5, UsersOrNot

-----------------------------------------------------------------------------
(* For whom the handlers act                                               *)

\* The user was logged in when the handler asked.  If the password is not the
\* one of the request then either it never was since, or there was a moment at
\* which both were right: a password is only set together with a session.
Vouching(t) ==
  req[t] # None /\ op(t) \in CarriesPassword =>
    /\ pc[t] = "is_authentic_user" /\ op(t) # "LIN" =>
         vouched[t] \/ pass[uid(t)] # req[t].passwd
    /\ pc[t] \in ActingSteps => vouched[t]

VouchInv == BusyInv /\ PasswordsFilled /\ \A t \in Threads : Vouching(t)

\* A thread that goes on with its request: once vouched for, it stays so.
LEMMA WatchVouched ==
  ASSUME Watch, NEW t \in Threads, req[t] # None, req'[t] = req[t]
  PROVE  /\ vouched[t] => vouched'[t]
         /\ Vouches(req[t])' => vouched'[t]
BY DEF Watch

\* Threads that do not move
LEMMA OthersVouching ==
  ASSUME Watch, PasswordsWithSession, BusyInv, NEW t \in Threads, Vouching(t),
         pc'[t] = pc[t], req'[t] = req[t]
  PROVE  Vouching(t)'
<1> SUFFICES ASSUME req[t] # None, op(t) \in CarriesPassword
             PROVE  Vouching(t)'
  BY DEF Vouching, op
<1>1. vouched[t] => vouched'[t]
  BY WatchVouched
<1>2. CASE vouched[t]
  BY <1>1, <1>2 DEF Vouching
<1>3. CASE ~vouched[t]
  <2>1. pc[t] \notin ActingSteps
    BY <1>3 DEF Vouching
  <2>2. CASE pc[t] = "is_authentic_user" /\ op(t) # "LIN"
    <3>1. req[t].uid \in Users /\ req[t].passwd # None
      BY RequestFields, DbAssumption
         DEF BusyInv, TypeInv, TypeOK, op, CarriesPassword
    <3>2. pass[req[t].uid] # req[t].passwd
      BY <1>3, <2>2 DEF Vouching, uid
    <3>3. CASE pass'[req[t].uid] # req[t].passwd
      BY <2>1, <3>3 DEF Vouching, uid
    <3>4. CASE pass'[req[t].uid] = req[t].passwd
      <4>1. req[t].uid \in login'
        BY <3>1, <3>2, <3>4 DEF PasswordsWithSession
      <4>2. Vouches(req[t])'
        BY <3>4, <4>1 DEF Vouches, is_user_logged_in, op
      <4> QED BY <4>2, WatchVouched DEF Vouching
    <3> QED BY <3>3, <3>4
  <2>3. CASE ~(pc[t] = "is_authentic_user" /\ op(t) # "LIN")
    BY <2>1, <2>3 DEF Vouching, op
  <2> QED BY <2>2, <2>3
<1> QED BY <1>2, <1>3

\* The thread that goes on
LEMMA OwnVouching ==
  ASSUME Watch, VouchInv, NEW t \in Threads, Decides(t), NEW f, GoesOn(t, f)
  PROVE  Vouching(t)'
<1> SUFFICES ASSUME op(t) \in CarriesPassword, req[t] # None
             PROVE  Vouching(t)'
  BY DEF Vouching, op, GoesOn
<1>1. pc'[t] = f /\ req'[t] = req[t]
  BY DEF GoesOn, VouchInv, BusyInv, TypeInv, TypeOK
<1>0. /\ \A s : ~Refuse(t, s)
      /\ \A g : Goto(t, g) => g = f
  BY <1>1 DEF Refuse, Answer, Goto, GoesOn, VouchInv, BusyInv, TypeInv, TypeOK
<1>2. pc[t] \notin {"idle", "dead"} => op(t) \in OpsAt(pc[t])
  BY DEF VouchInv, BusyInv, TypeInv, Serves, op
<1>3. pc[t] \notin {"idle", "dead"} /\ op(t) \notin {"SRC", "SAS"}
  BY DEF VouchInv, BusyInv, Busy, CarriesPassword, UserOps
<1>4. pc[t] \in ActingSteps => vouched[t]
  BY DEF VouchInv, Vouching
<1>5. (pc[t] \in ActingSteps => vouched'[t])
  BY <1>1, <1>4, WatchVouched
<1>6. CASE ExistsUser(t)
  <2>1. /\ exists_user(uid(t)) =>
             f = IF op(t) = "LIN" THEN "is_authentic_user"
                 ELSE "is_user_logged_in"
        /\ ~exists_user(uid(t)) => f = "register_user"
    BY <1>0, <1>6 DEF ExistsUser
  <2> QED BY <1>1, <2>1 DEF Vouching, ActingSteps, op
<1>7. CASE IsUserLoggedIn(t)
  <2>1. is_user_logged_in(uid(t)) /\ UNCHANGED <<pass, login>>
        /\ f \in {"update_database", "is_authentic_user"}
    BY <1>0, <1>7 DEF IsUserLoggedIn, dbVars, userVars
  <2>2. pass'[uid(t)] = req[t].passwd => Vouches(req[t])'
    BY <1>1, <2>1 DEF Vouches, is_user_logged_in, uid, op
  <2>3. vouched'[t] \/ pass'[req[t].uid] # req[t].passwd
    BY <1>1, <2>2, WatchVouched DEF uid
  <2> QED BY <1>1, <2>1, <2>3 DEF Vouching, ActingSteps, uid
<1>8. CASE IsAuthenticUser(t)
  <2>1. /\ pass[uid(t)] \in {req[t].passwd, Blank}
        /\ f # "is_authentic_user"
        /\ op(t) = "LIN" => f = "log_in_user"
        /\ pc[t] = "is_authentic_user"
    BY <1>0, <1>2, <1>3, <1>8
       DEF IsAuthenticUser, is_authentic_user, Calls, OpsAt, UserOps
  <2>2. uid(t) \in Users
    BY RequestFields DEF VouchInv, BusyInv, TypeInv, TypeOK, op, uid,
       CarriesPassword
  <2>3. op(t) # "LIN" => vouched[t]
    BY <2>1, <2>2 DEF VouchInv, Vouching, PasswordsFilled
  <2> QED
    BY <1>1, <2>1, <2>3, WatchVouched DEF Vouching, ActingSteps, op
<1>9. CASE UpdateDatabase(t)
  <2>1. op(t) \in {"LMA", "LMB", "LST", "SRC", "CLS", "BID"}
    BY <1>2, <1>3, <1>9 DEF UpdateDatabase, Calls, OpsAt
  <2>2. f = "exists_user"
    BY <1>0, <1>9, <2>1 DEF UpdateDatabase, CarriesPassword, UserOps
  <2> QED BY <1>1, <2>2 DEF Vouching, ActingSteps
<1>10. CASE \/ ExistsAuction(t) \/ GetAuctionInfo(t) \/ IsAuctionFinished(t)
            \/ GetLastBid(t) \/ CreateNewAuction(t)
  <2>1. pc[t] \in ActingSteps
    BY <1>10 DEF ExistsAuction, GetAuctionInfo, IsAuctionFinished, GetLastBid,
                 CreateNewAuction, Calls, ActingSteps
  <2>2. vouched'[t]
    BY <1>5, <2>1
  <2> QED BY <2>2 DEF Vouching
<1> QED BY <1>6, <1>7, <1>8, <1>9, <1>10 DEF Decides

\* A thread that takes a request or ends one has nothing to show yet.
LEMMA FreshVouching ==
  ASSUME TypeInv, NEW t \in Threads, Receive(t) \/ Dies \/ Ends(t)
  PROVE  Vouching(t)'
<1>1. pc \in [Threads -> Steps] /\ req \in [Threads -> Request \cup {None}]
  BY DEF TypeInv, TypeOK
<1>2. CASE Receive(t)
  <2>1. PICK r \in Requests :
          /\ req' = [req EXCEPT ![t] = r]
          /\ pc' = [pc EXCEPT ![t] = FirstStep(r.op)]
    BY <1>2 DEF Receive
  <2>2. /\ FirstStep(r.op) # "is_authentic_user"
        /\ r.op \in CarriesPassword => FirstStep(r.op) \notin ActingSteps
    BY DEF FirstStep, CarriesPassword, ActingSteps, UserOps, MyOps
  <2> QED BY <1>1, <2>1, <2>2 DEF Vouching, op
<1>3. CASE Dies
  BY <1>3 DEF Dies, Vouching
<1>4. CASE Ends(t)
  BY <1>1, <1>4 DEF Ends, Answer, Vouching
<1> QED BY <1>2, <1>3, <1>4

LEMMA NextStaysVouching ==
  ASSUME ~FsErrors
  PROVE  VouchInv /\ [AuditNext]_auditVars => VouchInv'
<1> SUFFICES ASSUME VouchInv, [AuditNext]_auditVars PROVE VouchInv'
  OBVIOUS
<1>1. BusyInv'
  BY NextStaysBusy DEF VouchInv, AuditNext, auditVars
<1>2. TypeInv
  BY DEF VouchInv, BusyInv
<1>3. CASE UNCHANGED auditVars
  <2>1. PasswordsFilled'
    BY <1>3 DEF auditVars, vars, dbVars, userVars, VouchInv, PasswordsFilled
  <2>2. \A t \in Threads : Vouching(t)'
    BY <1>3 DEF auditVars, vars, dbVars, userVars, threadVars, VouchInv,
                Vouching, op, uid
  <2> QED BY <1>1, <2>1, <2>2 DEF VouchInv
<1>4. CASE Watch /\ \E t \in Threads : Step(t)
  <2>1. PICK t \in Threads : Step(t)
    BY <1>4
  <2>2. PasswordsFilled' /\ PasswordsWithSession
    BY <1>2, <2>1, StepOfUsers DEF VouchInv
  <2>3. Vouching(t)'
    BY <1>2, <1>4, <2>1, StepKinds, OwnVouching, FreshVouching
  <2>4. ASSUME NEW x \in Threads \ {t} PROVE Vouching(x)'
    <3>1. CASE Dies
      BY <1>2, <3>1, FreshVouching
    <3>2. CASE Alone(t)
      BY <1>4, <2>2, <3>2, OthersVouching DEF Alone, VouchInv
    <3> QED BY <1>2, <2>1, <3>1, <3>2, StepAlone
  <2> QED BY <1>1, <2>2, <2>3, <2>4 DEF VouchInv
<1>5. CASE Watch /\ Time
  <2>1. UNCHANGED <<pass, login, pc, req>>
    BY <1>5 DEF Time, Tick, userVars, threadVars
  <2>2. PasswordsFilled' /\ PasswordsWithSession
    BY <2>1 DEF VouchInv, PasswordsFilled, PasswordsWithSession
  <2>3. \A t \in Threads : Vouching(t)'
    BY <1>5, <2>1, <2>2, OthersVouching DEF VouchInv
  <2> QED BY <1>1, <2>2, <2>3 DEF VouchInv
<1>6. CASE Restart
  <2>1. PasswordsFilled'
    BY <1>6 DEF Restart, load_db_state, userVars, VouchInv, PasswordsFilled
  <2>2. \A t \in Threads : Vouching(t)'
    BY <1>6 DEF Restart, Vouching
  <2> QED BY <1>1, <2>1, <2>2 DEF VouchInv
<1> QED BY <1>3, <1>4, <1>5, <1>6 DEF AuditNext, Next

\* A handler that acts for a user has had a moment, since its request came in,
\* at which that user was logged in with the password of the request, although
\* it asks for the two apart: for every number of users, passwords and workers.
THEOREM ActsForTheUserHolds ==
  ASSUME ~FsErrors
  PROVE  AuditSpec => []ActsForTheUser
<1>1. AuditInit => VouchInv
  <2> SUFFICES ASSUME AuditInit PROVE VouchInv
    OBVIOUS
  <2>1. BusyInv
    BY InitBusy DEF AuditInit
  <2>2. PasswordsFilled
    BY DbAssumption DEF AuditInit, Init, DbInit, PasswordsFilled
  <2>3. \A t \in Threads : Vouching(t)
    BY DEF AuditInit, Init, Vouching
  <2> QED BY <2>1, <2>2, <2>3 DEF VouchInv
<1>2. VouchInv /\ [AuditNext]_auditVars => VouchInv'
  BY NextStaysVouching
<1>3. VouchInv => ActsForTheUser
  <2> SUFFICES ASSUME VouchInv, NEW t \in Threads, pc[t] \in ActingSteps,
                      op(t) \in CarriesPassword
               PROVE  vouched[t]
    BY DEF ActsForTheUser
  <2>1. req[t] # None
    BY DEF VouchInv, BusyInv, Busy, ActingSteps
  <2> QED BY <2>1 DEF VouchInv, Vouching
<1> QED BY <1>1, <1>2, <1>3, PTL DEF AuditSpec

-----------------------------------------------------------------------------
(* What a step leaves of the auctions that requests can find               *)

\* The START line is written in the use of the mutex that numbers the auction.
Started == \A a \in AIDs : a <= aucCount => start[a] # None

\* An asset is whole when the upload has ended.
WholePublished == \A a \in AIDs : asset[a] = "whole" => Published(a)

\* No END file is left empty.
EndsFilled == \A a \in AIDs : end[a] # Blank

\* No step takes the END file of such an auction away, or turns the clock back.
EndsKept ==
  /\ \A a \in AIDs : Published(a) => /\ Published(a)'
                                     /\ start'[a] = start[a]
                                     /\ end[a] # None => end'[a] # None
  /\ now' >= now

LEMMA StepKeepsEnds ==
  ASSUME ~FsErrors, SafeInv, NEW t \in Threads, Step(t)
  PROVE  EndsKept
<1>1. now' = now
  <2>1. Asks(t) => now' = now
    BY AsksChangeNothing DEF dbVars
  <2>2. CASE \/ RegisterUser(t) \/ LogInUser(t) \/ LogOutUser(t)
             \/ UnregisterUser(t) \/ UpdateDatabase(t) \/ CloseAuction(t)
    BY <2>2
       DEF RegisterUser, LogInUser, LogOutUser, UnregisterUser, UpdateDatabase,
           update_database, CloseAuction, log_in_user, log_out_user,
           register_user, register_user_fails, unregister_user,
           unregister_user_fails, close_auction, close_auction_unwritten,
           close_auction_fails, dbVars
  <2>3. CASE \/ Bid(t) \/ CreateNewAuction(t) \/ AssetReceived(t)
             \/ AssetFails(t)
    BY <2>3
       DEF Bid, bid, bid_unwritten, bid_fails, CreateNewAuction, NewAuction,
           OpenAuction, AssetReceived, HostAuction, AssetFails,
           rollback_auction_dir_creation, dbVars
  <2> QED BY <2>1, <2>2, <2>3 DEF Step, Asks
<1>2. \A a \in AIDs : Published(a) => Published(a)'
  BY PublishedStays
<1>3. ASSUME NEW a \in AIDs, Published(a)
      PROVE  start'[a] = start[a] /\ (end[a] # None => end'[a] # None)
  <2>1. /\ start \in [AIDs -> StartRecord \cup {None}]
        /\ end \in [AIDs -> EndRecord \cup {None, Blank}]
        /\ aucCount \in Nat
    BY DEF SafeInv, TypeInv, TypeOK, DbTypeOK
  <2>2. CASE Asks(t)
    BY <2>2, AsksChangeNothing DEF dbVars, auctionVars
  <2>3. CASE UpdateDatabase(t) \/ CloseAuction(t)
    <3>1. UNCHANGED start
      BY <2>3 DEF UpdateDatabase, update_database, CloseAuction, close_auction,
                  close_auction_unwritten, close_auction_fails
    <3> QED BY <2>3, <3>1, EndsStay
  <2>4. CASE \/ RegisterUser(t) \/ LogInUser(t) \/ LogOutUser(t)
             \/ UnregisterUser(t) \/ Bid(t)
    BY <2>4
       DEF RegisterUser, LogInUser, LogOutUser, UnregisterUser, Bid, bid,
           bid_unwritten, bid_fails, log_in_user, log_out_user, register_user,
           register_user_fails, unregister_user, unregister_user_fails, dbVars,
           auctionVars
  <2>5. CASE CreateNewAuction(t)
    <3>1. a # aucCount + 1 /\ DbTypeOK
      BY <1>3, <2>1 DEF Published, SafeInv, TypeInv, TypeOK
    <3> QED BY <2>5, <3>1, CreateChangesNext
  <2>6. CASE AssetReceived(t) \/ AssetFails(t)
    <3>1. a # aucCount /\ uid(t) \in Users /\ DbTypeOK
      BY <1>3, <2>1, <2>6, Uploading
         DEF AssetReceived, AssetFails, SafeInv, TypeInv, TypeOK
    <3> QED BY <2>6, <3>1, UploadEndChangesLast
  <2> QED BY <2>2, <2>3, <2>4, <2>5, <2>6 DEF Step, Asks
<1>4. now \in Nat
  BY DEF SafeInv, TypeInv, TypeOK, DbTypeOK
<1> QED BY <1>1, <1>2, <1>3, <1>4 DEF EndsKept

\* Without failing writes the counter of a server that starts again is right.
LEMMA RestartKeepsEnds ==
  ASSUME ~FsErrors, SafeInv, Restart
  PROVE  EndsKept /\ UNCHANGED <<aucCount, start, end, asset, now>>
<1>1. /\ UNCHANGED <<dirs, start, end, asset, now>>
      /\ mutex' = None /\ aucCount' = Cardinality(dirs)
  BY DEF Restart, load_db_state
<1>2. aucCount' = aucCount /\ aucCount \in Nat /\ now \in Nat
  BY <1>1, FS_Interval
     DEF SafeInv, Safe, FilesSafe, Whole, TypeInv, TypeOK, DbTypeOK
<1> QED BY <1>1, <1>2 DEF EndsKept, Published

LEMMA TimeKeepsEnds ==
  ASSUME SafeInv, Time
  PROVE  EndsKept /\ UNCHANGED <<aucCount, start, end, asset, mutex>>
BY DEF Time, Tick, EndsKept, Published, userVars, auctionVars, SafeInv, TypeInv,
       TypeOK, DbTypeOK

LEMMA StepStaysStarted ==
  ASSUME ~FsErrors, SafeInv, Started, WholePublished, NEW t \in Threads, Step(t)
  PROVE  Started' /\ WholePublished'
<1>1. /\ start \in [AIDs -> StartRecord \cup {None}]
      /\ asset \in [AIDs -> {None, "part", "whole", "mixed"}]
      /\ aucCount \in Nat
  BY DEF SafeInv, TypeInv, TypeOK, DbTypeOK
<1>2. CASE Quiet
  BY <1>2 DEF Quiet, Started, WholePublished, Published
<1>3. CASE Bid(t)
  BY <1>3 DEF Bid, bid, bid_unwritten, bid_fails, Refuse, Started,
              WholePublished, Published
<1>4. CASE CreateNewAuction(t)
  <2>1. mutex = None /\ pc[t] = "create_new_auction"
    BY <1>4 DEF CreateNewAuction, Calls
  <2>2. CASE UNCHANGED dbVars /\ Refuse(t, "NOK")
    BY <2>2 DEF Refuse, dbVars, auctionVars, Started, WholePublished, Published
  <2>3. CASE NewAuction(uid(t), req[t].value, req[t].timeActive)
    <3> DEFINE line == StartLine(uid(t), req[t].value, req[t].timeActive)
    <3>0. line # None
      <4>1. req[t] \in Request /\ req[t].op = "OPA" /\ DbTypeOK
        BY <2>1 DEF SafeInv, TypeInv, TypeOK, Serves, OpsAt
      <4> QED BY <4>1, RequestFields, StartLineIsRecord, DbAssumption DEF uid
    <3> HIDE DEF line
    <3>1. /\ aucCount' = aucCount + 1
          /\ start' = [start EXCEPT ![aucCount + 1] = line]
          /\ \E file \in {"part", "mixed"} :
               asset' = [asset EXCEPT ![aucCount + 1] = file]
          /\ \A a \in AIDs : a # aucCount + 1 => start'[a] = start[a]
      BY <1>1, <2>3 DEF NewAuction, OpenAuction, Opened, line
    <3>2. aucCount + 1 \in AIDs => start'[aucCount + 1] # None
      BY <1>1, <3>0, <3>1
    <3>3. \A a \in AIDs : a <= aucCount + 1 => a <= aucCount \/ a = aucCount + 1
      BY <1>1 DEF AIDs
    <3>4. Started'
      BY <3>1, <3>2, <3>3 DEF Started
    <3>5. \A a \in AIDs : asset'[a] = "whole" => Published(a) /\ a # aucCount + 1
      BY <1>1, <3>1 DEF WholePublished
    <3>6. \A a : Published(a) => Published(a)'
      BY <1>4, PublishedStays DEF Step
    <3> QED BY <3>4, <3>5, <3>6 DEF WholePublished
  <2> QED BY <1>4, <2>2, <2>3 DEF CreateNewAuction
<1>5. CASE AssetReceived(t) \/ AssetFails(t)
  <2>1. /\ aucCount \in AIDs /\ mutex # None /\ mutex' = None
        /\ start[aucCount] # None
    BY <1>5, Uploading DEF AssetReceived, AssetFails
  <2>2. \A a : Published(a) => Published(a)'
    BY <1>5, PublishedStays DEF Step
  <2>3. CASE AssetReceived(t)
    <3>1. /\ UNCHANGED <<aucCount, start>>
          /\ \A a \in AIDs : a # aucCount => asset'[a] = asset[a]
      BY <1>1, <2>3 DEF AssetReceived, HostAuction
    <3>2. Published(aucCount)'
      BY <2>1, <3>1 DEF Published, AIDs
    <3> QED BY <2>2, <3>1, <3>2 DEF Started, WholePublished
  <2>4. CASE AssetFails(t)
    <3>1. /\ aucCount' = aucCount - 1
          /\ \A a \in AIDs : a # aucCount =>
               asset'[a] = asset[a] /\ start'[a] = start[a]
          /\ asset'[aucCount] = None
      BY <1>1, <2>1, <2>4
         DEF AssetFails, rollback_auction_dir_creation, EmptyDirectory
    <3>2. \A a \in AIDs : a <= aucCount - 1 => a <= aucCount /\ a # aucCount
      BY <1>1 DEF AIDs
    <3> QED
      BY <2>2, <3>1, <3>2, DbAssumption DEF Started, WholePublished
  <2> QED BY <1>5, <2>3, <2>4
<1> QED BY <1>2, <1>3, <1>4, <1>5, QuietOrNot

-----------------------------------------------------------------------------
(* What a handler knows of the end of an auction                           *)

\* The auction of a request to close one can be found.
Closing(t) ==
  pc[t] \in {"get_auction_info", "is_auction_finished", "close_auction"}
    /\ op(t) = "CLS" => Published(aid(t))

Finished(a) ==
  /\ Published(a)
  /\ end[a] # None \/ now >= start[a].time + start[a].timeActive

\* The handler of t has brought the database up to date for its request.
Updated(t) ==
  \/ op(t) \in {"CLS", "BID"} /\ pc[t] # "update_database"
  \/ op(t) = "SRC" /\ pc[t] \in {"get_auction_info", "get_auction_bidders_list"}
  \/ pc[t] \in {"get_user_auctions", "get_user_bids", "get_auctions_list"}

\* What was over when the request came in has its END file since the handler
\* ran update_database, and the auction the handler goes on with has not.
Timely(t) ==
  /\ \A a \in over[t] : a \in AIDs /\ Finished(a)
  /\ req[t] # None /\ Updated(t) => \A a \in over[t] : end[a] # None
  /\ pc[t] \in {"get_last_bid", "bid", "close_auction"} => aid(t) \notin over[t]

FilesTimely == Started /\ WholePublished /\ EndsFilled

TimelyInv ==
  SafeInv /\ BusyInv /\ FilesTimely /\ \A t \in Threads : Closing(t) /\ Timely(t)

LEMMA StepStaysFilled ==
  ASSUME ~FsErrors, TimelyInv, NEW t \in Threads, Step(t)
  PROVE  EndsFilled'
<1>1. end \in [AIDs -> EndRecord \cup {None, Blank}] /\ EndsFilled
  BY DEF TimelyInv, SafeInv, TypeInv, TypeOK, DbTypeOK, FilesTimely
<1>2. CASE UNCHANGED end
  BY <1>1, <1>2 DEF EndsFilled
<1>3. CASE UpdateDatabase(t)
  <2>1. update_database({}, {})
    BY <1>3 DEF UpdateDatabase
  <2>2. \A a \in AIDs : Expired(a) =>
          [time |-> start[a].time + start[a].timeActive,
           secs |-> start[a].timeActive] \in EndRecord
    BY DEF Expired, StartRecord, EndRecord, TimelyInv, SafeInv, TypeInv, TypeOK,
           DbTypeOK
  <2> QED BY <1>1, <2>1, <2>2, DbAssumption DEF update_database, EndsFilled
<1>4. CASE CloseAuction(t)
  <2>1. aid(t) \in AIDs /\ Published(aid(t))
    BY <1>4 DEF CloseAuction, Calls, TimelyInv, Closing, SafeInv, TypeInv, Serves,
                OpsAt, AfterExists, op, aid
  <2>2. start[aid(t)] # None
    BY <2>1 DEF TimelyInv, FilesTimely, Started, Published
  <2>3. close_auction(aid(t))
    BY <1>4, <2>2 DEF CloseAuction
  <2>4. [time |-> now, secs |-> now - start[aid(t)].time] \in EndRecord
    BY <2>1, <2>2 DEF StartRecord, EndRecord, TimelyInv, SafeInv, TypeInv, TypeOK,
                      DbTypeOK
  <2> QED BY <1>1, <2>1, <2>3, <2>4, DbAssumption DEF close_auction, EndsFilled
<1>5. CASE CreateNewAuction(t)
  BY <1>1, <1>2, <1>5
     DEF CreateNewAuction, NewAuction, OpenAuction, dbVars, auctionVars
<1>6. CASE AssetReceived(t) \/ AssetFails(t)
  <2>1. UNCHANGED end \/ end' = [end EXCEPT ![aucCount] = None]
    BY <1>6 DEF AssetReceived, HostAuction, AssetFails,
                rollback_auction_dir_creation, EmptyDirectory
  <2> QED BY <1>1, <2>1, DbAssumption DEF EndsFilled
<1>7. CASE \/ RegisterUser(t) \/ LogInUser(t) \/ LogOutUser(t)
           \/ UnregisterUser(t) \/ Bid(t)
  BY <1>2, <1>7
     DEF RegisterUser, LogInUser, LogOutUser, UnregisterUser, Bid, bid,
         bid_unwritten, bid_fails, log_in_user, log_out_user, register_user,
         register_user_fails, unregister_user, unregister_user_fails, dbVars,
         auctionVars
<1>8. Asks(t) => UNCHANGED end
  BY AsksChangeNothing DEF dbVars, auctionVars
<1> QED BY <1>2, <1>3, <1>4, <1>5, <1>6, <1>7, <1>8 DEF Step, Asks

\* A thread that takes a request or ends one: over[t] is what is over now.
LEMMA FreshTimely ==
  ASSUME TimelyInv, Watch, Started', WholePublished', NEW t \in Threads,
         (Receive(t) /\ UNCHANGED dbVars) \/ Dies \/ Ends(t)
  PROVE  Closing(t)' /\ Timely(t)'
<1>1. pc \in [Threads -> Steps] /\ req \in [Threads -> Request \cup {None}]
  BY DEF TimelyInv, SafeInv, TypeInv, TypeOK
<1>2. CASE Receive(t) /\ UNCHANGED dbVars
  <2>1. PICK r \in Requests :
          /\ req' = [req EXCEPT ![t] = r]
          /\ pc' = [pc EXCEPT ![t] = FirstStep(r.op)]
    BY <1>2 DEF Receive
  <2>2. req[t] = None /\ req'[t] = r /\ pc'[t] = FirstStep(r.op) /\ r # None
    BY <1>1, <1>2, <2>1, ServerAssumption
       DEF Receive, TimelyInv, BusyInv, Busy
  <2>3. /\ FirstStep(r.op) \in {"exists_user", "update_database",
                                "exists_auction"}
        /\ r.op \in {"CLS", "BID"} => FirstStep(r.op) = "update_database"
    BY DEF FirstStep, UserOps, MyOps
  <2>4. over'[t] = Over'
    BY <2>2 DEF Watch
  <2>5. \A a \in Over' : a \in AIDs /\ Finished(a)'
    BY DEF Over, WholePublished, Finished, is_auction_finished
  <2>6. Closing(t)'
    BY <2>2, <2>3 DEF Closing
  <2> QED BY <2>2, <2>3, <2>4, <2>5, <2>6 DEF Timely, Updated, op
<1>3. CASE Dies \/ Ends(t)
  <2>1. req'[t] = None /\ pc'[t] \in {"idle", "dead"}
    <3>1. Dies => req'[t] = None /\ pc'[t] \in {"idle", "dead"}
      BY DEF Dies
    <3>2. Ends(t) => req'[t] = None /\ pc'[t] \in {"idle", "dead"}
      BY <1>1 DEF Ends, Answer
    <3> QED BY <1>3, <3>1, <3>2
  <2>2. over'[t] = {}
    BY <2>1 DEF Watch
  <2> QED BY <2>1, <2>2 DEF Closing, Timely
<1> QED BY <1>2, <1>3

\* What was over stays over and keeps its END file.
LEMMA FinishedStays ==
  ASSUME SafeInv, SafeInv', Started, EndsKept, NEW a \in AIDs, Finished(a)
  PROVE  Finished(a)' /\ (end[a] # None => end'[a] # None)
<1>1. Published(a)' /\ start'[a] = start[a] /\ (end[a] # None => end'[a] # None)
  BY DEF EndsKept, Finished
<1>2. start[a] \in StartRecord
  BY DEF Started, Finished, Published, SafeInv, TypeInv, TypeOK, DbTypeOK
<1>3. start[a].time + start[a].timeActive \in Nat /\ now \in Nat /\ now' >= now
  BY <1>2 DEF StartRecord, EndsKept, SafeInv, TypeInv, TypeOK, DbTypeOK
<1>4. now >= start[a].time + start[a].timeActive
        => now' >= start'[a].time + start'[a].timeActive
  <2>1. now' \in Int
    BY DEF SafeInv, TypeInv, TypeOK, DbTypeOK
  <2> QED BY <1>1, <1>3, <2>1
<1> QED BY <1>1, <1>4 DEF Finished

\* Threads that do not move
LEMMA OthersTimely ==
  ASSUME TimelyInv, SafeInv', EndsKept, Watch, NEW t \in Threads,
         pc'[t] = pc[t], req'[t] = req[t]
  PROVE  Closing(t)' /\ Timely(t)'
<1>1. /\ Closing(t) /\ Timely(t) /\ SafeInv /\ Started
      /\ aid(t)' = aid(t) /\ op(t)' = op(t)
  BY DEF TimelyInv, FilesTimely, aid, op
<1>2. Closing(t)'
  <2> SUFFICES ASSUME pc[t] \in AfterExists, op(t) = "CLS", Published(aid(t))
               PROVE  Published(aid(t))'
    BY <1>1 DEF Closing, AfterExists
  <2>1. aid(t) \in AIDs
    BY <1>1 DEF SafeInv, TypeInv, Serves, AfterExists, aid
  <2>2. \A a \in AIDs : Published(a) => Published(a)'
    BY DEF EndsKept
  <2> QED BY <1>1, <2>1, <2>2 DEF Published
<1>3. CASE req[t] = None
  <2>1. over'[t] = {}
    BY <1>3 DEF Watch
  <2> QED BY <1>2, <1>3, <2>1 DEF Timely
<1>4. CASE req[t] # None
  <2>1. over'[t] = over[t]
    BY <1>4 DEF Watch
  <2>2. \A a \in over[t] :
          /\ a \in AIDs /\ Finished(a)'
          /\ end[a] # None => end'[a] # None
    BY <1>1, FinishedStays DEF Timely
  <2>3. Updated(t)' => Updated(t)
    BY <1>1 DEF Updated
  <2> QED BY <1>1, <1>2, <1>4, <2>1, <2>2, <2>3 DEF Timely
<1> QED BY <1>3, <1>4

\* The thread that goes on
LEMMA OwnTimely ==
  ASSUME ~FsErrors, TimelyInv, SafeInv', EndsKept, Watch, NEW t \in Threads,
         Decides(t), NEW f, GoesOn(t, f), req[t] # None
  PROVE  Closing(t)' /\ Timely(t)'
<1>1. /\ pc'[t] = f /\ req'[t] = req[t]
      /\ aid(t)' = aid(t) /\ op(t)' = op(t)
  BY DEF GoesOn, aid, op, TimelyInv, SafeInv, TypeInv, TypeOK
<1>2. /\ \A s : ~Refuse(t, s)
      /\ \A g : Goto(t, g) => g = f
  BY <1>1 DEF Refuse, Answer, Goto, GoesOn, TimelyInv, SafeInv, TypeInv, TypeOK
<1>3. /\ Closing(t) /\ Timely(t) /\ SafeInv /\ Started
      /\ op(t) \in OpsAt(pc[t]) /\ req[t] \in Request
      /\ pc[t] \in AfterExists => aid(t) \in AIDs
  BY DEF TimelyInv, FilesTimely, BusyInv, Busy, TypeInv, Serves, op, aid
<1>4. over'[t] = over[t]
  BY <1>1 DEF Watch
<1>5. \A a \in over[t] :
        /\ a \in AIDs /\ Finished(a) /\ Finished(a)'
        /\ end[a] # None => end'[a] # None
  BY <1>3, FinishedStays DEF Timely
<1>6. \A a \in AIDs : Published(a) => Published(a)'
  BY DEF EndsKept
<1>7. CASE ExistsUser(t) \/ IsUserLoggedIn(t) \/ IsAuthenticUser(t)
  <2>1. f \in {"is_authentic_user", "is_user_logged_in", "register_user",
               "update_database", "log_in_user", "log_out_user",
               "unregister_user", "create_new_auction", "exists_auction"}
    <3>1. CASE ExistsUser(t)
      BY <1>2, <3>1 DEF ExistsUser
    <3>2. CASE IsUserLoggedIn(t)
      BY <1>2, <3>2 DEF IsUserLoggedIn
    <3>3. CASE IsAuthenticUser(t)
      <4>1. op(t) \in UserOps \cup {"OPA", "CLS", "BID"}
        BY <1>3, <3>3 DEF IsAuthenticUser, Calls, OpsAt
      <4> QED BY <1>2, <3>3, <4>1 DEF IsAuthenticUser, UserOps
    <3> QED BY <1>7, <3>1, <3>2, <3>3
  <2>2. Updated(t)' => Updated(t)
    BY <1>1, <1>7, <2>1
       DEF Updated, ExistsUser, IsUserLoggedIn, IsAuthenticUser, Calls
  <2> QED
    BY <1>1, <1>3, <1>4, <1>5, <2>1, <2>2 DEF Closing, Timely
<1>8. CASE UpdateDatabase(t)
  <2>1. /\ f \in {"exists_user", "get_user_auctions", "get_user_bids",
                  "get_auctions_list", "get_auction_info"}
        /\ f = "get_auction_info" => op(t) = "SRC"
    <3>1. op(t) \in {"LMA", "LMB", "LST", "SRC", "CLS", "BID"}
      BY <1>3, <1>8 DEF UpdateDatabase, Calls, OpsAt
    <3> QED BY <1>2, <1>8, <3>1 DEF UpdateDatabase
  <2>2. \A a \in over[t] : end'[a] # None
    <3>1. update_database({}, {})
      BY <1>8 DEF UpdateDatabase
    <3> SUFFICES ASSUME NEW a \in over[t], end[a] = None
                 PROVE  end'[a] # None
      BY <1>5
    <3>2. a \in AIDs /\ start[a] \in StartRecord /\ start[a] # None
      BY <1>3, <1>5
         DEF Started, Finished, Published, SafeInv, TypeInv, TypeOK, DbTypeOK
    <3>3. now >= start[a].time + start[a].timeActive
      BY <1>5 DEF Finished
    <3>4. Expired(a)
      BY <3>2, <3>3 DEF Expired, StartRecord, SafeInv, TypeInv, TypeOK, DbTypeOK,
                        TimelyInv
    <3>5. [time |-> start[a].time + start[a].timeActive,
           secs |-> start[a].timeActive] \in EndRecord
      BY <3>2 DEF StartRecord, EndRecord
    <3> QED BY <3>1, <3>2, <3>4, <3>5, DbAssumption DEF update_database
  <2> QED BY <1>1, <1>4, <1>5, <2>1, <2>2 DEF Closing, Timely
<1>9. CASE ExistsAuction(t)
  <2>1. exists_auction(aid(t)) /\ mutex = None /\ mutex' = None
        /\ aucCount' = aucCount
    BY <1>2, <1>9 DEF ExistsAuction, Calls, Goto, dbVars, auctionVars
  <2>2. /\ op(t) \in {"SRC", "SAS", "CLS", "BID"} /\ pc[t] = "exists_auction"
        /\ aid(t) \in 0..MaxAuctions
    BY <1>3, <1>9, RequestFields DEF ExistsAuction, Calls, OpsAt, op, aid
  <2>3. aid(t) \in 1..aucCount
    BY <2>1, <2>2, DbAssumption
       DEF exists_auction, SafeInv, TypeInv, TypeOK, DbTypeOK, TimelyInv
  <2>4. Published(aid(t))'
    BY <1>1, <2>1, <2>3 DEF Published
  <2>5. f \in {"update_database", "get_auction_info"}
        /\ (f = "get_auction_info" => op(t) # "SRC")
    BY <1>2, <1>9, <2>1 DEF ExistsAuction
  <2>6. Updated(t)' => Updated(t)
    BY <1>1, <2>2, <2>5 DEF Updated
  <2> QED BY <1>1, <1>3, <1>4, <1>5, <2>4, <2>5, <2>6 DEF Closing, Timely
<1>10. CASE GetAuctionInfo(t)
  <2>1. /\ pc[t] = "get_auction_info"
        /\ op(t) \in {"SRC", "SAS", "CLS", "BID"}
        /\ f = CASE op(t) = "SAS" -> "show_asset"
                 [] op(t) = "SRC" -> "get_auction_bidders_list"
                 [] op(t) \in {"CLS", "BID"} -> "is_auction_finished"
    <3>1. pc[t] = "get_auction_info"
      BY <1>10 DEF GetAuctionInfo, Calls
    <3>2. op(t) \in {"SRC", "SAS", "CLS", "BID"}
      BY <1>3, <3>1 DEF OpsAt
    <3>3. ~Dies
      BY <1>1 DEF Dies, GoesOn
    <3> QED
      BY <1>1, <1>2, <1>10, <3>1, <3>2, <3>3
         DEF GetAuctionInfo, SafeInv, TypeInv, TypeOK, TimelyInv
  <2>2. aid(t) \in AIDs
    BY <1>3, <2>1 DEF AfterExists
  <2>3. op(t) = "CLS" => Published(aid(t))'
    <3>1. op(t) = "CLS" => Published(aid(t))
      BY <1>3, <2>1 DEF Closing
    <3> QED BY <1>1, <1>6, <2>2, <3>1 DEF Published
  <2>4. Updated(t)' => Updated(t)
    BY <1>1, <2>1 DEF Updated
  <2> QED BY <1>1, <1>3, <1>4, <1>5, <2>1, <2>3, <2>4 DEF Closing, Timely
<1>11. CASE IsAuctionFinished(t)
  <2>1. /\ end[aid(t)] = None
        /\ pc[t] = "is_auction_finished" /\ op(t) \in {"CLS", "BID"}
        /\ f = IF op(t) = "CLS" THEN "close_auction" ELSE "get_last_bid"
    BY <1>2, <1>3, <1>11
       DEF IsAuctionFinished, is_auction_finished, Calls, OpsAt
  <2>2. Updated(t) /\ aid(t) \in AIDs
    BY <1>3, <2>1 DEF Updated, AfterExists
  <2>3. aid(t) \notin over[t]
    BY <1>3, <2>1, <2>2 DEF Timely
  <2>4. op(t) = "CLS" => Published(aid(t))'
    <3>1. op(t) = "CLS" => Published(aid(t))
      BY <1>3, <2>1 DEF Closing
    <3> QED BY <1>1, <1>6, <2>2, <3>1 DEF Published
  <2> QED
    BY <1>1, <1>3, <1>4, <1>5, <2>2, <2>3, <2>4 DEF Closing, Timely
<1>12. CASE GetLastBid(t)
  <2>1. f = "bid" /\ pc[t] = "get_last_bid" /\ op(t) = "BID"
    BY <1>2, <1>3, <1>12 DEF GetLastBid, Calls, OpsAt
  <2>2. Updated(t)
    BY <2>1 DEF Updated
  <2> QED BY <1>1, <1>3, <1>4, <1>5, <2>1, <2>2 DEF Closing, Timely
<1>13. CASE CreateNewAuction(t)
  <2>1. /\ pc[t] = "create_new_auction" /\ op(t) = "OPA"
        /\ f = "as_recv_asset_file"
    BY <1>1, <1>2, <1>3, <1>13
       DEF CreateNewAuction, AwaitAsset, Calls, OpsAt, SafeInv, TypeInv, TypeOK,
           TimelyInv
  <2>2. ~Updated(t)'
    BY <1>1, <2>1 DEF Updated
  <2> QED BY <1>1, <1>4, <1>5, <2>1, <2>2 DEF Closing, Timely
<1> QED
  BY <1>7, <1>8, <1>9, <1>10, <1>11, <1>12, <1>13 DEF Decides

LEMMA NextStaysTimely ==
  ASSUME ~FsErrors
  PROVE  TimelyInv /\ [AuditNext]_auditVars => TimelyInv'
<1> SUFFICES ASSUME TimelyInv, [AuditNext]_auditVars PROVE TimelyInv'
  OBVIOUS
<1>1. SafeInv /\ BusyInv /\ FilesTimely /\ [Next]_vars
  BY DEF TimelyInv, AuditNext, auditVars
<1>2. SafeInv' /\ BusyInv'
  BY <1>1, NextStaysSafe, NextStaysBusy DEF NoRestartAfterFailure
<1>3. CASE UNCHANGED auditVars
  <2>1. FilesTimely'
    BY <1>1, <1>3
       DEF auditVars, vars, dbVars, auctionVars, FilesTimely, Started,
           WholePublished, EndsFilled, Published
  <2>2. \A t \in Threads : Closing(t)' /\ Timely(t)'
    BY <1>3
       DEF auditVars, vars, dbVars, auctionVars, threadVars, TimelyInv, Closing,
           Timely, Updated, Finished, Published, aid, op
  <2> QED BY <1>2, <2>1, <2>2 DEF TimelyInv
<1>4. CASE Watch /\ \E t \in Threads : Step(t)
  <2>1. PICK t \in Threads : Step(t)
    BY <1>4
  <2>2. Started' /\ WholePublished' /\ EndsFilled'
    BY <1>1, <2>1, StepStaysStarted, StepStaysFilled DEF FilesTimely
  <2>3. EndsKept
    BY <1>1, <2>1, StepKeepsEnds
  <2>4. Receive(t) => UNCHANGED dbVars
    BY DEF Receive
  <2>5. TypeInv /\ Busy(t)
    BY <1>1 DEF BusyInv
  <2>6. Closing(t)' /\ Timely(t)'
    <3>1. CASE Receive(t) \/ Dies \/ Ends(t)
      BY <1>4, <2>2, <2>4, <3>1, FreshTimely
    <3>2. CASE ~Receive(t) /\ Decides(t) /\ \E f : GoesOn(t, f)
      <4>1. req[t] # None
        BY <2>1, <2>5, <3>2, StepStaysBusy
      <4> QED BY <1>2, <1>4, <2>3, <3>2, <4>1, OwnTimely
    <3> QED BY <2>1, <2>5, <3>1, <3>2, StepKinds
  <2>7. ASSUME NEW x \in Threads \ {t} PROVE Closing(x)' /\ Timely(x)'
    <3>1. CASE Dies
      BY <1>4, <2>2, <3>1, FreshTimely
    <3>2. CASE Alone(t)
      BY <1>2, <1>4, <2>3, <3>2, OthersTimely DEF Alone
    <3> QED BY <2>1, <2>5, <3>1, <3>2, StepAlone
  <2> QED BY <1>2, <2>2, <2>6, <2>7 DEF TimelyInv, FilesTimely
<1>5. CASE Watch /\ Time
  <2>1. EndsKept /\ UNCHANGED <<aucCount, start, end, asset, mutex>>
    BY <1>1, <1>5, TimeKeepsEnds
  <2>2. FilesTimely'
    BY <1>1, <2>1
       DEF FilesTimely, Started, WholePublished, EndsFilled, Published
  <2>3. \A t \in Threads : Closing(t)' /\ Timely(t)'
    BY <1>2, <1>5, <2>1, OthersTimely DEF Time, threadVars
  <2> QED BY <1>2, <2>2, <2>3 DEF TimelyInv
<1>6. CASE Watch /\ Restart
  <2>1. EndsKept /\ UNCHANGED <<aucCount, start, end, asset, now>>
    BY <1>1, <1>6, RestartKeepsEnds
  <2>2. FilesTimely'
    BY <1>1, <2>1
       DEF FilesTimely, Started, WholePublished, EndsFilled, EndsKept
  <2>3. \A t \in Threads : req'[t] = None /\ pc'[t] = "idle"
    BY <1>6 DEF Restart
  <2>4. \A t \in Threads : over'[t] = {}
    BY <1>6, <2>3 DEF Watch
  <2>5. \A t \in Threads : Closing(t)' /\ Timely(t)'
    BY <2>3, <2>4 DEF Closing, Timely
  <2> QED BY <1>2, <2>2, <2>5 DEF TimelyInv
<1> QED BY <1>3, <1>4, <1>5, <1>6 DEF AuditNext, Next

\* What the theorems below rest on, restarts included.
THEOREM TimelyHolds ==
  ASSUME ~FsErrors
  PROVE  AuditSpec => []TimelyInv
<1>1. AuditInit => TimelyInv
  <2> SUFFICES ASSUME AuditInit PROVE TimelyInv
    OBVIOUS
  <2>1. SafeInv /\ BusyInv
    BY InitSafe, InitBusy DEF AuditInit
  <2>2. FilesTimely
    BY DbAssumption
       DEF AuditInit, Init, DbInit, FilesTimely, Started, WholePublished,
           EndsFilled, AIDs
  <2>3. \A t \in Threads : Closing(t) /\ Timely(t)
    BY DEF AuditInit, Init, Closing, Timely
  <2> QED BY <2>1, <2>2, <2>3 DEF TimelyInv
<1>2. TimelyInv /\ [AuditNext]_auditVars => TimelyInv'
  BY NextStaysTimely
<1> QED BY <1>1, <1>2, PTL DEF AuditSpec

\* No bid is entered on an auction that was over when the request came in, and
\* no such auction is closed again: what update_database wrote early in the
\* handler is never lost before is_auction_finished looks at it.
THEOREM ActsInTimeHolds ==
  ASSUME ~FsErrors
  PROVE  AuditSpec => []ActsInTime
<1>1. TimelyInv => ActsInTime
  BY DEF TimelyInv, Timely, ActsInTime
<1> QED BY <1>1, TimelyHolds, PTL

-----------------------------------------------------------------------------
(* What the replies list                                                   *)

ListsAreInTime ==
  \A t \in Threads :
    pc[t] # "idle" /\ pc'[t] = "idle" => reply'[t].active \cap over[t] = {}

\* The replies that name an auction as active
LEMMA RepliesWithActive ==
  ASSUME TypeInv, NEW t \in Threads, Step(t), Ends(t)
  PROVE  \/ reply'[t].active = {}
         \/ \E aids : /\ reply'[t].active = Active(aids)
                      /\ pc[t] \in {"get_user_auctions", "get_user_bids",
                                    "get_auctions_list"}
         \/ AssetReceived(t) /\ reply'[t].active = {aucCount}
         \/ /\ pc[t] = "get_auction_bidders_list"
            /\ end[aid(t)] \notin EndRecord /\ reply'[t].active = {aid(t)}
<1>1. /\ reply \in [Threads -> Reply] /\ pc \in [Threads -> Steps]
  BY DEF TypeInv, TypeOK
<1>2. \A r : Answer(t, r) => reply'[t] = r
  BY <1>1 DEF Answer
<1>3. \A s : Status(s).active = {}
  BY DEF Status
<1>4. \A s : Refuse(t, s) => reply'[t].active = {}
  BY <1>2, <1>3 DEF Refuse
<1>5. ASSUME NEW aids, AnswerList(t, aids)
      PROVE  reply'[t].active \in {{}, Active(aids)}
  BY <1>2, <1>3, <1>5 DEF AnswerList, Status
<1>6. CASE GetUserAuctions(t) \/ GetUserBids(t) \/ GetAuctionsList(t)
  <2>1. \E aids : AnswerList(t, aids)
    BY <1>6 DEF GetUserAuctions, GetUserBids, GetAuctionsList
  <2>2. pc[t] \in {"get_user_auctions", "get_user_bids", "get_auctions_list"}
    BY <1>6 DEF GetUserAuctions, GetUserBids, GetAuctionsList, Calls
  <2> QED BY <1>5, <2>1, <2>2
<1>7. CASE GetAuctionBiddersList(t)
  BY <1>2, <1>7 DEF GetAuctionBiddersList, Calls, Status
<1>8. CASE AssetReceived(t)
  BY <1>2, <1>8 DEF AssetReceived, Status
<1>9. CASE ShowAsset(t) \/ AssetFails(t)
  BY <1>2, <1>3, <1>9 DEF ShowAsset, AssetFails, Status
<1>10. CASE Receive(t)
  BY <1>1, <1>10 DEF Receive, Ends, Answer, FirstStep
<1>11. CASE Dies
  BY <1>3, <1>11 DEF Dies
<1>12. CASE \E s : Refuse(t, s)
  BY <1>4, <1>12
<1>13. CASE \/ RegisterUser(t) \/ LogInUser(t) \/ LogOutUser(t)
            \/ UnregisterUser(t) \/ Bid(t) \/ CloseAuction(t)
  BY <1>12, <1>13
     DEF RegisterUser, LogInUser, LogOutUser, UnregisterUser, Bid, CloseAuction
<1>14. CASE \E f : GoesOn(t, f)
  BY <1>1, <1>14 DEF GoesOn, Ends, Answer
<1>15. Decides(t) => Dies \/ (\E s : Refuse(t, s)) \/ \E f : GoesOn(t, f)
  BY DecidesKinds
<1> QED
  BY <1>6, <1>7, <1>8, <1>9, <1>10, <1>11, <1>12, <1>13, <1>14, <1>15
     DEF Step, Decides

LEMMA ListsStayInTime ==
  ASSUME TimelyInv, [AuditNext]_auditVars
  PROVE  [ListsAreInTime]_auditVars
<1> SUFFICES ASSUME Next, NEW t \in Threads, pc[t] # "idle", pc'[t] = "idle"
             PROVE  reply'[t].active \cap over[t] = {}
  BY DEF AuditNext, ListsAreInTime
<1>1. /\ TypeInv /\ SafeInv /\ Busy(t) /\ Timely(t) /\ EndsFilled
      /\ pc \in [Threads -> Steps]
  BY DEF TimelyInv, BusyInv, FilesTimely, TypeInv, TypeOK
<1>2. CASE Restart
  BY <1>2 DEF Restart, Status
<1>3. CASE Time
  BY <1>3 DEF Time, threadVars
<1>4. ASSUME NEW x \in Threads, Step(x)
      PROVE  reply'[t].active \cap over[t] = {}
  <2>1. ~Dies
    BY DEF Dies
  <2>2. x = t
    BY <1>1, <1>4, <2>1, StepAlone DEF Alone
  <2>3. ~Receive(t)
    BY DEF Receive
  <2>4. ~ \E f : GoesOn(t, f)
    BY <1>1 DEF GoesOn
  <2>5. Ends(t)
    BY <1>1, <1>4, <2>1, <2>2, <2>3, <2>4, StepKinds
  <2>6. req[t] # None
    BY <1>1, <1>4, <2>2, <2>3, StepStaysBusy
  <2>7. Updated(t) => \A a \in over[t] : end[a] # None
    BY <1>1, <2>6 DEF Timely
  <2>8. CASE pc[t] \in {"get_user_auctions", "get_user_bids",
                        "get_auctions_list"}
    <3>1. \A a \in over[t] : is_auction_finished(a)
      BY <2>7, <2>8 DEF Updated, is_auction_finished
    <3>2. \A aids : Active(aids) \cap over[t] = {}
      BY <3>1 DEF Active, Ended
    <3>3. ~AssetReceived(t)
      BY <2>8 DEF AssetReceived
    <3> QED
      BY <1>1, <1>4, <2>2, <2>5, <2>8, <3>2, <3>3, RepliesWithActive
  <2>9. CASE AssetReceived(t)
    <3>1. ~Published(aucCount) /\ pc[t] = "as_recv_asset_file"
      <4>1. aucCount \in AIDs /\ \A c \in AIDs : Published(c) <=> c < aucCount
        BY <1>1, <2>9, Uploading DEF AssetReceived
      <4> QED BY <2>9, <4>1 DEF AssetReceived, AIDs
    <3>2. aucCount \notin over[t]
      BY <1>1, <3>1 DEF Timely, Finished
    <3> QED BY <1>1, <1>4, <2>2, <2>5, <3>1, <3>2, RepliesWithActive
  <2>10. CASE /\ pc[t] = "get_auction_bidders_list"
              /\ end[aid(t)] \notin EndRecord /\ reply'[t].active = {aid(t)}
    <3>1. op(t) = "SRC" /\ aid(t) \in AIDs
      BY <1>1, <2>10 DEF TypeInv, Serves, OpsAt, AfterExists, op, aid
    <3>2. end[aid(t)] = None
      BY <1>1, <2>10, <3>1 DEF TypeInv, TypeOK, DbTypeOK, EndsFilled
    <3>3. aid(t) \notin over[t]
      BY <2>7, <2>10, <3>1, <3>2 DEF Updated
    <3> QED BY <2>10, <3>3
  <2>11. CASE reply'[t].active = {}
    BY <2>11
  <2> QED
    BY <1>1, <1>4, <2>2, <2>5, <2>8, <2>9, <2>10, <2>11, RepliesWithActive
<1> QED BY <1>2, <1>3, <1>4 DEF Next

\* No reply shows as active an auction that was over when the request came in:
\* neither the lists nor a record, nor the reply that gives out a new AID.
THEOREM ListsInTimeHolds ==
  ASSUME ~FsErrors
  PROVE  AuditSpec => ListsInTime
<1>1. TimelyInv /\ [AuditNext]_auditVars => [ListsAreInTime]_auditVars
  BY ListsStayInTime
<1> QED BY <1>1, TimelyHolds, PTL DEF AuditSpec, ListsInTime, ListsAreInTime

-----------------------------------------------------------------------------
(* LIN, LOU and UNR are single steps to their clients (Sessions)           *)

\* The workers serve other requests than these.
WorkersServeTcp == \A w \in Workers : req[w] # None => op(w) \in TcpOps

\* What the thread that serves one of them has been told of its user: no other
\* thread changes users, so that this is still true when it acts.
Knows(t) ==
  req[t] # None /\ op(t) \in UserOps =>
    /\ pc[t] = "register_user" => pass[uid(t)] = None
    /\ pc[t] \in {"is_user_logged_in", "is_authentic_user"} =>
         pass[uid(t)] # None
    /\ pc[t] = "is_authentic_user" /\ op(t) # "LIN" => uid(t) \in login
    /\ pc[t] \in {"log_in_user", "log_out_user", "unregister_user"} =>
         pass[uid(t)] = req[t].passwd
    /\ pc[t] \in {"log_out_user", "unregister_user"} => uid(t) \in login

UdpInv ==
  BusyInv /\ PasswordsFilled /\ WorkersServeTcp /\ \A t \in Threads : Knows(t)

\* A step of a worker
LEMMA WorkersLeaveUsers ==
  ASSUME UdpInv, NEW w \in Workers, Step(w)
  PROVE  UNCHANGED <<pass, login>>
<1>1. w \in Threads /\ (req[w] # None => op(w) \in TcpOps)
  BY DEF Threads, UdpInv, WorkersServeTcp
<1>2. pc[w] \notin {"idle", "dead"} => req[w] # None /\ op(w) \in OpsAt(pc[w])
  BY <1>1 DEF UdpInv, BusyInv, Busy, TypeInv, Serves, op
<1>3. pc[w] \notin {"register_user", "log_in_user", "log_out_user",
                    "unregister_user"}
  BY <1>1, <1>2 DEF OpsAt, TcpOps
<1> QED
  BY <1>1, <1>3, UsersOrNot
     DEF RegisterUser, LogInUser, LogOutUser, UnregisterUser, Calls

\* It learns something from each call.
LEMMA HandlerLearns ==
  ASSUME UdpInv, NEW t \in Threads, Decides(t), NEW f, GoesOn(t, f)
  PROVE  Knows(t)'
<1> SUFFICES ASSUME op(t) \in UserOps, req[t] # None
             PROVE  Knows(t)'
  BY DEF Knows, op, GoesOn
<1>1. pc'[t] = f /\ req'[t] = req[t]
  BY DEF GoesOn, UdpInv, BusyInv, TypeInv, TypeOK
<1>2. /\ \A s : ~Refuse(t, s)
      /\ \A g : Goto(t, g) => g = f
  BY <1>1 DEF Refuse, Answer, Goto, GoesOn, UdpInv, BusyInv, TypeInv, TypeOK
<1>3. /\ op(t) \in OpsAt(pc[t])
      /\ uid(t)' = uid(t) /\ op(t)' = op(t) /\ uid(t) \in Users
  BY <1>1, RequestFields
     DEF UdpInv, BusyInv, Busy, TypeInv, TypeOK, Serves, op, uid
<1>4. CASE ExistsUser(t)
  <2>1. /\ UNCHANGED <<pass, login>>
        /\ pass[uid(t)] # None =>
             f = IF op(t) = "LIN" THEN "is_authentic_user"
                 ELSE "is_user_logged_in"
        /\ pass[uid(t)] = None => f = "register_user"
    BY <1>2, <1>4 DEF ExistsUser, exists_user, dbVars, userVars
  <2> QED BY <1>1, <1>3, <2>1 DEF Knows
<1>5. CASE IsUserLoggedIn(t)
  <2>1. /\ UNCHANGED <<pass, login>>
        /\ pc[t] = "is_user_logged_in"
        /\ uid(t) \in login /\ f \in {"update_database", "is_authentic_user"}
    BY <1>2, <1>5 DEF IsUserLoggedIn, is_user_logged_in, Calls, dbVars, userVars
  <2>2. pass[uid(t)] # None
    BY <2>1 DEF UdpInv, Knows
  <2> QED BY <1>1, <1>3, <2>1, <2>2 DEF Knows
<1>6. CASE IsAuthenticUser(t)
  <2>1. /\ UNCHANGED <<pass, login>>
        /\ pc[t] = "is_authentic_user"
        /\ pass[uid(t)] \in {req[t].passwd, Blank}
        /\ f = CASE op(t) = "LIN" -> "log_in_user"
                 [] op(t) = "LOU" -> "log_out_user"
                 [] op(t) = "UNR" -> "unregister_user"
    BY <1>2, <1>6
       DEF IsAuthenticUser, is_authentic_user, Calls, UserOps, dbVars, userVars
  <2>2. /\ pass[uid(t)] = req[t].passwd
        /\ op(t) # "LIN" => uid(t) \in login
    BY <1>3, <2>1 DEF UdpInv, PasswordsFilled, Knows
  <2>3. /\ f \in {"log_in_user", "log_out_user", "unregister_user"}
        /\ op(t) = "LIN" => f = "log_in_user"
    BY <2>1 DEF UserOps
  <2> QED BY <1>1, <1>3, <2>1, <2>2, <2>3 DEF Knows
<1>7. CASE \/ UpdateDatabase(t) \/ ExistsAuction(t) \/ GetAuctionInfo(t)
           \/ IsAuctionFinished(t) \/ GetLastBid(t) \/ CreateNewAuction(t)
  BY <1>3, <1>7
     DEF UpdateDatabase, ExistsAuction, GetAuctionInfo, IsAuctionFinished,
         GetLastBid, CreateNewAuction, Calls, OpsAt, UserOps
<1> QED
  BY <1>4, <1>5, <1>6, <1>7 DEF Decides

LEMMA NextStaysUdp ==
  ASSUME ~FsErrors
  PROVE  UdpInv /\ [Next]_vars => UdpInv'
<1> SUFFICES ASSUME UdpInv, [Next]_vars PROVE UdpInv'
  OBVIOUS
<1>1. BusyInv' /\ TypeInv
  BY NextStaysBusy DEF UdpInv, BusyInv
<1>2. CASE Time \/ UNCHANGED vars
  <2>1. UNCHANGED <<pass, login, pc, req>>
    BY <1>2 DEF Time, Tick, vars, dbVars, userVars, threadVars
  <2> QED
    BY <1>1, <2>1
       DEF UdpInv, PasswordsFilled, WorkersServeTcp, Knows, op, uid
<1>3. CASE Restart
  <2>1. UNCHANGED pass /\ \A t \in Threads : req'[t] = None
    BY <1>3 DEF Restart, load_db_state, userVars
  <2> QED
    BY <1>1, <2>1 DEF UdpInv, PasswordsFilled, WorkersServeTcp, Knows, Threads
<1>4. ASSUME NEW t \in Threads, Step(t) PROVE UdpInv'
  <2>1. PasswordsFilled'
    BY <1>1, <1>4, StepOfUsers DEF UdpInv
  <2>2. CASE Dies
    <3>1. \A x \in Threads : req'[x] = None
      BY <2>2 DEF Dies
    <3> QED BY <1>1, <2>1, <3>1 DEF UdpInv, WorkersServeTcp, Knows, Threads
  <2>3. CASE Alone(t)
    <3>1. WorkersServeTcp'
      <4> SUFFICES ASSUME NEW w \in Workers, req'[w] # None
                   PROVE  op(w)' \in TcpOps
        BY DEF WorkersServeTcp
      <4>1. w \in Threads /\ w # UdpThread
        BY ServerAssumption DEF Threads
      <4>2. CASE w # t
        BY <2>3, <4>1, <4>2 DEF Alone, UdpInv, WorkersServeTcp, op
      <4>3. CASE w = t /\ Receive(t)
        BY <1>1, <4>1, <4>3 DEF Receive, TypeInv, TypeOK, op
      <4>4. CASE w = t /\ ~Receive(t)
        <5>1. req'[t] = req[t] \/ req'[t] = None
          BY <1>1, <1>4, <4>4, StepKinds
             DEF GoesOn, Dies, Ends, Answer, TypeInv, TypeOK
        <5> QED BY <4>4, <5>1 DEF UdpInv, WorkersServeTcp, op
      <4> QED BY <4>2, <4>3, <4>4
    <3>2. Knows(t)'
      <4>1. CASE Decides(t) /\ \E f : GoesOn(t, f)
        BY <4>1, HandlerLearns
      <4>2. CASE Dies \/ Ends(t)
        BY <1>1, <4>2 DEF Dies, Ends, Answer, TypeInv, TypeOK, Knows
      <4>3. CASE Receive(t)
        <5>1. pc'[t] \in {"exists_user", "update_database", "exists_auction"}
          BY <1>1, <4>3 DEF Receive, FirstStep, TypeInv, TypeOK
        <5> QED BY <5>1 DEF Knows
      <4> QED BY <1>1, <1>4, <4>1, <4>2, <4>3, StepKinds
    <3>3. ASSUME NEW x \in Threads \ {t} PROVE Knows(x)'
      <4>1. CASE t \in Workers
        <5>1. UNCHANGED <<pass, login>>
          BY <1>4, <4>1, WorkersLeaveUsers
        <5> QED BY <2>3, <5>1 DEF Alone, UdpInv, Knows, op, uid
      <4>2. CASE x \in Workers
        <5>1. req'[x] # None => op(x)' \notin UserOps
          BY <3>1, <4>2 DEF WorkersServeTcp, TcpOps, UserOps
        <5> QED BY <5>1 DEF Knows
      <4> QED BY <4>1, <4>2 DEF Threads
    <3> QED BY <1>1, <2>1, <3>1, <3>2, <3>3 DEF UdpInv
  <2> QED BY <1>1, <1>4, <2>2, <2>3, StepAlone
<1> QED BY <1>2, <1>3, <1>4 DEF Next

-----------------------------------------------------------------------------
(* Each step is one of Sessions, or leaves what Sessions is about alone.   *)

\* A thread that serves such a request ends as Sessions says it has to.
LEMMA AnswerIsRight ==
  ASSUME ~FsErrors, UdpInv, NEW t \in Threads, Step(t), Ends(t),
         req[t] # None, op(t) \in UserOps
  PROVE  /\ Sess!Effect(req[t])
         /\ reply'[t].status = Sess!Answer(req[t])
<1> DEFINE r == req[t]
           answer == Sess!Answer(r)
<1>1. /\ TypeInv /\ PasswordsFilled /\ Knows(t) /\ pc[t] \notin {"idle", "dead"}
      /\ reply \in [Threads -> Reply] /\ pc \in [Threads -> Steps]
  BY DEF UdpInv, BusyInv, Busy, TypeInv, TypeOK
<1>2. op(t) \in OpsAt(pc[t]) /\ r \in Request
  BY <1>1 DEF TypeInv, Serves, op
<1>3. r.op \in UserOps /\ r.uid \in Users /\ r.passwd \in Passwords
  BY <1>2, RequestFields DEF op
<1>4. \A s : Refuse(t, s) => reply'[t].status = s
  BY <1>1 DEF Refuse, Answer, Status
<1>5. \A f : Goto(t, f) => f = "idle"
  BY <1>1 DEF Goto, Ends, Answer
<1>6. answer = CASE r.op = "LIN" /\ pass[r.uid] = None -> "REG"
                 [] r.op = "LIN" /\ pass[r.uid] # None ->
                      IF pass[r.uid] = r.passwd THEN "OK" ELSE "NOK"
                 [] r.op # "LIN" /\ pass[r.uid] = None -> "UNR"
                 [] r.op # "LIN" /\ pass[r.uid] # None ->
                      IF r.uid \in login /\ pass[r.uid] = r.passwd THEN "OK"
                      ELSE "NOK"
  BY DEF Sess!Answer, Sess!Registered, Sess!Admitted
<1>7. Sess!Effect(r) <=>
        /\ login' = IF answer \notin {"OK", "REG"} THEN login
                    ELSE IF r.op = "LIN" THEN login \cup {r.uid}
                    ELSE login \ {r.uid}
        /\ pass' = CASE answer = "REG" -> [pass EXCEPT ![r.uid] = r.passwd]
                     [] answer \in {"OK", "REG"} /\ r.op = "UNR" ->
                          [pass EXCEPT ![r.uid] = None]
                     [] OTHER -> pass
  BY DEF Sess!Effect
<1>8. op(t) = r.op /\ uid(t) = r.uid
  BY DEF op, uid
<1> HIDE DEF r, answer
<1>9. CASE ExistsUser(t)
  <2>1. UNCHANGED <<pass, login>>
    BY <1>9 DEF ExistsUser, dbVars, userVars
  <2>2. r.op # "LIN" /\ pass[r.uid] = None /\ Refuse(t, "UNR")
    BY <1>3, <1>5, <1>8, <1>9 DEF ExistsUser, exists_user, UserOps
  <2>3. answer = "UNR"
    BY <1>6, <2>2
  <2> QED BY <1>4, <1>7, <2>1, <2>2, <2>3 DEF r, answer
<1>10. CASE IsUserLoggedIn(t)
  <2>1. UNCHANGED <<pass, login>>
    BY <1>10 DEF IsUserLoggedIn, dbVars, userVars
  <2>2. /\ r.op \in {"LOU", "UNR"} /\ r.uid \notin login /\ Refuse(t, "NOK")
        /\ pc[t] = "is_user_logged_in"
    BY <1>2, <1>3, <1>5, <1>8, <1>10
       DEF IsUserLoggedIn, is_user_logged_in, Calls, OpsAt, UserOps, MyOps
  <2>3. pass[r.uid] # None
    BY <1>1, <1>3, <1>8, <2>2 DEF Knows, r
  <2>4. answer = "NOK"
    BY <1>6, <2>2, <2>3
  <2> QED BY <1>4, <1>7, <2>1, <2>2, <2>4 DEF r, answer
<1>11. CASE IsAuthenticUser(t)
  <2>1. UNCHANGED <<pass, login>>
    BY <1>11 DEF IsAuthenticUser, dbVars, userVars
  <2>2. /\ pass[r.uid] \notin {r.passwd, Blank} /\ Refuse(t, "NOK")
        /\ pc[t] = "is_authentic_user"
    BY <1>3, <1>5, <1>8, <1>11
       DEF IsAuthenticUser, is_authentic_user, Calls, UserOps, r
  <2>3. pass[r.uid] # None
    BY <1>1, <1>3, <1>8, <2>2 DEF Knows, r
  <2>4. answer = "NOK"
    BY <1>6, <2>2, <2>3
  <2> QED BY <1>4, <1>7, <2>1, <2>2, <2>4 DEF r, answer
<1>12. CASE RegisterUser(t)
  <2>1. /\ login' = login \cup {r.uid} /\ pass' = [pass EXCEPT ![r.uid] = r.passwd]
        /\ Refuse(t, "REG") /\ pc[t] = "register_user"
    BY <1>8, <1>12 DEF RegisterUser, register_user, Calls, r
  <2>2. r.op = "LIN" /\ pass[r.uid] = None
    BY <1>1, <1>2, <1>3, <1>8, <2>1 DEF Knows, OpsAt, r
  <2>3. answer = "REG"
    BY <1>6, <2>2
  <2> QED BY <1>4, <1>7, <2>1, <2>2, <2>3 DEF r, answer
<1>13. CASE LogInUser(t)
  <2>1. /\ login' = login \cup {r.uid} /\ pass' = pass
        /\ Refuse(t, "OK") /\ pc[t] = "log_in_user"
    BY <1>8, <1>13 DEF LogInUser, log_in_user, Calls
  <2>2. r.op = "LIN" /\ pass[r.uid] = r.passwd
    BY <1>1, <1>2, <1>3, <1>8, <2>1 DEF Knows, OpsAt, r
  <2>3. answer = "OK"
    BY <1>3, <1>6, <2>2, DbAssumption
  <2> QED BY <1>4, <1>7, <2>1, <2>2, <2>3 DEF r, answer
<1>14. CASE LogOutUser(t)
  <2>1. pc[t] = "log_out_user"
    BY <1>14 DEF LogOutUser, Calls
  <2>2. r.op = "LOU" /\ pass[r.uid] = r.passwd /\ r.uid \in login
    BY <1>1, <1>2, <1>3, <1>8, <2>1 DEF Knows, OpsAt, r
  <2>3. /\ login' = login \ {r.uid} /\ pass' = pass /\ Refuse(t, "OK")
    BY <1>8, <1>14, <2>2
       DEF LogOutUser, log_out_user, is_user_logged_in
  <2>4. answer = "OK"
    BY <1>3, <1>6, <2>2, DbAssumption
  <2> QED BY <1>4, <1>7, <2>2, <2>3, <2>4 DEF r, answer
<1>15. CASE UnregisterUser(t)
  <2>1. pc[t] = "unregister_user"
    BY <1>15 DEF UnregisterUser, Calls
  <2>2. /\ r.op = "UNR" /\ pass[r.uid] = r.passwd /\ r.uid \in login
        /\ pass[r.uid] # None
    BY <1>1, <1>2, <1>3, <1>8, <2>1, DbAssumption DEF Knows, OpsAt, r
  <2>3. /\ login' = login \ {r.uid} /\ pass' = [pass EXCEPT ![r.uid] = None]
        /\ Refuse(t, "OK")
    BY <1>8, <1>15, <2>2
       DEF UnregisterUser, unregister_user, is_user_logged_in, exists_user
  <2>4. answer = "OK"
    BY <1>6, <2>2
  <2> QED BY <1>4, <1>7, <2>2, <2>3, <2>4 DEF r, answer
<1>16. pc[t] \in {"exists_user", "is_user_logged_in", "is_authentic_user",
                  "register_user", "log_in_user", "log_out_user",
                  "unregister_user"}
  BY <1>1, <1>2, <1>3, <1>8 DEF OpsAt, UserOps, MyOps, TypeInv, TypeOK, Steps
<1>17. \/ ExistsUser(t) \/ IsUserLoggedIn(t) \/ IsAuthenticUser(t)
       \/ RegisterUser(t) \/ LogInUser(t) \/ LogOutUser(t) \/ UnregisterUser(t)
  BY <1>16
     DEF Step, Receive, UpdateDatabase, ExistsAuction, GetAuctionInfo,
         IsAuctionFinished, GetLastBid, Bid, CloseAuction, CreateNewAuction,
         AssetReceived, AssetFails, ShowAsset, GetUserAuctions, GetUserBids,
         GetAuctionsList, GetAuctionBiddersList, Calls
<1> QED BY <1>9, <1>10, <1>11, <1>12, <1>13, <1>14, <1>15, <1>17

\* The same in terms of what Sessions calls asked and status
LEMMA UdpStepIsSessions ==
  ASSUME ~FsErrors, UdpInv, NEW t \in Threads, t = UdpThread, Step(t), ~Dies
  PROVE  [Sess!SessionsNext]_(Sess!sessionVars)
<1>1. /\ TypeInv /\ Busy(t)
      /\ pc \in [Threads -> Steps] /\ req \in [Threads -> Request \cup {None}]
      /\ reply \in [Threads -> Reply]
  BY DEF UdpInv, BusyInv, TypeInv, TypeOK
<1>2. CASE Receive(t)
  <2>1. PICK r \in Requests : req' = [req EXCEPT ![t] = r]
    BY <1>2 DEF Receive
  <2>2. /\ req[t] = None /\ req'[t] = r /\ r # None
        /\ reply'[t].status = "none" /\ UNCHANGED <<pass, login>>
    BY <1>1, <1>2, <2>1, ServerAssumption
       DEF Receive, Busy, Status, dbVars, userVars
  <2>3. userRequest = None
    BY <1>1, <2>2 DEF userRequest
  <2>4. CASE r.op \in UserOps
    <3>1. userRequest' = r
      BY <2>2, <2>4 DEF userRequest, op
    <3>2. Sess!Take(r)
      BY <2>2, <2>3, <3>1 DEF Sess!Take
    <3>3. r \in {q \in Requests : q.op \in UserOps}
      BY <2>4
    <3> QED BY <3>2, <3>3 DEF Sess!SessionsNext
  <2>5. CASE r.op \notin UserOps
    <3>1. userRequest' = None
      BY <2>2, <2>5 DEF userRequest, op
    <3>2. Sess!ServeOther
      BY <2>2, <2>3, <3>1 DEF Sess!ServeOther
    <3> QED BY <3>2 DEF Sess!SessionsNext
  <2> QED BY <2>4, <2>5
<1>3. CASE Ends(t) /\ ~Receive(t)
  <2>1. req'[t] = None /\ req[t] # None
    <3>1. req'[t] = None
      BY <1>1, <1>3 DEF Ends, Answer
    <3> QED BY <1>1, <1>3, <3>1, StepStaysBusy
  <2>2. userRequest' = None
    BY <2>1 DEF userRequest
  <2>3. CASE op(t) \in UserOps
    <3>1. userRequest = req[t]
      BY <2>1, <2>3 DEF userRequest
    <3>2. Sess!Effect(req[t]) /\ reply'[t].status = Sess!Answer(req[t])
      BY <1>3, <2>1, <2>3, AnswerIsRight
    <3>3. Sess!Serve
      BY <2>1, <2>2, <3>1, <3>2 DEF Sess!Serve
    <3> QED BY <3>3 DEF Sess!SessionsNext
  <2>4. CASE op(t) \notin UserOps
    <3>1. userRequest = None
      BY <2>4 DEF userRequest
    <3>2. pc[t] \notin {"register_user", "log_in_user", "log_out_user",
                        "unregister_user"}
      <4>1. op(t) \in OpsAt(pc[t])
        BY <1>1, <2>1 DEF TypeInv, Serves, Busy, op
      <4> QED BY <2>4, <4>1 DEF OpsAt, UserOps
    <3>3. UNCHANGED <<pass, login>>
      BY <3>2, UsersOrNot
         DEF RegisterUser, LogInUser, LogOutUser, UnregisterUser, Calls
    <3>4. Sess!ServeOther
      BY <2>2, <3>1, <3>3 DEF Sess!ServeOther
    <3> QED BY <3>4 DEF Sess!SessionsNext
  <2> QED BY <2>3, <2>4
<1>4. CASE Decides(t) /\ \E f : GoesOn(t, f)
  <2>1. UNCHANGED <<req, reply>>
    BY <1>4 DEF GoesOn
  <2>2. UNCHANGED <<pass, login>>
    <3>1. pc[t] \notin {"register_user", "log_in_user", "log_out_user",
                        "unregister_user"}
      BY <1>4
         DEF Decides, ExistsUser, IsUserLoggedIn, IsAuthenticUser,
             UpdateDatabase, ExistsAuction, GetAuctionInfo, IsAuctionFinished,
             GetLastBid, CreateNewAuction, Calls
    <3> QED
      BY <3>1, UsersOrNot
         DEF RegisterUser, LogInUser, LogOutUser, UnregisterUser, Calls
  <2>3. UNCHANGED userRequest
    BY <2>1 DEF userRequest, op
  <2> QED BY <2>1, <2>2, <2>3 DEF Sess!sessionVars
<1> QED BY <1>1, <1>2, <1>3, <1>4, StepKinds

LEMMA NextIsSessions ==
  ASSUME ~FsErrors, UdpInv, [Next]_vars
  PROVE  [Sess!SessionsNext]_(Sess!sessionVars)
<1>1. UdpThread \in Threads /\ TypeInv
  BY DEF Threads, UdpInv, BusyInv
<1>2. ASSUME UNCHANGED <<pass, login>>, req'[UdpThread] = req[UdpThread],
             reply'[UdpThread] = reply[UdpThread]
      PROVE  [Sess!SessionsNext]_(Sess!sessionVars)
  <2>1. UNCHANGED userRequest
    BY <1>2 DEF userRequest, op
  <2> QED BY <1>2, <2>1 DEF Sess!sessionVars
<1>3. ASSUME UNCHANGED <<pass, login>>, req'[UdpThread] = None,
             reply'[UdpThread] = Status("none")
      PROVE  [Sess!SessionsNext]_(Sess!sessionVars)
  <2>1. userRequest' = None /\ reply'[UdpThread].status = "none"
    BY <1>3 DEF userRequest, Status
  <2>2. Sess!Forget
    BY <1>3, <2>1 DEF Sess!Forget
  <2> QED BY <2>2 DEF Sess!SessionsNext
<1>4. CASE Time \/ UNCHANGED vars
  <2>1. UNCHANGED <<pass, login, req, reply>>
    BY <1>4 DEF Time, Tick, vars, dbVars, userVars, threadVars
  <2> QED BY <1>2, <2>1
<1>5. CASE Restart
  <2>1. /\ UNCHANGED <<pass, login>> /\ req'[UdpThread] = None
        /\ reply'[UdpThread] = Status("none")
    BY <1>1, <1>5 DEF Restart, load_db_state, userVars
  <2> QED BY <1>3, <2>1
<1>6. ASSUME NEW t \in Threads, Step(t)
      PROVE  [Sess!SessionsNext]_(Sess!sessionVars)
  <2>1. CASE Dies
    <3>1. UNCHANGED <<pass, login>>
      <4>1. pc'[t] = "dead"
        BY <2>1 DEF Dies
      <4>2. ~(RegisterUser(t) \/ LogInUser(t) \/ LogOutUser(t)
              \/ UnregisterUser(t))
        BY <1>1, <4>1
           DEF RegisterUser, LogInUser, LogOutUser, UnregisterUser, Refuse,
               Answer, TypeInv, TypeOK
      <4> QED BY <1>6, <4>2, UsersOrNot
    <3>2. req'[UdpThread] = None /\ reply'[UdpThread] = Status("none")
      BY <1>1, <2>1 DEF Dies
    <3> QED BY <1>3, <3>1, <3>2
  <2>2. CASE ~Dies /\ t = UdpThread
    BY <1>6, <2>2, UdpStepIsSessions
  <2>3. CASE ~Dies /\ t # UdpThread
    <3>1. t \in Workers
      BY <2>3 DEF Threads
    <3>2. UNCHANGED <<pass, login>>
      BY <1>6, <3>1, WorkersLeaveUsers
    <3>3. Alone(t)
      BY <1>1, <1>6, <2>3, StepAlone
    <3>4. /\ req'[UdpThread] = req[UdpThread]
          /\ reply'[UdpThread] = reply[UdpThread]
      BY <1>1, <2>3, <3>3 DEF Alone
    <3> QED BY <1>2, <3>2, <3>4
  <2> QED BY <2>1, <2>2, <2>3
<1> QED BY <1>4, <1>5, <1>6 DEF Next

\* To clients LIN, LOU and UNR are single steps, each with the right answer for
\* the moment at which it is given: for any number of workers that run between
\* the calls of the handler, and whatever restarts.
THEOREM SessionsAreKept ==
  ASSUME ~FsErrors
  PROVE  Spec => SessionsKept
<1>1. Init => UdpInv
  <2> SUFFICES ASSUME Init PROVE UdpInv
    OBVIOUS
  <2>1. PasswordsFilled
    BY DbAssumption DEF Init, DbInit, PasswordsFilled
  <2>2. WorkersServeTcp /\ \A t \in Threads : Knows(t)
    BY DEF Init, WorkersServeTcp, Knows, Threads
  <2> QED BY <2>1, <2>2, InitBusy DEF UdpInv
<1>2. UdpInv /\ [Next]_vars => UdpInv'
  BY NextStaysUdp
<1>3. Init => Sess!SessionsInit
  <2> SUFFICES ASSUME Init PROVE Sess!SessionsInit
    OBVIOUS
  <2>1. UdpThread \in Threads
    BY DEF Threads
  <2>2. userRequest = None /\ reply[UdpThread].status = "none"
    BY <2>1 DEF Init, userRequest, Status
  <2> QED
    BY <2>2 DEF Init, DbInit, Sess!SessionsInit, Sess!AccountsInit
<1>4. UdpInv /\ [Next]_vars => [Sess!SessionsNext]_(Sess!sessionVars)
  BY NextIsSessions
<1> QED
  BY <1>1, <1>2, <1>3, <1>4, PTL DEF Spec, SessionsKept, Sess!SessionsSpec
=============================================================================
