----------------------------- MODULE CrashProofs -----------------------------
(***************************************************************************)
(* What a server that is killed in the middle of a database call finds     *)
(* when it starts again (CrashInside), for any users, passwords, workers,  *)
(* requests and limits, as long as no write fails.                         *)
(*                                                                         *)
(* The invariant is the one of a server that is not killed (SafeInv): its  *)
(* file part speaks of published auctions, and what a crash leaves half    *)
(* done is either not published or has no bid and no owner.                *)
(***************************************************************************)
EXTENDS AuctionSafetyProofs, CrashInside

-----------------------------------------------------------------------------
(* The directories are counted.                                            *)

LEMMA DirsCounted ==
  ASSUME SafeInv, ~FsErrors
  PROVE  /\ dirs = 1..aucCount
         /\ aucCount \in Nat /\ aucCount <= MaxAuctions
BY DbAssumption DEF SafeInv, Safe, FilesSafe, Whole, TypeInv, TypeOK, DbTypeOK

\* load_db_state finds the directories 1 to n.
LEMMA RecountFinds ==
  ASSUME NEW n \in Nat, dirs' = 1..n, Recount
  PROVE  aucCount' = n
BY FS_Interval DEF Recount

-----------------------------------------------------------------------------
(* The files that a crash leaves                                           *)

CutCalls == {"register_user", "unregister_user", "update_database",
             "close_auction"}

\* The calls that work on users or on END files
LEMMA CallCutOff ==
  ASSUME SafeInv, NEW t \in Threads, CutOff(t), mutex' = None,
         NEW f \in CutCalls, Calls(t, f)
  PROVE  /\ DbTypeOK' /\ Quiet
         /\ \A a \in AIDs : end[a] # None => end'[a] # None
<1>1. mutex = None /\ pc[t] = f
  BY DEF Calls
<1>2. DbTypeOK /\ Serves(t)
  BY DEF SafeInv, TypeInv, TypeOK
<1>3. CASE f \in {"register_user", "unregister_user"}
  <2>1. register_user_fails(uid(t)) \/ unregister_user_fails(uid(t))
    BY <1>1, <1>3 DEF CutOff, Calls
  <2>2. uid(t) \in Users
    BY <1>1, <1>2, <1>3, RequestFields DEF Serves, OpsAt, UserOps, uid
  <2>3. PICK w \in Passwords \cup {None, Blank} : pass[uid(t)] = w
    BY <1>2, <2>2 DEF DbTypeOK
  <2>4. DbTypeOK'
    BY <1>2, <2>1, <2>2
       DEF DbTypeOK, register_user_fails, unregister_user_fails, auctionVars
  <2>5. Quiet /\ UNCHANGED end
    BY <1>1, <2>1
       DEF Quiet, register_user_fails, unregister_user_fails, auctionVars
  <2> QED BY <2>4, <2>5
<1>4. CASE f = "update_database"
  <2>1. PICK failed, blank \in SUBSET AIDs : update_database(failed, blank)
    BY <1>1, <1>4 DEF CutOff, Calls
  <2>2. DbTypeOK'
    BY <1>2, <2>1, UpdateKeepsFileTypes
  <2>3. Quiet
    BY <1>1, <2>1 DEF Quiet, update_database, userVars
  <2>4. \A a \in AIDs : end[a] # None => end'[a] # None
    BY <2>1 DEF update_database, Expired
  <2> QED BY <2>2, <2>3, <2>4
<1>5. CASE f = "close_auction"
  <2>1. start[aid(t)] # None /\ close_auction_fails(aid(t))
    BY <1>1, <1>5 DEF CutOff, Calls
  <2>2. aid(t) \in AIDs
    BY <1>1, <1>2, <1>5 DEF Serves, AfterExists, aid
  <2>3. DbTypeOK'
    BY <1>2, <2>1, <2>2, CloseKeepsFileTypes
  <2>4. Quiet
    BY <1>1, <2>1 DEF Quiet, close_auction_fails, userVars
  <2>5. \A a \in AIDs : end[a] # None => end'[a] # None
    BY <1>2, <2>1, DbAssumption DEF close_auction_fails, DbTypeOK
  <2> QED BY <2>3, <2>4, <2>5
<1> QED BY <1>3, <1>4, <1>5 DEF CutCalls

\* A bid whose file is there and without contents, or BIDDED is not
LEMMA BidCutOff ==
  ASSUME SafeInv, NEW t \in Threads, CutOff(t), mutex' = None, Calls(t, "bid")
  PROVE  /\ DbTypeOK' /\ FilesSafe'
         /\ UNCHANGED <<hosted, aucCount, dirs, start, end, asset>>
         /\ UNCHANGED bids \/ \E w : BidFile(aid(t), req[t].value, w)
<1>1. mutex = None /\ pc[t] = "bid"
  BY DEF Calls
<1>2. /\ op(t) = "BID" /\ aid(t) \in AIDs /\ uid(t) \in Users
      /\ req[t].value \in Nat
  BY <1>1, RequestFields
     DEF SafeInv, TypeInv, Serves, OpsAt, AfterExists, op, aid, uid
<1>3. /\ Published(aid(t)) /\ start[aid(t)] # None
      /\ start[aid(t)].uid # uid(t) /\ req[t].value > start[aid(t)].value
      /\ start[aid(t)].uid # Blank
  <2>1. start[aid(t)] # None /\ info[t] = start[aid(t)]
    BY <1>1, <1>2 DEF SafeInv, Safe, Bidding, BidSteps
  <2>2. start[aid(t)].uid \in Users
    BY <1>2, <2>1 DEF SafeInv, TypeInv, TypeOK, DbTypeOK, StartRecord
  <2> QED
    BY <1>1, <1>2, <2>1, <2>2, DbAssumption
       DEF SafeInv, Safe, Bidding, BidSteps
<1>4. bid_fails(aid(t), uid(t), req[t].value)
  BY <1>1 DEF CutOff, Calls
<1>5. UNCHANGED <<hosted, aucCount, dirs, start, end, asset, mutex>>
  BY <1>1, <1>4 DEF bid_fails, userVars
<1>6. DbTypeOK'
  BY <1>2, <1>4, BidKeepsFileTypes DEF SafeInv, TypeInv, TypeOK
<1>7. FilesSafe'
  <2>1. CASE UNCHANGED bids
    BY <1>5, <2>1, QuietIsSafe DEF SafeInv, Quiet
  <2>2. CASE \E w \in {uid(t), Blank} : BidFile(aid(t), req[t].value, w)
    BY <1>2, <1>3, <1>5, <2>2, BidFileIsSafe
       DEF SafeInv, Safe, TypeInv, TypeOK
  <2> QED BY <1>4, <2>1, <2>2 DEF bid_fails
<1> QED BY <1>4, <1>5, <1>6, <1>7 DEF bid_fails

\* What is left of the auction a, new or half removed, is the only change.
Leaves(a) ==
  /\ a \in AIDs /\ ~Published(a)
  /\ dirs' \in {dirs \cup {a}, dirs \ {a}}
  /\ dirs' = 1..aucCount'
  /\ \A c \in AIDs \ {a} :
       start'[c] = start[c] /\ asset'[c] = asset[c] /\ bids'[c] = bids[c]
  /\ bids'[a] = {}
  /\ asset'[a] # "mixed" /\ (a \notin dirs' => asset'[a] = None)
  /\ end' \in {end, [end EXCEPT ![a] = None]}
  /\ UNCHANGED hosted

LEMMA LeavesSafe ==
  ASSUME SafeInv, NEW a, Leaves(a), mutex' = None, ~FsErrors
  PROVE  FilesSafe'
<1>1. /\ FilesSafe /\ DbTypeOK /\ UNCHANGED hosted
      /\ dirs = 1..aucCount /\ Whole
  BY DirsCounted DEF SafeInv, Safe, FilesSafe, TypeInv, TypeOK, Leaves
<1>2. \A c \in AIDs : Published(c) =>
        /\ c # a /\ c \in dirs' /\ Published(c)'
        /\ start'[c] = start[c] /\ asset'[c] = asset[c] /\ bids'[c] = bids[c]
  BY <1>1 DEF Leaves, Published
<1>3. \A c \in AIDs : bids'[c] \in {bids[c], {}}
  BY DEF Leaves
<1>4. \A c \in AIDs : ~Published(c)' => bids'[c] = {}
  BY <1>1, <1>2, <1>3 DEF FilesSafe
<1>5. \A c \in AIDs : HasHighest(c)'
  BY <1>1, <1>3 DEF FilesSafe, HasHighest
<1>6. \A u \in Users : \A c \in hosted'[u] : Published(c)' /\ c \in AIDs
  BY <1>1, <1>2 DEF FilesSafe, DbTypeOK
<1>7. HostedComplete'
  <2> SUFFICES ASSUME NEW u \in Users, NEW c \in hosted[u]
               PROVE  /\ start'[c] # None /\ start'[c].uid = u
                      /\ asset'[c] = "whole"
                      /\ c \in dirs' /\ c <= aucCount'
    BY <1>1 DEF HostedComplete
  <2>1. c \in AIDs /\ Published(c)
    BY <1>1 DEF FilesSafe, DbTypeOK
  <2>2. start[c] # None /\ start[c].uid = u /\ asset[c] = "whole"
    BY <1>1 DEF Whole, HostedComplete
  <2>3. c <= aucCount'
    BY <1>2, <2>1 DEF Published
  <2> QED BY <1>2, <2>1, <2>2, <2>3
<1>8. BidsLawful'
  <2> SUFFICES ASSUME NEW c \in AIDs, NEW b \in bids'[c]
               PROVE  /\ start'[c] # None
                      /\ b.value > start'[c].value
                      /\ b.uid # start'[c].uid
    BY DEF BidsLawful
  <2>1. c # a /\ b \in bids[c] /\ start'[c] = start[c]
    BY <1>3 DEF Leaves
  <2> QED BY <1>1, <2>1 DEF FilesSafe, BidsLawful
<1>9. HostedOwned'
  <2> SUFFICES ASSUME NEW u \in Users, NEW c \in hosted[u]
               PROVE  /\ \A w \in Users \ {u} : c \notin hosted[w]
                      /\ start'[c] # None => start'[c].uid = u
                      /\ asset'[c] \notin {None, "part"}
                      /\ c \in dirs' /\ c <= aucCount'
    BY <1>1 DEF HostedOwned
  <2>1. c \in hosted'[u]
    BY <1>1
  <2> QED
    BY <1>1, <1>7, <2>1, DbAssumption DEF FilesSafe, HostedOwned, HostedComplete
<1>10. Whole'
  <2>1. \A c \in AIDs : c # a =>
          asset'[c] # "mixed" /\ (c \notin dirs' => asset'[c] = None)
    BY <1>1 DEF Leaves, Whole
  <2> QED BY <1>7, <2>1 DEF Leaves, Whole
<1> QED
  BY <1>4, <1>5, <1>6, <1>8, <1>9, <1>10 DEF FilesSafe, Leaves

\* create_new_auction is cut off: a directory without asset, with START or not
LEMMA CreationCutOff ==
  ASSUME SafeInv, NEW t \in Threads, CutOff(t), Recount, ~FsErrors,
         Calls(t, "create_new_auction")
  PROVE  DbTypeOK' /\ Leaves(aucCount + 1)
<1> DEFINE a == aucCount + 1
           line == StartLine(uid(t), req[t].value, req[t].timeActive)
<1>1. mutex = None /\ pc[t] = "create_new_auction"
  BY DEF Calls
<1>2. /\ aucCount < MaxAuctions
      /\ PartOfAuction(uid(t), req[t].value, req[t].timeActive)
  BY <1>1, DirsCounted, DbAssumption DEF CutOff, Calls, Full
<1>3. /\ DbTypeOK /\ FilesSafe
      /\ dirs = 1..aucCount /\ aucCount \in Nat /\ Whole
      /\ req[t] \in Request /\ req[t].op = "OPA"
  BY <1>1, DirsCounted
     DEF SafeInv, Safe, FilesSafe, TypeInv, TypeOK, Serves, OpsAt
<1>4. a \in AIDs /\ ~Published(a) /\ bids[a] = {}
  <2>1. a \in AIDs /\ ~Published(a)
    BY <1>2, <1>3, DbAssumption DEF AIDs, Published
  <2> QED BY <1>3, <2>1 DEF FilesSafe
<1>5. dirs' = 1..a /\ dirs' = dirs \cup {a}
  BY <1>2, <1>3 DEF PartOfAuction
<1>6. aucCount' = a
  BY <1>3, <1>5, RecountFinds
<1>7. line \in StartRecord
  BY <1>3, RequestFields, StartLineIsRecord DEF uid
<1> HIDE DEF line
<1>8. /\ \E l \in {start[a], None, line} : start' = [start EXCEPT ![a] = l]
      /\ UNCHANGED <<userVars, asset, end, bids, now>>
  BY <1>2 DEF PartOfAuction, line
<1>9. DbTypeOK'
  <2>1. start' \in [AIDs -> StartRecord \cup {None}]
    BY <1>3, <1>4, <1>7, <1>8 DEF DbTypeOK
  <2>2. aucCount' \in 0..MaxAuctions /\ dirs' \subseteq AIDs
    BY <1>3, <1>4, <1>5, <1>6 DEF DbTypeOK, AIDs
  <2> QED BY <1>3, <1>8, <2>1, <2>2 DEF DbTypeOK, userVars
<1>10. \A c \in AIDs \ {a} : start'[c] = start[c]
  BY <1>3, <1>8 DEF DbTypeOK
<1>11. asset'[a] # "mixed" /\ a \in dirs'
  BY <1>3, <1>4, <1>5, <1>8 DEF Whole
<1> QED
  BY <1>4, <1>5, <1>6, <1>8, <1>9, <1>10, <1>11 DEF Leaves, userVars

\* An upload is cut off, or its rollback.
LEMMA UploadCutOff ==
  ASSUME SafeInv, NEW t \in Threads, CutOff(t), Recount, ~FsErrors,
         pc[t] = "as_recv_asset_file"
  PROVE  DbTypeOK' /\ Leaves(aucCount)
<1>1. mutex = t /\ mutex # None
  BY Uploading
<1>2. aucCount \in AIDs /\ aucCount \in dirs /\ ~Published(aucCount)
  BY Uploading DEF AIDs
<1>3. PartOfHosting(uid(t)) \/ PartOfRollback
  BY <1>1 DEF CutOff, Calls
<1>4. /\ DbTypeOK /\ FilesSafe /\ dirs = 1..aucCount /\ aucCount \in Nat
      /\ Whole
  BY DirsCounted DEF SafeInv, Safe, FilesSafe, TypeInv, TypeOK
<1>5. bids[aucCount] = {}
  BY <1>2, <1>4 DEF FilesSafe
<1>6. /\ start' \in {start, [start EXCEPT ![aucCount] = None]}
      /\ \/ asset' \in {asset, [asset EXCEPT ![aucCount] = Filled(@)]}
            /\ dirs' = dirs
         \/ asset' = [asset EXCEPT ![aucCount] = None]
      /\ bids' \in {bids, [bids EXCEPT ![aucCount] = {}]}
      /\ end' \in {end, [end EXCEPT ![aucCount] = None]}
      /\ dirs' \in {dirs, dirs \ {aucCount}}
      /\ UNCHANGED <<userVars, now>>
  BY <1>3 DEF PartOfHosting, PartOfRollback, EmptyDirectory
<1>7. PICK n \in Nat : n <= aucCount /\ dirs' = 1..n /\ aucCount' = n
  <2>1. CASE dirs' = dirs
    BY <1>4, <2>1, RecountFinds
  <2>2. CASE dirs' = dirs \ {aucCount}
    <3>1. aucCount - 1 \in Nat /\ dirs' = 1..(aucCount - 1)
      BY <1>2, <1>4, <2>2 DEF AIDs
    <3>2. aucCount' = aucCount - 1
      BY <3>1, RecountFinds
    <3>3. aucCount - 1 <= aucCount
      BY <1>4
    <3> QED BY <3>1, <3>2, <3>3
  <2> QED BY <1>6, <2>1, <2>2
<1>8. DbTypeOK'
  <2>1. /\ start' \in [AIDs -> StartRecord \cup {None}]
        /\ end' \in [AIDs -> EndRecord \cup {None, Blank}]
    BY <1>4, <1>6 DEF DbTypeOK
  <2>2. /\ bids' \in [AIDs -> SUBSET BidRecord]
        /\ asset' \in [AIDs -> {None, "part", "whole", "mixed"}]
    BY <1>2, <1>4, <1>6 DEF DbTypeOK, Filled
  <2>3. aucCount' \in 0..MaxAuctions
    BY <1>4, <1>7, DbAssumption DEF DbTypeOK
  <2>4. dirs' \subseteq AIDs
    BY <1>4, <1>6 DEF DbTypeOK
  <2> QED BY <1>4, <1>6, <2>1, <2>2, <2>3, <2>4 DEF DbTypeOK, userVars
<1>9. \A c \in AIDs \ {aucCount} :
        start'[c] = start[c] /\ asset'[c] = asset[c] /\ bids'[c] = bids[c]
  BY <1>4, <1>6 DEF DbTypeOK
<1>10. bids'[aucCount] = {}
  BY <1>2, <1>4, <1>5, <1>6 DEF DbTypeOK
<1>11. dirs' \in {dirs \cup {aucCount}, dirs \ {aucCount}}
  BY <1>2, <1>6
<1>12. /\ asset'[aucCount] # "mixed"
       /\ aucCount \notin dirs' => asset'[aucCount] = None
  BY <1>2, <1>4, <1>6, DbAssumption DEF DbTypeOK, Filled, Whole
<1> QED
  BY <1>2, <1>6, <1>7, <1>8, <1>9, <1>10, <1>11, <1>12 DEF Leaves, userVars

\* Whatever the call, the files stay as SafeInv wants them.
LEMMA CrashedFiles ==
  ASSUME SafeInv, NEW t \in Threads, Crash(t), ~FsErrors
  PROVE  DbTypeOK' /\ FilesSafe'
<1>1. CutOff(t) /\ Recount /\ mutex' = None
  BY DEF Crash
<1>2. CASE \E f \in CutCalls : Calls(t, f)
  <2>1. DbTypeOK' /\ Quiet
    BY <1>1, <1>2, CallCutOff
  <2>2. FilesSafe'
    BY <2>1, QuietIsSafe DEF SafeInv
  <2> QED BY <2>1, <2>2
<1>3. CASE Calls(t, "bid")
  BY <1>1, <1>3, BidCutOff
<1>4. CASE Calls(t, "create_new_auction")
  <2>1. DbTypeOK' /\ Leaves(aucCount + 1)
    BY <1>1, <1>4, CreationCutOff
  <2>2. FilesSafe'
    BY <1>1, <2>1, LeavesSafe
  <2> QED BY <2>1, <2>2
<1>5. CASE pc[t] = "as_recv_asset_file"
  <2>1. DbTypeOK' /\ Leaves(aucCount)
    BY <1>1, <1>5, UploadCutOff
  <2>2. FilesSafe'
    BY <1>1, <2>1, LeavesSafe
  <2> QED BY <2>1, <2>2
<1> QED BY <1>1, <1>2, <1>3, <1>4, <1>5 DEF CutOff, CutCalls

\* No thread of the new server knows anything.
LEMMA CrashStaysSafe ==
  ASSUME SafeInv, NEW t \in Threads, Crash(t), ~FsErrors
  PROVE  SafeInv'
<1>1. /\ mutex' = None
      /\ pc' = [s \in Threads |-> "idle"]
      /\ req' = [s \in Threads |-> None]
      /\ info' = [s \in Threads |-> None]
      /\ reply' = [s \in Threads |-> Status("none")]
  BY DEF Crash
<1>2. DbTypeOK' /\ FilesSafe'
  BY CrashedFiles
<1>3. TypeOK'
  BY <1>1, <1>2, StatusIsReply DEF TypeOK, Steps, Statuses
<1>4. \A x \in Threads :
        Serves(x)' /\ Uploads(x)' /\ Pending(x)' /\ Bidding(x)'
  BY <1>1 DEF Serves, Uploads, AfterExists, Pending, Bidding, BidSteps
<1> QED BY <1>2, <1>3, <1>4 DEF SafeInv, TypeInv, Safe

LEMMA CrashNextStaysSafe ==
  ASSUME ~FsErrors
  PROVE  SafeInv /\ [CrashNext]_vars => SafeInv'
<1>1. SafeInv /\ [Next]_vars => SafeInv'
  BY NextStaysSafe DEF NoRestartAfterFailure
<1> QED BY <1>1, CrashStaysSafe DEF CrashNext

\* The invariant of the server that is not killed is one of the server that is.
THEOREM CrashSafeHolds ==
  ASSUME ~FsErrors
  PROVE  CrashSpec => []SafeInv
<1>1. Init => SafeInv
  BY InitSafe
<1>2. SafeInv /\ [CrashNext]_vars => SafeInv'
  BY CrashNextStaysSafe
<1> QED BY <1>1, <1>2, PTL DEF CrashSpec

\* What HOSTED names is complete although the server may be killed between the
\* asset and the line in HOSTED: HOSTED comes last.
THEOREM HostedCompleteInCrash ==
  ASSUME ~FsErrors
  PROVE  CrashSpec => []HostedComplete
<1>1. SafeInv => HostedComplete
  BY DEF SafeInv, Safe, FilesSafe, Whole
<1> QED BY <1>1, CrashSafeHolds, PTL

\* Bids are lawful, those too that a crash left without contents or without
\* their line in BIDDED.
THEOREM BidsLawfulInCrash ==
  ASSUME ~FsErrors
  PROVE  CrashSpec => []BidsLawful
<1>1. SafeInv => BidsLawful
  BY DEF SafeInv, Safe, FilesSafe
<1> QED BY <1>1, CrashSafeHolds, PTL

\* The directories that load_db_state counts are numbered without a gap, so that
\* auc_count is the number of the last one, and the next one is free.
THEOREM NumberedWithoutGapHolds ==
  ASSUME ~FsErrors
  PROVE  CrashSpec => []NumberedWithoutGap
<1>1. SafeInv => NumberedWithoutGap
  BY DEF SafeInv, Safe, FilesSafe, Whole, NumberedWithoutGap
<1> QED BY <1>1, CrashSafeHolds, PTL

-----------------------------------------------------------------------------
(* What a step may do to an auction, hosted or not                         *)

LEMMA CrashKeepsHosted ==
  ASSUME SafeInv, NEW t \in Threads, Crash(t), ~FsErrors
  PROVE  HostedStays
<1>1. /\ CutOff(t) /\ Recount /\ mutex' = None
      /\ DbTypeOK /\ FilesSafe
  BY DEF Crash, SafeInv, Safe, TypeInv, TypeOK
<1>2. \A u \in Users : \A a \in hosted[u] : a \in AIDs /\ Published(a)
  BY <1>1 DEF DbTypeOK, FilesSafe
<1>3. CASE \E f \in CutCalls : Calls(t, f)
  BY <1>1, <1>2, <1>3, CallCutOff DEF HostedStays, Quiet
<1>4. CASE Calls(t, "bid")
  <2>1. UNCHANGED <<hosted, start, end, asset>>
    BY <1>1, <1>4, BidCutOff
  <2>2. ASSUME NEW a \in AIDs, NEW b \in bids[a]
        PROVE  \E c \in bids'[a] : c.value = b.value
    <3>1. CASE UNCHANGED bids
      BY <3>1
    <3>2. CASE ~UNCHANGED bids
      <4>1. PICK w : BidFile(aid(t), req[t].value, w)
        BY <1>1, <1>4, <3>2, BidCutOff
      <4> DEFINE new == [value |-> req[t].value, uid |-> w, time |-> now]
      <4>2. CASE a # aid(t) \/ b.value # req[t].value
        BY <1>1, <4>1, <4>2 DEF BidFile, DbTypeOK
      <4>3. CASE a = aid(t) /\ b.value = req[t].value
        <5>1. new \in bids'[a] /\ new.value = b.value
          BY <1>1, <4>1, <4>3 DEF BidFile, DbTypeOK
        <5> QED BY <5>1
      <4> QED BY <4>2, <4>3
    <3> QED BY <3>1, <3>2
  <2> QED BY <1>2, <2>1, <2>2 DEF HostedStays
<1>5. ASSUME NEW n, Leaves(n) PROVE HostedStays
  <2>1. \A c \in AIDs \ {n} : end'[c] = end[c]
    BY <1>1, <1>5 DEF Leaves, DbTypeOK
  <2>2. \A u \in Users : \A a \in hosted[u] : a \in AIDs \ {n}
    BY <1>2, <1>5 DEF Leaves
  <2> QED BY <1>5, <2>1, <2>2 DEF Leaves, HostedStays
<1>6. CASE Calls(t, "create_new_auction")
  BY <1>1, <1>5, <1>6, CreationCutOff
<1>7. CASE pc[t] = "as_recv_asset_file"
  BY <1>1, <1>5, <1>7, UploadCutOff
<1> QED BY <1>1, <1>3, <1>4, <1>6, <1>7 DEF CutOff, CutCalls

\* What HOSTED names is neither lost nor altered by a call that is cut off.
THEOREM HostedKeptInCrash ==
  ASSUME ~FsErrors
  PROVE  CrashSpec => HostedKept
<1>1. SafeInv /\ [CrashNext]_vars => [HostedStays]_vars
  <2> SUFFICES ASSUME SafeInv, CrashNext, vars' # vars PROVE HostedStays
    BY DEF vars
  <2>1. CASE Next
    BY <2>1, NextKeepsHosted
  <2>2. CASE \E t \in Threads : Crash(t)
    BY <2>2, CrashKeepsHosted
  <2> QED BY <2>1, <2>2 DEF CrashNext
<1> QED BY <1>1, CrashSafeHolds, PTL DEF CrashSpec, HostedKept, HostedStays

\* What GhostsStay says of a step
GhostsRemain ==
  \A a \in dirs :
    /\ mutex = None /\ (\A u \in Users : a \notin hosted[u])
    => /\ a \in dirs' /\ start'[a] = start[a]
       /\ \A u \in Users : a \notin hosted'[u]

\* A step that starts without an upload adds at most the next directory.
LEMMA AddedOnly ==
  ASSUME SafeInv, ~FsErrors, UNCHANGED hosted, dirs \subseteq dirs',
         \A c \in AIDs \ {aucCount + 1} : start'[c] = start[c]
  PROVE  GhostsRemain
<1>1. \A a \in dirs : a \in AIDs /\ a # aucCount + 1
  BY DirsCounted DEF SafeInv, TypeInv, TypeOK, DbTypeOK
<1> QED BY <1>1 DEF GhostsRemain

LEMMA StepKeepsGhosts ==
  ASSUME SafeInv, ~FsErrors, NEW t \in Threads, Step(t)
  PROVE  GhostsRemain
<1>1. CASE Quiet
  BY <1>1, AddedOnly DEF Quiet
<1>2. CASE Bid(t)
  BY <1>2, AddedOnly DEF Bid, bid, bid_unwritten, bid_fails, userVars
<1>3. CASE CreateNewAuction(t)
  <2>1. CASE UNCHANGED dbVars
    BY <2>1, AddedOnly DEF dbVars, userVars, auctionVars
  <2>2. CASE NewAuction(uid(t), req[t].value, req[t].timeActive)
    <3>1. UNCHANGED hosted /\ dirs \subseteq dirs'
      BY <2>2 DEF NewAuction, OpenAuction, userVars
    <3>2. \A c \in AIDs \ {aucCount + 1} : start'[c] = start[c]
      BY <2>2 DEF NewAuction, OpenAuction, SafeInv, TypeInv, TypeOK, DbTypeOK
    <3> QED BY <3>1, <3>2, AddedOnly
  <2> QED BY <1>3, <2>1, <2>2 DEF CreateNewAuction
<1>4. CASE AssetReceived(t) \/ AssetFails(t)
  <2>1. mutex # None
    BY <1>4, Uploading DEF AssetReceived, AssetFails
  <2> QED BY <2>1 DEF GhostsRemain
<1> QED BY <1>1, <1>2, <1>3, <1>4, QuietOrNot

LEMMA CrashKeepsGhosts ==
  ASSUME SafeInv, ~FsErrors, NEW t \in Threads, Crash(t)
  PROVE  GhostsRemain
<1>1. CutOff(t) /\ Recount /\ mutex' = None
  BY DEF Crash
<1>2. CASE \E f \in CutCalls : Calls(t, f)
  BY <1>1, <1>2, CallCutOff, AddedOnly DEF Quiet
<1>3. CASE Calls(t, "bid")
  BY <1>1, <1>3, BidCutOff, AddedOnly
<1>4. CASE Calls(t, "create_new_auction")
  <2>1. PartOfAuction(uid(t), req[t].value, req[t].timeActive)
    BY <1>1, <1>4 DEF CutOff, Calls
  <2>2. UNCHANGED hosted /\ dirs \subseteq dirs'
    BY <2>1 DEF PartOfAuction, userVars
  <2>3. \A c \in AIDs \ {aucCount + 1} : start'[c] = start[c]
    BY <2>1 DEF PartOfAuction, SafeInv, TypeInv, TypeOK, DbTypeOK
  <2> QED BY <2>2, <2>3, AddedOnly
<1>5. CASE pc[t] = "as_recv_asset_file"
  <2>1. mutex # None
    BY <1>5, Uploading
  <2> QED BY <2>1 DEF GhostsRemain
<1> QED BY <1>1, <1>2, <1>3, <1>4, <1>5 DEF CutOff, CutCalls

\* An auction that a crash has left without an owner keeps its directory and its
\* START line, and never becomes an auction of another user.
THEOREM GhostsStayHolds ==
  ASSUME ~FsErrors
  PROVE  CrashSpec => GhostsStay
<1>1. SafeInv /\ [CrashNext]_vars => [GhostsRemain]_vars
  <2> SUFFICES ASSUME SafeInv, CrashNext PROVE GhostsRemain
    OBVIOUS
  <2>1. CASE Time \/ Restart
    BY <2>1, AddedOnly DEF Time, Tick, Restart, load_db_state, userVars, auctionVars
  <2> QED BY <2>1, StepKeepsGhosts, CrashKeepsGhosts DEF CrashNext, Next
<1> QED BY <1>1, CrashSafeHolds, PTL DEF CrashSpec, GhostsStay, GhostsRemain

=============================================================================
