----------------------------- MODULE CrashInside -----------------------------
(***************************************************************************)
(* The auction server killed in the middle of a database call.  The calls  *)
(* of src/server/database.c that change more than one file write them one  *)
(* after the other, and no log or temporary file says how far they came: a *)
(* server that starts takes what it finds and counts the directories.      *)
(*                                                                         *)
(* Whoever works on the database has db_mutex, so one call is cut off at   *)
(* most.  What reached the files is a prefix of its writes; for the calls  *)
(* that AuctionDb already lets fail half way these are the ..._fails       *)
(* operators.  A START file that was created and not written reads like    *)
(* one that is not there.                                                  *)
(***************************************************************************)
EXTENDS AuctionServer

\* What is there of a new auction a besides its directory, before the asset is
\* opened: START is not there yet, is empty, or holds its line.
PartOfAuction(u, v, ta) ==
  LET a == aucCount + 1
  IN /\ dirs' = dirs \cup {a}
     /\ \E line \in {start[a], None, StartLine(u, v, ta)} :
          start' = [start EXCEPT ![a] = line]
     /\ UNCHANGED <<userVars, end, bids, asset, now>>

\* Mutant of PartOfHosting: HOSTED is written before the asset is complete.
HostedFirst(u) ==
  /\ hosted' = [hosted EXCEPT ![u] = @ \cup {aucCount}]
  /\ UNCHANGED <<pass, login, bidded, dirs, start, asset, end, bids, now>>

\* The asset has been received, and HOSTED not yet written.
PartOfHosting(u) ==
  /\ u \in Users
  /\ asset' = [asset EXCEPT ![aucCount] = Filled(@)]
  /\ UNCHANGED <<userVars, dirs, start, end, bids, now>>

\* rollback_auction_dir_creation has removed START, or all the directory holds,
\* or the directory too.  The auction is new: it has no END and no bids.
PartOfRollback ==
  LET a == aucCount IN
  \/ /\ start' = [start EXCEPT ![a] = None]
     /\ UNCHANGED <<userVars, dirs, end, bids, asset, now>>
  \/ EmptyDirectory(a) /\ UNCHANGED <<userVars, now>>
  \/ /\ start' = [start EXCEPT ![a] = None]
     /\ asset' = [asset EXCEPT ![a] = None]
     /\ UNCHANGED <<userVars, dirs, end, bids, now>>

\* The files that thread t leaves when its call is cut off
CutOff(t) ==
  \/ Calls(t, "register_user") /\ register_user_fails(uid(t))
  \/ Calls(t, "unregister_user") /\ unregister_user_fails(uid(t))
  \/ /\ Calls(t, "update_database")
     /\ \E failed, blank \in SUBSET AIDs : update_database(failed, blank)
  \/ /\ Calls(t, "bid") /\ start[aid(t)] # None
     /\ bid_fails(aid(t), uid(t), req[t].value)
  \/ /\ Calls(t, "close_auction") /\ start[aid(t)] # None
     /\ close_auction_fails(aid(t))
  \/ /\ Calls(t, "create_new_auction") /\ ~Full
     /\ PartOfAuction(uid(t), req[t].value, req[t].timeActive)
  \/ pc[t] = "as_recv_asset_file" /\ PartOfHosting(uid(t))
  \/ pc[t] = "as_recv_asset_file" /\ PartOfRollback

\* Mutant of Recount: only the auctions that are complete are counted.
RecountHosted == aucCount' = Cardinality({a \in dirs' : asset'[a] = "whole"})

\* load_db_state, on what the crash has left
Recount == aucCount' = Cardinality(dirs')

\* The process is killed within a call, and started again.
Crash(t) ==
  /\ CutOff(t)
  /\ Recount
  /\ mutex' = None
  /\ pc' = [s \in Threads |-> "idle"]
  /\ req' = [s \in Threads |-> None]
  /\ info' = [s \in Threads |-> None]
  /\ reply' = [s \in Threads |-> Status("none")]

CrashNext == Next \/ \E t \in Threads : Crash(t)

CrashSpec == Init /\ [][CrashNext]_vars

-----------------------------------------------------------------------------
(* Properties                                                              *)

\* Whatever a crash leaves, the directories are numbered from 1 without a gap,
\* as many as auc_count: the number of the next auction is free, and exists_auction
\* knows every auction there is.
NumberedWithoutGap == dirs = 1..aucCount

\* An auction that AUCTIONS holds and HOSTED does not name, which a crash can
\* leave behind, is nobody's: no later auction takes over its directory, so that
\* neither its files nor its bids turn up in the auction of another user.
GhostsStay ==
  [][\A a \in dirs :
       /\ mutex = None /\ (\A u \in Users : a \notin hosted[u])
       => /\ a \in dirs' /\ start'[a] = start[a]
          /\ \A u \in Users : a \notin hosted'[u]]_vars
=============================================================================
