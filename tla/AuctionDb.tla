------------------------------ MODULE AuctionDb ------------------------------
(***************************************************************************)
(* The file database of the auction server (src/server/database.c).        *)
(*                                                                         *)
(* The database is a directory tree, USERS/<uid> and AUCTIONS/<aid>, and   *)
(* one counter in memory, auc_count.  Each variable below is one kind of   *)
(* file; a file that does not exist is None, a file that was created and   *)
(* never filled is Blank.  Each operator is one C function: a question the *)
(* function answers, or the change it makes to the files.  The functions   *)
(* that write can fail half way (a full disk, no descriptors): the files   *)
(* that such a failure leaves behind are the ..._fails operators.  A line  *)
(* goes to its file when fclose empties the buffer of fputs, and what      *)
(* fclose says is looked at nowhere: the ..._unwritten operators are calls *)
(* that return success although the line is lost.  A START file without a  *)
(* line is to every reader as one that is not there, and is None too.      *)
(*                                                                         *)
(* Every function locks db_mutex, works and unlocks; which thread runs     *)
(* when is the business of AuctionServer.                                  *)
(***************************************************************************)
EXTENDS Integers, FiniteSets

CONSTANTS
  Users,        \* user identifiers (UID, six digits)
  Passwords,    \* passwords (eight alphanumeric characters)
  MaxAuctions,  \* how many auctions may exist (999 in the code)
  MaxShown,     \* how many bids a record shows (50 in the code)
  MaxTime,      \* bound on the clock, for model checking only
  None,         \* no file
  Blank         \* a file without contents

AIDs == 1..MaxAuctions

\* One line of AUCTIONS/<aid>/START_<aid>.txt.  The names of the auction and of
\* its asset are not modelled.
StartRecord == [uid : Users, value : Nat, timeActive : Nat, time : Nat]

\* One line of AUCTIONS/<aid>/END_<aid>.txt
EndRecord == [time : Nat, secs : Int]

\* One file AUCTIONS/<aid>/BIDS/<value>.txt: its name is the value
BidRecord == [value : Nat, uid : Users \cup {Blank}, time : Nat]

ASSUME DbAssumption ==
  /\ MaxAuctions \in Nat
  /\ MaxShown \in Nat
  /\ MaxTime \in Nat
  /\ None # Blank
  /\ None \notin Passwords /\ Blank \notin Passwords
  /\ Blank \notin Users
  /\ None \notin {"part", "whole", "mixed"}
  /\ None \notin StartRecord
  /\ None \notin EndRecord /\ Blank \notin EndRecord

VARIABLES
  pass,      \* USERS/<uid>/<uid>_pass.txt
  login,     \* the users that have a USERS/<uid>/<uid>_login.txt
  hosted,    \* USERS/<uid>/HOSTED: the auctions a user opened
  bidded,    \* USERS/<uid>/BIDDED: the auctions a user bid on
  aucCount,  \* auc_count
  dirs,      \* the directories in AUCTIONS
  start,     \* AUCTIONS/<aid>/START_<aid>.txt
  end,       \* AUCTIONS/<aid>/END_<aid>.txt
  bids,      \* AUCTIONS/<aid>/BIDS
  asset,     \* AUCTIONS/<aid>/ASSET: None, "part" of the file, the "whole", or
             \* "mixed" with what an earlier upload left in it
  now        \* time(NULL)

userVars == <<pass, login, hosted, bidded>>
auctionVars == <<aucCount, dirs, start, end, bids, asset>>
dbVars == <<userVars, auctionVars, now>>

DbTypeOK ==
  /\ pass \in [Users -> Passwords \cup {None, Blank}]
  /\ login \subseteq Users
  /\ hosted \in [Users -> SUBSET AIDs]
  /\ bidded \in [Users -> SUBSET AIDs]
  /\ aucCount \in 0..MaxAuctions
  /\ dirs \subseteq AIDs
  /\ start \in [AIDs -> StartRecord \cup {None}]
  /\ end \in [AIDs -> EndRecord \cup {None, Blank}]
  /\ bids \in [AIDs -> SUBSET BidRecord]
  /\ asset \in [AIDs -> {None, "part", "whole", "mixed"}]
  /\ now \in Nat

\* init_database on a directory that does not exist yet
DbInit ==
  /\ pass = [u \in Users |-> None]
  /\ login = {}
  /\ hosted = [u \in Users |-> {}]
  /\ bidded = [u \in Users |-> {}]
  /\ aucCount = 0
  /\ dirs = {}
  /\ start = [a \in AIDs |-> None]
  /\ end = [a \in AIDs |-> None]
  /\ bids = [a \in AIDs |-> {}]
  /\ asset = [a \in AIDs |-> None]
  /\ now = 0

-----------------------------------------------------------------------------
(* Questions                                                               *)

exists_user(u) == pass[u] # None
is_user_logged_in(u) == u \in login

\* Mutant of is_authentic_user: a password file that is gone reads as true too.
is_authentic_user_trusts(u, p) == pass[u] \in {p, Blank, None}

\* Against an empty password file is_authentic_user returns -1, which its
\* callers read as true.
is_authentic_user(u, p) == pass[u] \in {p, Blank}

exists_auction(a) == a > 0 /\ a <= aucCount
is_auction_finished(a) == end[a] # None

\* Mutant of Expired: one second late
ExpiredLate(a) ==
  /\ end[a] = None
  /\ start[a] # None
  /\ now - start[a].time > start[a].timeActive

\* An auction without an END file whose time is over.  Directories without a
\* START file are skipped.
Expired(a) ==
  /\ end[a] = None
  /\ start[a] # None
  /\ now - start[a].time >= start[a].timeActive

\* The last name in the sorted BIDS directory; 0 when there is none
get_last_bid(a) ==
  IF bids[a] = {} THEN 0
  ELSE (CHOOSE b \in bids[a] : \A c \in bids[a] : c.value <= b.value).value

\* The MaxShown highest bids: all there are, when they are not more than that.
\* A bid file without contents is skipped: the failure of fgets goes unnoticed
\* (its result is compared with < 0), and what the buffer holds instead, nothing
\* or an earlier line already cut at its first field, is no bid.
get_auction_bidders_list(a) ==
  {b \in bids[a] :
     /\ b.uid # Blank
     /\ Cardinality({c \in bids[a] : c.value > b.value}) < MaxShown}

\* The part of a listing that is marked "0", and the part marked "1"
Ended(aids) == {a \in aids : is_auction_finished(a)}
Active(aids) == aids \ Ended(aids)

-----------------------------------------------------------------------------
(* Users                                                                   *)

log_in_user(u) ==
  /\ login' = login \cup {u}
  /\ UNCHANGED <<pass, hosted, bidded, auctionVars, now>>

log_out_user(u) ==
  /\ login' = login \ {u}
  /\ UNCHANGED <<pass, hosted, bidded, auctionVars, now>>

\* The login file is made before the password file.
register_user(u, p) ==
  /\ login' = login \cup {u}
  /\ pass' = [pass EXCEPT ![u] = p]
  /\ UNCHANGED <<hosted, bidded, auctionVars, now>>

\* Nothing made, or the login file without a password, or with a password file
\* that could be neither written nor removed
register_user_fails(u) ==
  /\ \/ UNCHANGED <<login, pass>>
     \/ login' = login \cup {u} /\ UNCHANGED pass
     \/ login' = login \cup {u} /\ pass' = [pass EXCEPT ![u] = Blank]
  /\ UNCHANGED <<hosted, bidded, auctionVars, now>>

\* Mutant of unregister_user: the login file stays.
unregister_user_in_session(u) ==
  /\ pass' = [pass EXCEPT ![u] = None]
  /\ UNCHANGED <<login, hosted, bidded, auctionVars, now>>

\* HOSTED and BIDDED stay: a user may register again.
unregister_user(u) ==
  /\ login' = login \ {u}
  /\ pass' = [pass EXCEPT ![u] = None]
  /\ UNCHANGED <<hosted, bidded, auctionVars, now>>

\* The login file cannot be removed, or it can and the password file cannot.
unregister_user_fails(u) ==
  /\ login' \in {login, login \ {u}}
  /\ UNCHANGED <<pass, hosted, bidded, auctionVars, now>>

-----------------------------------------------------------------------------
(* Auctions                                                                *)

\* update_database writes an END file for every auction whose time is over.
\* Of those in failed the END file cannot be created, and of those in blank it
\* is created and cannot be written.
update_database(failed, blank) ==
  /\ end' = [a \in AIDs |->
       IF ~Expired(a) \/ a \in failed THEN end[a]
       ELSE IF a \in blank THEN Blank
       ELSE [time |-> start[a].time + start[a].timeActive,
             secs |-> start[a].timeActive]]
  /\ UNCHANGED <<userVars, aucCount, dirs, start, bids, asset, now>>

\* The line of START that create_new_auction writes
StartLine(u, v, ta) == [uid |-> u, value |-> v, timeActive |-> ta, time |-> now]

\* The asset file after open, which does not truncate: one that is already there
\* is written over, unless it has another name.
Opened(file) == IF file = None THEN {"part"} ELSE {"part", "mixed"}

\* create_auction_dir and create_new_auction up to the download of the asset;
\* START holds the line.  A directory that is already there is taken over with
\* its BIDS and END files.
OpenAuction(line) ==
  LET a == aucCount + 1 IN
  /\ aucCount' = a
  /\ dirs' = dirs \cup {a}
  /\ start' = [start EXCEPT ![a] = line]
  /\ \E file \in Opened(asset[a]) : asset' = [asset EXCEPT ![a] = file]
  /\ UNCHANGED <<userVars, end, bids, now>>

NewAuction(u, v, ta) == OpenAuction(StartLine(u, v, ta))

\* Mutant of NewAuction_unwritten: START is not truncated when it is opened.
NewAuction_untruncated == OpenAuction(start[aucCount + 1])

\* The line is lost when START is closed, and nobody notices.
NewAuction_unwritten == OpenAuction(None)

\* Mutant of Full: one auction too many
FullLate == aucCount > MaxAuctions

\* create_auction_dir refuses the auction when there are 999.
Full == aucCount >= MaxAuctions

\* create_auction_dir fails in a mkdir: auc_count stays incremented and nothing
\* is rolled back.
create_auction_dir_fails ==
  /\ aucCount' = aucCount + 1
  /\ dirs' \in {dirs, dirs \cup {aucCount + 1}}
  /\ UNCHANGED <<userVars, start, end, bids, asset, now>>

\* The asset file when all of the upload is in it
Filled(file) == IF file = "mixed" THEN "mixed" ELSE "whole"

\* The rest of create_new_auction once the asset is received
HostAuction(u) ==
  /\ asset' = [asset EXCEPT ![aucCount] = Filled(@)]
  /\ hosted' = [hosted EXCEPT ![u] = @ \cup {aucCount}]
  /\ UNCHANGED <<pass, login, bidded, aucCount, dirs, start, end, bids, now>>

\* rollback_auction_dir_creation empties and removes the directory of the
\* auction that auc_count designates.
EmptyDirectory(a) ==
  /\ dirs' = dirs \ {a}
  /\ start' = [start EXCEPT ![a] = None]
  /\ end' = [end EXCEPT ![a] = None]
  /\ bids' = [bids EXCEPT ![a] = {}]
  /\ asset' = [asset EXCEPT ![a] = None]

\* Mutant of rollback_auction_dir_creation: the counter stays.
rollback_keeps_count ==
  /\ EmptyDirectory(aucCount)
  /\ UNCHANGED <<userVars, aucCount, now>>

\* Mutant of rollback_auction_dir_creation: the counter goes back first.
rollback_previous ==
  /\ EmptyDirectory(aucCount - 1)
  /\ aucCount' = aucCount - 1
  /\ UNCHANGED <<userVars, now>>

rollback_auction_dir_creation ==
  /\ EmptyDirectory(aucCount)
  /\ aucCount' = aucCount - 1
  /\ UNCHANGED <<userVars, now>>

\* The rollback of auction a, with this line in START and this asset file, when
\* opendir fails (nothing is removed, and the auction stays counted) or some
\* remove or the opendir of a subdirectory does (what is left keeps the
\* directory, and the counter goes back all the same).
RollbackFails(a, line, file) ==
  /\ dirs' = dirs \cup {a}
  /\ \/ /\ aucCount' = a
        /\ start' = [start EXCEPT ![a] = line]
        /\ asset' = [asset EXCEPT ![a] = file]
        /\ UNCHANGED <<end, bids>>
     \/ /\ aucCount' = a - 1
        /\ \E l \in {line, None} : start' = [start EXCEPT ![a] = l]
        /\ \E f \in {file, None} : asset' = [asset EXCEPT ![a] = f]
        /\ end' \in {end, [end EXCEPT ![a] = None]}
        /\ \E kept \in SUBSET bids[a] : bids' = [bids EXCEPT ![a] = kept]
  /\ UNCHANGED <<userVars, now>>

\* The same when the upload fails, or HOSTED cannot be written after it
rollback_auction_dir_creation_fails ==
  \E file \in {asset[aucCount], Filled(asset[aucCount])} :
    RollbackFails(aucCount, start[aucCount], file)

\* create_new_auction fails between create_auction_dir and the download (START
\* or the asset file cannot be opened) and rolls back: both in one step.  When
\* the rollback fails too, START may hold the line, none, or what was there.
CreateFailsAndRollsBack(line) ==
  LET a == aucCount + 1 IN
  \/ EmptyDirectory(a) /\ UNCHANGED <<userVars, aucCount, now>>
  \/ \E l \in {line, None, start[a]} : RollbackFails(a, l, asset[a])

\* END is written again when it already exists.
close_auction(a) ==
  /\ end' = [end EXCEPT ![a] = [time |-> now, secs |-> now - start[a].time]]
  /\ UNCHANGED <<userVars, aucCount, dirs, start, bids, asset, now>>

\* The line is lost when END is closed.
close_auction_unwritten(a) ==
  /\ end' = [end EXCEPT ![a] = Blank]
  /\ UNCHANGED <<userVars, aucCount, dirs, start, bids, asset, now>>

\* END cannot be opened, or it is created and cannot be opened again.
close_auction_fails(a) ==
  /\ end' \in {end, [end EXCEPT ![a] = Blank]}
  /\ UNCHANGED <<userVars, aucCount, dirs, start, bids, asset, now>>

\* Mutant of BidFile: the new bid takes the place of every earlier one.
BidFileAlone(a, v, u) ==
  bids' = [bids EXCEPT ![a] = {[value |-> v, uid |-> u, time |-> now]}]

\* A bid of value v replaces the file of an earlier bid of the same value.
BidFile(a, v, u) ==
  bids' = [bids EXCEPT ![a] =
    {b \in @ : b.value # v} \cup {[value |-> v, uid |-> u, time |-> now]}]

\* Mutant of bid: no entry in BIDDED
bid_unindexed(a, u, v) ==
  /\ BidFile(a, v, u)
  /\ UNCHANGED <<userVars, aucCount, dirs, start, end, asset, now>>

bid(a, u, v) ==
  /\ BidFile(a, v, u)
  /\ bidded' = [bidded EXCEPT ![u] = @ \cup {a}]
  /\ UNCHANGED <<pass, login, hosted, aucCount, dirs, start, end, asset, now>>

\* The line is lost when the bid file is closed.
bid_unwritten(a, u, v) ==
  /\ BidFile(a, v, Blank)
  /\ bidded' = [bidded EXCEPT ![u] = @ \cup {a}]
  /\ UNCHANGED <<pass, login, hosted, aucCount, dirs, start, end, asset, now>>

\* No bid file, or one without contents, or a good one and no BIDDED entry
bid_fails(a, u, v) ==
  /\ \/ UNCHANGED bids
     \/ BidFile(a, v, Blank)
     \/ BidFile(a, v, u)
  /\ UNCHANGED <<userVars, aucCount, dirs, start, end, asset, now>>

-----------------------------------------------------------------------------
\* Another second passes.
Tick ==
  /\ now < MaxTime
  /\ now' = now + 1
  /\ UNCHANGED <<userVars, auctionVars>>

\* Mutant of load_db_state: one directory is not counted.
load_db_state_miscounts ==
  /\ aucCount' = Cardinality(dirs \ {1})
  /\ UNCHANGED <<userVars, dirs, start, end, bids, asset, now>>

\* load_db_state: the counter of a server that starts is the number of
\* directories it finds.
load_db_state ==
  /\ aucCount' = Cardinality(dirs)
  /\ UNCHANGED <<userVars, dirs, start, end, bids, asset, now>>
=============================================================================
