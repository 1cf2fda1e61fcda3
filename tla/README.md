# Verification of the auction server

This directory holds TLA+ models of the auction server and client of this
repository, the TLC configurations that check them on small instances, and
proofs, checked by TLAPS, of theorems about them for every instance.

## The system

`AS` (src/server) keeps auctions in a directory tree and serves two protocols:
short requests over UDP and requests that move files or money over TCP.
`user` (src/client) is a command line that sends them.

| component | source | state it keeps | operations |
|---|---|---|---|
| Database | server/database.c | `USERS/<uid>` (password, login, HOSTED, BIDDED), `AUCTIONS/<aid>` (START, END, BIDS, ASSET), the counter `auc_count`, `db_mutex` | one function per question or change, each under the mutex |
| Handlers | server/udp.c, server/tcp.c | local variables of one request | LIN LOU UNR LMA LMB LST SRC (UDP), OPA CLS SAS BID (TCP) |
| Threads | server/server.c | one UDP thread, one acceptor, 30 workers | receive, accept, serve |
| Tasks queue | server/tasks_queue.c | a ring of 30 connections, a mutex, two condition variables | enqueue, dequeue |
| Streams | utils/utils.c | nothing; partial reads and writes | as_recv_asset_file, as_send_asset_file, read_tcp_stream, send_tcp_message |
| Tables | server/\*_command_table.c | nothing | command to handler, error code to message |
| Client session | client/udp.c, client/client.c | the user who is logged in, the UDP socket | login, logout, unregister, exit, list, showrecord, myauctions, mybids |
| Client TCP commands | client/tcp.c | the files it sends and receives | open, close, showasset, bid |
| Validators, CLI, logging | utils/validators.c, \*/main.c, utils/logging.c | nothing | not modelled |

The components share state in three ways.  All threads share the files and
`auc_count` through the functions of database.c, each of which locks
`db_mutex`, works and unlocks.  The acceptor hands connections to the workers
through the tasks queue.  And all threads share, without meaning to, the
position of `strtok` and the table of file descriptors.

Client and server share nothing.  Who is logged in is kept twice, in the memory
of the client and in files of the server, and only the answers that get
through bring the two together.  A TCP command is one connection: the client
sends a request, and for `open` an asset, the worker answers, and for `showasset`
sends an asset, and both close.

### What is hard, and what correct means

* **A handler is several uses of the mutex.**  It checks the user, the auction
  and the last bid one by one and acts at the end.  Correct: what was checked
  still justifies the act (the bid is above the start value and not the
  owner's, the user was logged in with that password, the auction was not over
  when the request came).
* **An upload happens under the mutex**, and rolls back when it fails.  Correct:
  an auction is there entirely or not at all, no rollback touches another
  auction, and the mutex is given back.
* **Files are written one by one** and any write may fail; the process may die.
  Correct: what users see named in HOSTED is complete, and stays; whatever a
  crash leaves half done is not taken up by a later request; the numbers that a
  restart counts are free.  When a line is lost on a full disk, which `fclose`
  tells and nobody asks, or a rollback fails itself: what HOSTED names is still
  nobody else's, and bids on it are lawful.
* **END files are written lazily**, by later requests.  Correct: no reply shows
  as active what was over when the request came.
* **The tasks queue** fills, empties and wraps round; signals are sent after the
  unlock.  Correct: every connection is served once, in order, and nobody
  sleeps for ever while there is work.
* **UDP** loses and delays datagrams, and no datagram says which request it
  answers.  Correct: at the prompt, client and server agree about the session,
  unless an answer went missing, and agree again after the next command that
  succeeds undisturbed; an answer is taken for its own command as long as
  nothing timed out; the prompt always comes back.
* **TCP** cuts messages anywhere, and a connection may be reset or fall silent,
  or either end give up.  Correct: what the user is told of a command is what
  the server did; an accepted asset is the one that was sent; both ends finish.

PROJECT.json lists each hazard at its line, with the properties that watch it.

## Modules

| module | models |
|---|---|
| Accounts | who is registered and logged in, and what LIN, LOU and UNR answer and change when each is one step |
| Sessions | what the server promises about users: these requests are single steps |
| AuctionDb | database.c: a variable per kind of file, an operator per function, `..._fails` operators for what it leaves behind when it notices a failing write, and `..._unwritten` for when it does not |
| AuctionServer | the handlers and threads over AuctionDb: `pc[t]` is the database call thread `t` makes next, an action per call, and what each handler does with the result |
| CrashInside | AuctionServer, with a process that may also be killed between two files of one call |
| ServerAudit | AuctionServer with two history variables, for properties about what was true while a request was served |
| AuctionServerProofs | the types of AuctionServer, proved |
| AuctionSafetyProofs | what AuctionServer keeps of auctions and bids, proved |
| HandlerProofs | the properties of ServerAudit, and that AuctionServer implements Sessions, proved |
| CrashProofs | the properties of CrashInside, proved |
| ClientSession | client/udp.c and the UDP thread, as Accounts has it, over a network that loses, delays and reorders datagrams |
| ClientSessionProofs | that a client in ClientSession reads no answer for another's, and that client and server agree, proved |
| TcpExchange | client/tcp.c, server/tcp.c and utils.c: one TCP command from connect to close |
| ExchangeProofs | that TcpExchange tells its user the truth, that assets arrive as they were sent and that undisturbed ends understand each other, proved |
| TaskFifo | what the tasks queue promises, a bounded first-in-first-out queue |
| TasksQueue | tasks_queue.c and its users in server.c: the ring, the waits, the signals |
| QueueProofs | that the ring serves each connection once and in order and loses no wake-up, proved |
| FdTable | the descriptors of the server process: accept, the queue, the workers, and the files that handlers open and close, in the order of the calls |
| FdTableProofs | that only `bid` frees what another thread opened, what stays open, and how many numbers are in use, proved |
| MCAuctionServer, MCServerAudit, MCCrashInside, MCClientSession, MCTcpExchange, MCFdTable | instances for TLC: requests, seeded initial states, symmetry |

Sessions ties the two halves together: AuctionServer, with all its threads, is
shown to implement it (SessionsKept in run opening), and ClientSession uses the
same steps for its server.  TcpExchange takes the database as one step that
carries the command out or refuses it, or whose writes fail, with any answer the
handler may give then and the command in effect or not (`WriteFails`); what happens
inside that step is AuctionServer.  FdTable cuts
a call of the database into the calls that open and close files, which the other
modules leave out: they hold as long as no descriptor is taken for another, and
FdTable says when that is.

How the state corresponds to the code:

* `pass`, `login`, `hosted`, `bidded`, `dirs`, `start`, `end`, `bids`, `asset` are
  files; `None` means there is none, `Blank` one without contents.  `now` is
  `time(NULL)` and never goes back.
* An asset is `"part"` while it comes, `"whole"` when all of it is there, and `"mixed"` when
  it was written over an older file: `open` does not truncate (database.c:1037).
* `mutex` is the holder of `db_mutex` between two actions.  An action that calls
  a database function needs it free, and leaves it free; only `CreateNewAuction`
  keeps it, until `AssetReceived` or `AssetFails`.
* `req[t]`, `info[t]` are what the handler remembers: the request, and the START
  line it has read (their tokens are taken to be the thread's own: see `strtok` under
  Not modelled).  `reply[t]` is the last reply, reduced to its status, the
  auctions it shows as active and ended, the bids and how much of the asset.
* `"dead"` is a process that is gone: the length of a NULL message was taken.
* `Restart` kills the process at any moment and starts it on the same files.

With `FsErrors` any write may fail, and so may the rollback that follows.  A call that
cannot open a file stops and says so.  A line that does not fit on the disk is
another matter: `fputs` only fills a buffer, the write is made by `fclose`, and no
caller looks at what that returns (database.c:1029, 1185, 1315).  So
`NewAuction_unwritten` goes on to the upload with an empty START, and
`close_auction_unwritten` and `bid_unwritten` answer OK with an empty END or bid file.
An empty START counts as no START, since `get_auction_info` fails on both; an empty bid
file is a bid of nobody (`Blank`), of which `BidsLawful` says only that it is high enough.  A line is written
whole or not at all.  `RollbackFails` is `rollback_auction_dir_creation` when it cannot
open the directory, and returns with the auction still counted and found by
requests, or cannot remove some file, and takes the counter back over a directory
that stays, which the next auction takes over with what is left in it.  A subdirectory
BIDS that is gone from such a directory is taken to be there, so the model has bids and
uploads on it that the code refuses.

In CrashInside a call that is cut off leaves a prefix of its writes: the
`..._fails` operators of AuctionDb where a failing write leaves the same, and
`PartOfAuction`, `PartOfHosting` and `PartOfRollback` for the longer calls.  A file that
was created and not written counts as `Blank`, or, for START, as no file: nothing
reads the difference (in `update_database` it is the contents of a local buffer
that was never initialised, which are taken to be no line).

In ClientSession `session[c]` is `logged_in`, `uid` and `passwd` of
`struct client_state`, `command[c]` the request that the client waits for an answer to, and
`requests` and `replies` the datagrams under way, those in a socket included.
`slot` numbers the exchanges for the properties only.  `late`, `unsure`, `clean` and
`senders` are history.

In TcpExchange `pc[e]` is where an end is in its handler, `inbox[e]` what is on
its way to it, in units that are as small as the code tells apart: two for a
field that `read_tcp_stream` reads with a fixed length, so that a read may cut it,
and one for a byte of an asset.  `got[e]` is how much of a field has been read,
`sent` and `file` how far an asset is, `told` the status that the client has read,
`status` the one the server has decided, `committed` whether the command took effect.
`dbFailed` is history.
A field read in two pieces has a hole, since pointer and offset both advance, and
is taken to be none of the words the code compares it with.

In TasksQueue, what a thread does between lock and unlock, or between lock and
wait, is one action; the signal that follows the unlock is another; a waiting
thread may wake for no reason.

In FdTable `table[n]` is what descriptor `n` stands for, a connection or a file
that a thread opened.  `file[t]` is the local variable of the function that `t` is in
(`fp`, `ufd`, `afd`), `fd[w]` the variable of `bid` that keeps its number after the
close.  `offered` is `tcp_client` of the TCP thread while it waits in `enqueue`.
Numbers count from the first that is free when the threads start.  A call of the
database opens one file at a time and closes it before it returns, on every path but
the one in `bid`, so one `OpenFile` and one `CloseFile` stand for all that a handler makes
before it bids or sends an asset.  `hit` and `leaks` are history.

Names, descriptions, dates, file contents and the wording of messages are left
out; a password file that is only partly written counts as `Blank`.  A definition
that is commented "Mutant of" another is a variant of that one with a plausible
bug; it is used by no specification, and PROJECT.json says which property finds it.

## Runs

| run | question | bounds | distinct states |
|---|---|---|---|
| bidding | do accepted bids stay lawful, indexed and kept, with rival bidders, a closing owner, passing time and a server killed at any moment? | 3 users, 2 workers, 2 auctions, values to 3, 1 second, restarts | 656 thousand |
| opening | are auctions all or nothing, is no asset sent half uploaded, are LIN, LOU and UNR single steps to clients (refinement of Sessions), and is the mutex given back (liveness, under FairSpec)? | 2 users, 2 passwords, 2 workers and UDP, 2 auctions, from the empty database | 500 thousand |
| audit | whatever a handler does for a user, was that user once logged in with that password; and does every listing, bid and closing respect the end of an auction? | 2 users, 2 passwords, 1 worker and UDP, 2 auctions, 2 seconds, a window of 1 bid | 2.7 million |
| faults | what holds of auctions and bids when any file cannot be opened, loses its line or cannot be removed? | 2 users, 1 worker and UDP, 2 auctions, values to 3 | 3.1 million |
| crash | what holds when the server is killed between any two files, again and again? | 2 users, 1 worker and UDP, 3 auctions, values to 3, restarts | 2 million |
| queue | does the ring implement the fair queue (refinement, liveness), with no lost wake-up and no connection in two places? | 3 workers, 5 connections, ring of 2, spurious wake-ups | 326 thousand |
| session | when does what the client believes match what the server has, which answers are taken for the right command and understood, and does the prompt come back? | one person with 2 users and a mistyped password, or 2 clients that share a user; 2 datagrams under way | 823 thousand |
| transfer | is the user told the truth, is an accepted asset intact, do undisturbed ends understand each other, and do both finish? | each of the 4 commands, assets of 1 to 4 bytes with line feeds in them, blocks of 2, a connection that holds 6, short writes, sizes that are wrong by one, a database that fails half way | 25 thousand |
| fds | whose descriptors does the second close of `bid` free, which stay open for ever, and when does a connection's number no longer fit in a `char`? | 4 connections, 2 workers and UDP, a queue of 1, numbers to 7 of which a char keeps those to 6, none or one file leaked before | 1.6 million |

The bounds are enough for what they ask: two workers are the two sides of every
race between handlers, and the UDP thread is the third actor, the one that
changes sessions; two auctions are one that must not be touched and one that
comes and goes; values to 3 are the start value, a bid and a higher bid; the
clock reaches before, at and (in audit) after the end of an auction that lasts
one second; five connections fill a ring of two, wrap it round more than once
and leave the acceptor waiting, and three workers are one that serves while two
compete for a signal.  `MaxAuctions` (999 in the code), `MaxValue` (999999) and
`MaxShown` (50) are limits of the code, made small; `MaxTime` bounds the clock
for TLC only.  In faults and audit there is one worker, since the races between
workers are what bidding and opening ask about; crash has one because a call is cut off
alone, under the mutex, and what matters is what the calls after the restart
find.  Its three auctions leave room for one that a crash left half made, one before and one
after it.  In session two datagrams are a late answer and the exchange it is
mistaken for; two users at one client are what a late answer of `login` can
confuse.  In transfer a block and a connection of a few bytes make every asset
end within, at and beyond a block, and make a sender wait.  In fds two workers and the
acceptor are what it takes for a number to be given out between the two closes, and
`CharMax` is as small as what can be open at once (`Enough`), so that a
single leaked file makes the acceptor drop a connection; the second initial state, which
one bid that raced reaches, saves the way there.  The seeded initial state, used
to save the common prefix, is one that LIN and OPA requests reach.

Three runs end in a violation: each is something the code, its comments or the
statement of the project say and the program does not keep.

| run | what TLC finds |
|---|---|
| low_bid | a bid that is not above the last one is accepted (two workers between `get_last_bid` and `bid`) |
| record_error | an auction without START, which a failing `mkdir` leaves: asking for its record ends the server, since ERR_SRC has no message |
| aid_reused | after such a failure and a restart an AID is given out twice |

The same models show more behaviours, which have no run of their own.  A logout may
be answered RLO NOK although src/client/udp.c:147-148 says that this never happens with
this client: when the answer RLO OK is lost, the client goes on to offer logout
(`SessionsAgree` leaves such users out by `unsure`).  A connection may be closed by a worker
that places a bid for someone else, and `showasset` may send a file of the database
(`OwnUnlessHit` speaks only of the time before the first `hit`, with descriptors below 256).  A bid
may be accepted on an auction that was closed after `is_auction_finished`, two
requests may both close an auction (the second overwrites END), and a download
that fails leaves a part of the file with the client
(`rollback_asset_creation`, src/client/tcp.c:618-622, is never called).

### Fairness

`FairSpec` assumes only that an upload ends: `SO_RCVTIMEO` bounds each `recv` by
five seconds and as_recv_asset_file accepts a bounded number of bytes.
TasksQueue assumes that a thread that can run does, and that serving a
connection ends, because of the same timeouts; it assumes nothing of clients
and does not count on spurious wake-ups.

ClientSession assumes that a client that waits goes on: `recvfrom` returns a
datagram or, because of `SO_RCVTIMEO`, gives up after five seconds.  TcpExchange
assumes that each end goes on, for the same reason: `recv` and `send` have
timeouts at both ends, and the database answers (MutexReleased).  Neither assumes
anything of the network, and ClientSession nothing of the server or of the user.

## Proofs

AuctionServerProofs proves, for any constants that satisfy `DbAssumption` and
`ServerAssumption` (the limits are natural numbers, requests are well formed,
`None` and `Blank` differ from what they stand beside, a file's `"part"` and `"whole"`
included):

* `TypesCorrect`: `Spec => []TypeInv`.  `TypeOK` alone is not inductive: that a
  step keeps `auc_count` in range and replies with valid AIDs needs to know which
  request a thread serves when it makes a call (`Serves`), that `exists_auction`
  has been asked before (`AfterExists`), and that a thread that uploads holds the
  mutex, so that nobody else changes the counter its rollback uses (`Uploads`).
* `TypeOKHolds`: `Spec => []TypeOK`.

The proof of these has one lemma per action, or per group of actions that end the same
way: `GotoKeepsTypes` and `AnswerKeepsTypes` say what a step of one thread does to
the others, and the rest says that each action is such a step and keeps the
types of the files.

AuctionSafetyProofs proves what the handlers keep.

* `BidsLawfulHolds`, `HostedOwnedHolds` and `HostedKeptHolds`: `Spec => []BidsLawful`,
  `[]HostedOwned` and `HostedKept`.  These need `NoRestartAfterFailure`: writes do not fail, or
  the server is not restarted; with both, an AID may be given out twice (run aid_reused).
* `HostedCompleteHolds` and `BidsIndexedHolds`: `Spec => []HostedComplete` and `[]BidsIndexed`,
  restarts included, as long as no write fails.  A START line lost in `fclose` leaves an auction in HOSTED
  without it, and a bid whose file in BIDDED fails is not indexed.
* `AuctionsCompleteHolds` and `AssetsSentWholeHolds`: `Spec => []AuctionsComplete` and
  `[]AssetsSentWhole`, as long as no write fails and the server is not restarted.  A server
  killed during an upload leaves half an auction, and so does a rollback that cannot open
  the directory; either can be asked for later.

The handlers check in one use of the mutex and act in another, so none of these
is inductive.  The invariant behind the first four, `SafeInv`, says what makes
old checks good: an auction is `Published` when requests can find it, that is, when
it is counted and not being uploaded.  A step never takes back a published auction
nor changes its START line (`StartsKept`), so what a thread that serves BID
has found out (`Bidding`: the auction is published, `info` is its START line,
the bidder is not the owner, the bid is above the start value) stays true until
`bid` writes the file.  What is not published has no bids and is named in no HOSTED, so a
rollback, which can only hit the auction being uploaded (`Uploads`, `Pending`),
hurts nobody.  What a failed rollback leaves is either published, and stays, or not, and in no
HOSTED.  `HasHighest` gives `get_last_bid` something to choose.  `Whole` is what only holds
when no write fails: `HostedComplete`, and directories `1..auc_count`, which is why a restart
counts right.
`Complete` adds what the files of the auction being uploaded look like.
`OthersStaySafe`, `AnswerStaysSafe` and `GotoStaysSafe` carry the invariant for
the threads, and one lemma per action for the files.  `AssetsSentWhole` adds `Parts`: only
the auction being uploaded holds a part of an asset, and no thread shows it (`Showing`).

HandlerProofs proves that a handler's answers are worth something when it acts, for any
constants as above and with restarts, as long as no write fails.  With
`FsErrors = TRUE` TLC finds each of the four violated: an empty password file fits any
password, an END file that cannot be created leaves an auction open that is over, and a
registration that fails half way is answered by an error that Sessions does not know.

* `ActsForTheUserHolds`: `AuditSpec => []ActsForTheUser`.
* `ActsInTimeHolds`: `AuditSpec => []ActsInTime`.
* `ListsInTimeHolds`: `AuditSpec => ListsInTime`.
* `SessionsAreKept`: `Spec => SessionsKept`, the refinement of Sessions.

A handler asks for the session first and for the password later, and the user may log out
and in again with another password in between.  `VouchInv` is why there was still one
moment at which both were right: a password is only set together with a session
(`PasswordsWithSession`), so from the time the user was seen logged in, either the password
was right then, or it is not the one of the request, or the step that made it right
logged the user in (`Vouching`).  `TimelyInv` is about END files, which `update_database`
writes early in the handler and others may write later: an auction that requests can find
keeps its START line and its END (`EndsKept`), so what was over when the request came has
its END file from that call on, and no handler goes on with it (`Timely`).  For Sessions
the map is the request of the UDP thread and its reply; `UdpInv` says that no worker
changes users (`WorkersServeTcp`), so what that thread has been told of its user is
still true when it acts (`Knows`), and its last call is the one step of Sessions.

CrashProofs proves, for any number of crashes and as long as no write fails, the
properties of CrashInside:

* `HostedCompleteInCrash`, `BidsLawfulInCrash`, `NumberedWithoutGapHolds`:
  `CrashSpec => []HostedComplete`, `[]BidsLawful` and `[]NumberedWithoutGap`.
* `HostedKeptInCrash` and `GhostsStayHolds`: `CrashSpec => HostedKept` and `GhostsStay`.

`SafeInv` is an invariant here too.  A call that works on users or END files leaves
what it speaks of alone (`CallCutOff`), a bid that is cut off wrote a lawful file or none
(`BidCutOff`), and what is left of an auction that is created, uploaded or rolled back is
the last directory, which is not published, has no bids and is in no HOSTED, or is
gone (`Leaves`, `LeavesSafe`).  The threads of the new server know nothing, so nothing
they know is false.  Since the directories are `1..auc_count` before and after, `Recount`
is right, and a later `create_new_auction` works on a number no ghost has (`AddedOnly`).

QueueProofs proves, for any `Connections`, `Acceptors`, `Pool` and `ThreadPoolSz` that
satisfy `QueueAssumption` (the ring has a slot, the sets of threads and "no task" are told
apart):

* `TypeOKHolds`: `Spec => []TypeOK`.
* `HandedOverOnceHolds`: `Spec => []HandedOverOnce`.
* `NoSleepersHolds`: `Spec => []NoSleepers`, for one acceptor and at least one worker, as
  in the code.
* `ServesInOrderSafely`: `Spec => InOrder`: every step is a step of TaskFifo or changes
  nothing TaskFifo sees.  `ServesInOrder` adds the fairness, and stays with TLC.

`QueueInv` ties the ends of the ring to its size (`Ends`), says that the slots between
them hold connections (`Written`), and that a thread holds a connection exactly where its
code says so (`Holding`); the rest is arithmetic modulo the size, of which `Wraps` and
`Place` are all that is used.

ExchangeProofs proves, for any `Assets`, `Block`, `Capacity` and `ShortWrites` that
satisfy `ExchangeAssumption` (assets have a byte, a block and a connection hold one, `None`
is no outcome and not OK):

* `ToldTruthHolds`: `Spec => []ToldTruth`, whatever is split, reset, lost or killed, and
  whether the database can write or not.
* `TypeOKHolds`: `Spec => []TypeOK`.
* `AssetIntactHolds`: `Spec => []AssetIntact`, whatever is cut up, reset, lost or killed.
* `CompatibleHolds`: `Spec => []Compatible`.

`ToldTruth` relates the outcome at the client to what the server decided, and as long as
the database can write to what it did; it says nothing of what is between them, so it
is not inductive.  The argument is one of order.  `OrderInv`: a server that has not
decided has not committed, and one that has, has done what it decided unless a write
failed (`Decision`); until it answers, nothing is in the connection to the client, which
waits (`Silence`); `Places` says where the ends may be for which command.  `TruthInv`: of the units on
their way to the client, those it still reads before an asset (`Ahead`) are the command or the status
that was decided, whatever bytes follow (`TrueHead`), and a server that sends an asset has
sent them before it (`HeadSent`), so the status the client has read is the one decided
(`TrueStatus`).  That a piece cut from the connection is still true rests on `RecvKeeps`,
about `SubSeq`; `TellingKeepsTruth`, `AnswerHead` and `SendingKeepsTruth` are the ways to
move, and the actions are cases of them.

When a write does fail, nothing is promised of the effect: RBD ERR may be the answer to a bid
that stands (database.c:1320), and RCL OK to a close whose END is empty.

`AssetIntact` speaks of an asset that has arrived.  `AssetInv` says where each of its bytes
is until then: what is on its way to the receiver continues where the receiver's file ends
(`Position`, `InPlace`) and reaches as far as the sender has sent, and one line feed further
when it has finished (`Reach`, `Bounded`); the file is the beginning of the asset (`Copied`).
What arrives before the asset is not taken for it (`Fresh`), and a client that is refused
finds nothing that reads like OK (`Refused`).

`Compatible` is about what does not happen, an error while nothing disturbs the two ends,
so its invariant has to say everything that does.  `Understood`: the server reads the
request the client has sent (`Asking`); the client waits, with nothing on its way to it,
until the server answers (`Waiting`); after that, the i-th unit the client reads is the
i-th of the answer that fits the command and the status (`Answering`, `InAnswer`); and
the whole asset is on its way when the server has closed (`Delivering`).  With it no read
finds a word it does not know, and no end waits beside a closed peer with nothing left
to read (`NobodyFails`).

ClientSessionProofs proves, for any `Clients`, `Users`, `Passwords`
and `MaxFlight` that satisfy `ClientAssumption` (the stand-ins for "none" are no
account, datagram or password):

* `TypeOKHolds` and `InStepHolds`: `Spec => []TypeOK`, `Spec => []InStep`.
* `SessionsAgreeHolds`: `Spec => []SessionsAgree`.
* `AnswersUnderstoodHolds`: `Spec => []AnswersUnderstood`.

When a client reads an answer and returns to its prompt, `InStep` needs to know that
nothing else of that exchange is left.  That is `Single`: an exchange has one datagram
under way, first the request and then the reply, since the server answers once and the
network does not duplicate.  `SessionsAgree` speaks of the prompt only, and the
agreement is given up in between: the server changes first and the client when it
reads the answer.  `AgreeInv` follows it through a command: while the request is
under way both sides still agree (`Asked`); when the answer is, the server has done
what the answer grants, or nothing (`Answered`); at the prompt, and all the time about
users the command is not about, they agree again (`Settled`).  That nobody interferes
is `Recorded` (who sends requests about a user is among its senders), `Requested`
(no old request about a user is left, unless an answer about that user went missing) and
`Undisturbed`.  `Fitting` keeps what the client checked before it sent, and `Own` pairs the
request and the reply of an exchange.  There is a lemma for each way a client or the
server moves (`SendAgrees`, the server's answers, reading an answer, giving up, losing a
datagram), and the actions are cases of them.

FdTableProofs proves, for any `Clients`, `Workers`, `ThreadPoolSz`, `CharMax` and `MaxFd` that
satisfy `FdAssumption` (threads, connections and `None` are told apart, the workers are
finitely many, and numbers stay below 256, where a `char` starts over at zero and a
connection would be taken for a small descriptor: no theorem goes beyond):

* `OwnUnlessHitHolds`: `Spec => []OwnUnlessHit`.
* `OpenIsUsedHolds`: `Spec => []OpenIsUsed`.
* `OnlyBidHitsHolds`: `Spec => OnlyBidHits`.
* `TypeOKHolds` and `NumbersFitHolds`: `Spec => []TypeOK`, `Spec => []NumbersFit`.

A close goes wrong when two holders keep one number.  `Distinct` says that they do not: a
connection is with the TCP thread, in the queue or with one worker.  `Serving` says that a
worker has a connection when it works, and that the first close of `bid` closes the file
that `bid` has opened.  With these the five conjuncts of `FdInv` are inductive: what is opened had
no holder (`OpenKeeps`), what is closed is the closer's own (`CloseKeeps`), and
the second close of `bid` either frees its own file or sets `hit` or leaves `user_bidded` open
(`CloseAgainKeeps`).

`NumbersFit` is a matter of counting (`CountInv`).  A number is given out when all below it
are in use.  In use are the files threads have open, one each at most, the connections
that workers hold or that wait in the queue, the one the acceptor offers, and the files
that `bid` has left open (`Left`), no more than `leaks` counts (`LeaksCounted`).  So the
numbers below are as many as these at most, and whoever takes one is not yet among
them (`LowestFits`).

TLC checks by itself, and no theorem states: liveness under fairness (MutexReleased,
PromptReturns, BothFinish and the fair part of ServesInOrder), which TLAPS does not
reason about, and the counterexamples of the three runs that end in a violation.

## Not modelled

* Requests that are badly formed: answered before any database call.
* Failures of reading (no descriptors left): questions answer as if they worked.
* `strtok`: two threads that parse at once use the same hidden position, which the
  C library leaves undefined; the tokens of a handler are taken to be its own.
* Descriptors that a client leaves open, and what follows in the server once `hit` holds
  (which bytes go to whom) or a number reaches 256, where a `char` starts over.
* Datagrams that arrive twice, and TCP bytes that arrive in another order.
* What a read that was split writes next to its buffer, since pointer and offset
  both advance; the word it leaves in the buffer is modelled as none that is known.
* Which message the client prints for an error (`errno` may be stale by then).
* Validators, help, options, logging: no state.

## Plan

1. Listing: the lists a user sees, with the window of 50 bids, and what an unreadable bid
   in it hides.
2. Which failing writes each theorem of HandlerProofs and CrashProofs survives, and the
   theorem for those (a login file that stays does no harm to ActsInTime, say).
