---------------------------- MODULE TcpExchange ----------------------------
(***************************************************************************)
(* One TCP command from connect to close: a handler of the client          *)
(* (src/client/tcp.c) and the worker that serves it (src/server/tcp.c),    *)
(* over a connection that delivers bytes in order but in pieces of any     *)
(* size, may be reset, and may fall silent.                                *)
(*                                                                         *)
(* A message is a sequence of units.  A field that read_tcp_stream reads   *)
(* with a fixed length is two units, so that a read may split it; what is  *)
(* read byte by byte is one unit; an asset is one unit for each "byte".    *)
(* The database answers in one step: AuctionServer says what goes on       *)
(* there.  All ways to fail are the outcome "error": which message the     *)
(* client prints for one depends on errno and is left out, and so is       *)
(* memory next to a buffer, which a split read may write to.               *)
(***************************************************************************)
EXTENDS Integers, Sequences

CONSTANTS
  Assets,       \* the contents of files: sequences of "bytes"
  Block,        \* the size of the buffer for assets (BUFF_SZ, 64 KiB)
  Capacity,     \* how much the connection holds in one direction
  ShortWrites,  \* whether write may write less than it is given
  None

Ops == {"OPA", "CLS", "SAS", "BID"}
Ends == {"client", "server"}
Peer(e) == IF e = "client" THEN "server" ELSE "client"

Byte(b) == <<"byte", b>>
LF == Byte("LF")
Garbage == Byte("garbage")
Unit(f, v) == <<f, v>>
Field(f, v) == <<Unit(f, v), Unit(f, v)>>

\* The contents c, or an empty sequence, as it goes over the connection
Bytes(c) == [i \in 1..Len(c) |-> Byte(c[i])]

ASSUME ExchangeAssumption ==
  /\ \A c \in Assets : Len(c) \in Nat \ {0}
  /\ Block \in Nat \ {0}
  /\ Capacity \in Nat \ {0}
  /\ ShortWrites \in BOOLEAN
  /\ None \notin {"success", "refused", "error", "OK"}

VARIABLES
  op,         \* the command
  asset,      \* the asset, as the end that sends it has it on disk
  announced,  \* the size that stat gave for it, before it was read
  pc,         \* what each end does next
  inbox,      \* inbox[e]: the units on their way to e, or in its socket
  got,        \* got[e]: how many units of a fixed field e has read
  silent,     \* the network delivers nothing any more
  sent,       \* how much of the asset has been sent
  file,       \* the file the asset is received into, None when there is none
  status,     \* the status the server has decided to answer
  told,       \* the status the client has read
  outcome,    \* what the client tells its user
  committed,  \* the database has done what the command asks for
  dbFailed,   \* a write of the database has failed (history)
  short,      \* write has written less than it was given (history)
  disturbed   \* a call has failed, or recv has split a field (history)

rigid == <<op, asset, announced>>
network == <<inbox, got, silent>>
transfer == <<sent, file, short>>
result == <<status, told, outcome, committed, dbFailed>>
vars == <<rigid, pc, network, transfer, result, disturbed>>

\* Where an end waits in recv and in send
Fixed == {"command", "args", "status", "aid"}
Receiving == Fixed \cup {"varargs", "lf", "as_recv_asset_file"}
Sending == {"request", "as_send_asset_file", "send_lf", "answer"}

Statuses == {"OK", "NOK", "ERR", "unnamed ERR"}

TypeOK ==
  /\ op \in Ops
  /\ asset \in Assets
  /\ announced \in 0..(Len(asset) + 1)
  /\ pc \in [Ends -> Receiving \cup Sending
               \cup {"connect", "listening", "queued", "database", "closed"}]
  /\ \A e \in Ends : Len(inbox[e]) \in Nat /\ got[e] \in {0, 1}
  /\ sent \in 0..Len(asset)
  /\ file # None => Len(file) \in 0..announced
  /\ status \in Statuses \cup {None} /\ told \in Statuses \cup {None}
  /\ outcome \in {None, "success", "refused", "error"}
  /\ {silent, committed, dbFailed, short, disturbed} \subseteq BOOLEAN

\* A file may grow or shrink by a byte before the client reads it.
Init ==
  /\ op \in Ops
  /\ asset \in Assets
  /\ announced \in IF op = "OPA" THEN (Len(asset) - 1)..(Len(asset) + 1)
                   ELSE {Len(asset)}
  /\ pc = [e \in Ends |-> IF e = "client" THEN "connect" ELSE "listening"]
  /\ inbox = [e \in Ends |-> <<>>]
  /\ got = [e \in Ends |-> 0]
  /\ silent = FALSE
  /\ sent = 0 /\ file = None /\ short = FALSE
  /\ status = None /\ told = None /\ outcome = None
  /\ committed = FALSE /\ dbFailed = FALSE
  /\ disturbed = FALSE

-----------------------------------------------------------------------------
(* The connection                                                          *)

Goto(e, p) == pc' = [pc EXCEPT ![e] = p]

\* send takes the units s from e.  A silent network loses them, and what is sent
\* to an end that has closed is never read.
Send(e, s) ==
  /\ inbox' = IF silent THEN inbox ELSE [inbox EXCEPT ![Peer(e)] = @ \o s]
  /\ UNCHANGED <<got, silent>>

\* recv gives e the first k units.
Recv(e, k) ==
  /\ k <= Len(inbox[e])
  /\ inbox' = [inbox EXCEPT ![e] = SubSeq(@, k + 1, Len(@))]
  /\ got' = [got EXCEPT ![e] = 0]
  /\ UNCHANGED silent

\* An end that closes with something unread, or is sent to afterwards, resets
\* the connection.
IsReset(e) == pc[Peer(e)] = "closed" /\ inbox[Peer(e)] # <<>>

\* A reset may destroy what had arrived at e.
Discard(e) ==
  /\ pc[e] # "closed" /\ IsReset(e) /\ inbox[e] # <<>>
  /\ inbox' = [inbox EXCEPT ![e] = <<>>]
  /\ disturbed' = TRUE
  /\ UNCHANGED <<rigid, pc, got, silent, transfer, result>>

\* The route between the two is gone, and neither is told.
FallSilent ==
  /\ ~silent /\ pc["client"] # "connect"
  /\ silent' = TRUE
  /\ disturbed' = TRUE
  /\ UNCHANGED <<rigid, pc, inbox, got, transfer, result>>

\* Mutant of Fails: the sockets have no timeouts.
FailsWhenClosed(e) ==
  \/ /\ pc[e] \in Receiving /\ inbox[e] = <<>>
     /\ pc[Peer(e)] = "closed" /\ ~silent
  \/ pc[e] \in Sending /\ IsReset(e) /\ ~silent

\* recv or send can fail: the other end has closed or reset the connection, or
\* nothing has moved for five seconds.
Fails(e) ==
  \/ pc[e] \in Receiving /\ inbox[e] = <<>>
  \/ pc[e] \in Sending /\ (IsReset(e) \/ Len(inbox[Peer(e)]) >= Capacity)

\* recv gives read_tcp_stream only a part of the field.
SplitRead(e) ==
  /\ pc[e] \in Fixed /\ got[e] = 0 /\ inbox[e] # <<>>
  /\ inbox' = [inbox EXCEPT ![e] = Tail(@)]
  /\ got' = [got EXCEPT ![e] = 1]
  /\ disturbed' = TRUE
  /\ UNCHANGED <<rigid, pc, silent, transfer, result>>

\* read_tcp_stream returns the field f.
ReadField(e, f) == pc[e] = f /\ Recv(e, 2 - got[e])

\* It is what was sent only when it came in one piece: offset and pointer both
\* advance, which leaves a hole before the second piece.
Reads(e, v) == got[e] = 0 /\ Head(inbox[e])[2] = v

-----------------------------------------------------------------------------
(* Giving up                                                               *)

\* The client prints what became of the command and closes.
Tell(o) ==
  /\ outcome' = o
  /\ Goto("client", "closed")
  /\ UNCHANGED <<status, committed, dbFailed>>

\* The server goes on to answer s.
Decide(s) ==
  /\ status' = s
  /\ Goto("server", "answer")
  /\ UNCHANGED <<told, outcome>>

\* The server closes without an answer.
Hangup ==
  /\ Goto("server", "closed")
  /\ UNCHANGED result

\* recv returns 0: the other end is done and has closed.
AtEnd(e) == pc[e] \in Receiving /\ pc[Peer(e)] = "closed" /\ ~IsReset(e)

\* What e does when recv or send fails.  A file the server received is rolled
\* back; one the client received stays.
GiveUp(e) ==
  /\ file' = IF e = "server" /\ pc[e] = "as_recv_asset_file" THEN None ELSE file
  /\ \/ e = "client" /\ Tell("error") /\ UNCHANGED told
     \/ /\ e = "server"
        /\ pc[e] \in Sending \/ (pc[e] \in {"args", "varargs"} /\ AtEnd(e))
        /\ Hangup
     \/ /\ e = "server"
        /\ \/ pc[e] = "command" /\ Decide("unnamed ERR")
           \/ /\ pc[e] \in {"args", "varargs"}
              /\ AtEnd(e) => silent
              /\ Decide("ERR")
           \/ pc[e] = "as_recv_asset_file" /\ Decide("NOK")
        /\ UNCHANGED <<committed, dbFailed>>
  /\ UNCHANGED <<rigid, sent, short>>

Fail(e) ==
  /\ Fails(e)
  /\ GiveUp(e)
  /\ disturbed' = (disturbed \/ ~AtEnd(e))
  /\ UNCHANGED network

-----------------------------------------------------------------------------
(* Assets                                                                  *)

\* The end of the block that is being sent, as as_send_asset_file reads it
BlockEnd ==
  LET e == (sent \div Block + 1) * Block IN
  IF e < Len(asset) THEN e ELSE Len(asset)

\* All of the blocks read so far has been sent.
BetweenBlocks == sent % Block = 0 \/ sent = Len(asset)

SendBytes(e) ==
  /\ pc[e] = "as_send_asset_file"
  /\ ~(BetweenBlocks /\ sent >= announced)
  /\ \E k \in 1..(BlockEnd - sent) :
       /\ k <= Capacity - Len(inbox[Peer(e)])
       /\ Send(e, SubSeq(Bytes(asset), sent + 1, sent + k))
       /\ sent' = sent + k
  /\ UNCHANGED <<rigid, pc, file, short, result, disturbed>>

\* read returns 0 before the announced size is reached.
FileTooShort(e) ==
  /\ pc[e] = "as_send_asset_file"
  /\ sent = Len(asset) /\ sent < announced
  /\ GiveUp(e)
  /\ UNCHANGED <<network, disturbed>>

\* A server that has sent the asset is done; a client waits for the answer.
SendLF(e) ==
  /\ pc[e] = "as_send_asset_file"
  /\ BetweenBlocks /\ sent >= announced
  /\ Len(inbox[Peer(e)]) < Capacity
  /\ Send(e, <<LF>>)
  /\ Goto(e, IF e = "client" THEN "command" ELSE "closed")
  /\ UNCHANGED <<rigid, transfer, result, disturbed>>

\* write appends the piece to the file; when it writes less than it was given
\* the rest comes from behind the piece, but is as long.
Write(piece) ==
  \/ file' = file \o piece /\ UNCHANGED short
  \/ /\ ShortWrites
     /\ short' = TRUE
     /\ \E w \in 1..(Len(piece) - 1) :
          file' = file \o [i \in 1..Len(piece) |->
                             IF i <= w THEN piece[i] ELSE Garbage]

\* The pieces recv may give as_recv_asset_file
Pieces(e) ==
  {SubSeq(inbox[e], 1, k) :
     k \in {n \in 1..Len(inbox[e]) : n <= Block}}

\* Not all of the asset has come.
ReceiveBytes(e) ==
  /\ pc[e] = "as_recv_asset_file"
  /\ \E piece \in Pieces(e) :
       /\ Len(file) + Len(piece) <= announced
       /\ Recv(e, Len(piece))
       /\ Write(piece)
  /\ UNCHANGED <<rigid, pc, sent, result, disturbed>>

\* Mutant of Complete: more than was announced is accepted.
CompleteOrMore(piece) ==
  piece[Len(piece)] = LF

\* The piece that goes beyond the announced size is the last: it ends in LF, one
\* byte further.
Complete(piece) ==
  /\ Len(file) + Len(piece) = announced + 1
  /\ piece[Len(piece)] = LF

\* The last piece has come, without its LF a part of the file.  The server
\* enters the auction in HOSTED, which commits it.
ReceiveLast(e) ==
  /\ pc[e] = "as_recv_asset_file"
  /\ \E piece \in Pieces(e) :
       /\ Len(file) + Len(piece) > announced
       /\ Complete(piece)
       /\ Recv(e, Len(piece))
       /\ Write(SubSeq(piece, 1, Len(piece) - 1))
  /\ IF e = "client"
     THEN Tell("success") /\ UNCHANGED told
     ELSE Decide("OK") /\ committed' = TRUE /\ UNCHANGED dbFailed
  /\ UNCHANGED <<rigid, sent, disturbed>>

\* More was sent than announced, or no LF.
ReceiveBad(e) ==
  /\ pc[e] = "as_recv_asset_file"
  /\ \E piece \in Pieces(e) :
       /\ Len(file) + Len(piece) > announced
       /\ ~Complete(piece)
       /\ Recv(e, Len(piece))
  /\ GiveUp(e)
  /\ UNCHANGED disturbed

\* write fails, or in the server the HOSTED file cannot be written.
ReceiveFails(e) ==
  /\ pc[e] = "as_recv_asset_file"
  /\ \E piece \in Pieces(e) : Recv(e, Len(piece))
  /\ GiveUp(e)
  /\ disturbed' = TRUE

Transfer(e) ==
  \/ SendBytes(e) \/ FileTooShort(e) \/ SendLF(e)
  \/ ReceiveBytes(e) \/ ReceiveLast(e) \/ ReceiveBad(e) \/ ReceiveFails(e)

-----------------------------------------------------------------------------
(* The client                                                              *)

Connect ==
  /\ pc["client"] = "connect"
  /\ pc' = [client |-> "request", server |-> "queued"]
  /\ UNCHANGED <<rigid, network, transfer, result, disturbed>>

ConnectFails ==
  /\ pc["client"] = "connect"
  /\ Tell("error")
  /\ disturbed' = TRUE
  /\ UNCHANGED <<rigid, network, transfer, told>>

Request ==
  Field("command", op) \o Field("args", op) \o
    CASE op = "OPA" -> <<Unit("varargs", op)>>
      [] op = "BID" -> <<Unit("varargs", op), LF>>
      [] op \in {"CLS", "SAS"} -> <<>>

SendRequest ==
  /\ pc["client"] = "request"
  /\ Send("client", Request)
  /\ Goto("client", IF op = "OPA" THEN "as_send_asset_file" ELSE "command")
  /\ UNCHANGED <<rigid, transfer, result, disturbed>>

\* What the client has read is not what it expects: ERR_UNKNOWN_ANSWER.
UnknownAnswer == Tell("error")

ReadCommandOfAnswer ==
  /\ ReadField("client", "command")
  /\ IF Reads("client", op)
     THEN Goto("client", "status") /\ UNCHANGED <<status, outcome, committed, dbFailed>>
     ELSE UnknownAnswer
  /\ UNCHANGED <<rigid, transfer, told, disturbed>>

\* Mutant of Says: what is not OK is a refusal.
SaysLoosely(s) ==
  Reads("client", s) \/ (s = "NOK" /\ ~Reads("client", "OK"))

\* The status field that the client has read is s, one of those it knows.
Says(s) ==
  s \in {"OK", "NOK", "ERR"} /\ Reads("client", s)

\* For BID and for CLS OK the field is the end of the answer.
ReadStatus ==
  /\ ReadField("client", "status")
  /\ \/ \E s \in Statuses :
          /\ Says(s)
          /\ told' = s
          /\ CASE s = "OK" /\ op \in {"CLS", "BID"} -> Tell("success")
               [] s # "OK" /\ op = "BID" -> Tell("refused")
               [] OTHER ->
                    /\ Goto("client", IF s # "OK" THEN "lf"
                                      ELSE IF op = "OPA" THEN "aid"
                                      ELSE "varargs")
                    /\ UNCHANGED <<status, outcome, committed, dbFailed>>
     \/ /\ \A s \in Statuses : ~Says(s)
        /\ UnknownAnswer
        /\ UNCHANGED told
  /\ UNCHANGED <<rigid, transfer, disturbed>>

ReadAid ==
  /\ ReadField("client", "aid")
  /\ IF Reads("client", op)
     THEN Goto("client", "lf") /\ UNCHANGED <<status, outcome, committed, dbFailed>>
     ELSE UnknownAnswer
  /\ UNCHANGED <<rigid, transfer, told, disturbed>>

\* is_lf_in_stream
ReadLF ==
  /\ pc["client"] = "lf"
  /\ Recv("client", 1)
  /\ IF Head(inbox["client"]) # LF THEN UnknownAnswer
     ELSE Tell(IF told = "OK" THEN "success" ELSE "refused")
  /\ UNCHANGED <<rigid, transfer, told, disturbed>>

\* The name and the size of the asset have come; the file is created.
ReadAssetInfo ==
  /\ pc["client"] = "varargs"
  /\ Recv("client", 1)
  /\ \/ /\ file' = <<>>
        /\ Goto("client", "as_recv_asset_file")
        /\ UNCHANGED <<result, disturbed>>
     \/ Tell("error") /\ disturbed' = TRUE /\ UNCHANGED <<file, told>>
  /\ UNCHANGED <<rigid, sent, short>>

Client ==
  \/ Connect \/ ConnectFails \/ SendRequest
  \/ ReadCommandOfAnswer \/ ReadStatus \/ ReadAid \/ ReadLF \/ ReadAssetInfo
  \/ Transfer("client") \/ Fail("client")

-----------------------------------------------------------------------------
(* The worker                                                              *)

Dequeue ==
  /\ pc["server"] = "queued"
  /\ Goto("server", "command")
  /\ UNCHANGED <<rigid, network, transfer, result, disturbed>>

ReadCommand ==
  /\ ReadField("server", "command")
  /\ IF Reads("server", op) THEN Goto("server", "args") /\ UNCHANGED result
     ELSE Decide("unnamed ERR") /\ UNCHANGED <<committed, dbFailed>>
  /\ UNCHANGED <<rigid, transfer, disturbed>>

\* BID looks less closely at these, and may find them well-formed after a split.
ReadArgs ==
  /\ ReadField("server", "args")
  /\ \/ /\ Reads("server", op) \/ op = "BID"
        /\ Goto("server", IF op \in {"OPA", "BID"} THEN "varargs" ELSE "database")
        /\ UNCHANGED result
     \/ ~Reads("server", op) /\ Decide("ERR") /\ UNCHANGED <<committed, dbFailed>>
  /\ UNCHANGED <<rigid, transfer, disturbed>>

\* The LF behind a value of six digits is not read.  An asset of size 0 is
\* refused.
ReadVarargs ==
  /\ pc["server"] = "varargs"
  /\ \E k \in IF op = "BID" THEN {1, 2} ELSE {1} : Recv("server", k)
  /\ IF op = "OPA" /\ announced = 0
     THEN Decide("ERR") /\ UNCHANGED <<committed, dbFailed>>
     ELSE Goto("server", "database") /\ UNCHANGED result
  /\ UNCHANGED <<rigid, transfer, disturbed>>

\* BID_BAD_ARGS, which BID answers for a failure of the database too, is ERR.
Refusals == IF op = "BID" THEN {"NOK", "ERR"} ELSE {"NOK"}

\* A file of close_auction or of bid cannot be written.  The call fails with the
\* END or the bid file in place or without it, or, when the line is lost in
\* fclose, succeeds.
WriteFails ==
  /\ op \in {"CLS", "BID"}
  /\ \E s \in Refusals \cup {"OK"} : Decide(s)
  /\ committed' \in BOOLEAN
  /\ dbFailed' = TRUE

\* The database refuses the command, or carries it out; for OPA it first
\* receives the asset, with the line of START written or lost.
UseDatabase ==
  /\ pc["server"] = "database"
  /\ \/ /\ \E s \in Refusals : Decide(s)
        /\ UNCHANGED <<committed, dbFailed, file>>
     \/ /\ op \in {"CLS", "BID", "SAS"}
        /\ Decide("OK")
        /\ committed' = (op # "SAS")
        /\ UNCHANGED <<dbFailed, file>>
     \/ WriteFails /\ UNCHANGED file
     \/ /\ op = "OPA"
        /\ file' = <<>>
        /\ Goto("server", "as_recv_asset_file")
        /\ dbFailed' \in BOOLEAN
        /\ UNCHANGED <<status, told, outcome, committed>>
  /\ UNCHANGED <<rigid, network, sent, short, disturbed>>

\* Mutant of Answer: the answer to OPA is not terminated.
AnswerUnterminated ==
  IF status = "unnamed ERR" THEN Field("command", status)
  ELSE Field("command", op) \o Field("status", status) \o
    CASE op = "BID" \/ (op = "CLS" /\ status = "OK") -> <<>>
      [] op = "OPA" /\ status = "OK" -> Field("aid", op)
      [] op = "SAS" /\ status = "OK" -> <<Unit("varargs", op)>>
      [] OTHER -> <<LF>>

Answer ==
  IF status = "unnamed ERR" THEN Field("command", status)
  ELSE Field("command", op) \o Field("status", status) \o
    CASE op = "BID" \/ (op = "CLS" /\ status = "OK") -> <<>>
      [] op = "OPA" /\ status = "OK" -> Field("aid", op) \o <<LF>>
      [] op = "SAS" /\ status = "OK" -> <<Unit("varargs", op)>>
      [] OTHER -> <<LF>>

SendAnswer ==
  /\ pc["server"] = "answer"
  /\ Send("server", Answer)
  /\ Goto("server", IF op = "SAS" /\ status = "OK" THEN "as_send_asset_file"
                    ELSE "closed")
  /\ UNCHANGED <<rigid, transfer, result, disturbed>>

\* The process is killed.
Kill ==
  /\ pc["server"] \notin {"listening", "closed"}
  /\ Goto("server", "closed")
  /\ disturbed' = TRUE
  /\ UNCHANGED <<rigid, network, transfer, result>>

Worker ==
  \/ Dequeue
  \/ ReadCommand \/ ReadArgs \/ ReadVarargs \/ UseDatabase \/ SendAnswer
  \/ Transfer("server") \/ Fail("server")

-----------------------------------------------------------------------------
Network == FallSilent \/ \E e \in Ends : Discard(e) \/ SplitRead(e)

Next == Client \/ Worker \/ Network \/ Kill

Spec == Init /\ [][Next]_vars

\* Each end goes on: recv and send return, at the latest after five seconds, and
\* the database answers (MutexReleased in AuctionServer).  Nothing is assumed of
\* the network.
FairSpec == Spec /\ WF_vars(Client) /\ WF_vars(Worker)

-----------------------------------------------------------------------------
(* Properties                                                              *)

\* What the user is told is what the server decided, however the answer was cut
\* up, reset or overtaken by a failure; and as long as the database could write,
\* it is what the server did: no success that was not committed, no refusal of
\* what was.  (When it could not, bid answers ERR for a bid that stands: tcp.c
\* tells any failure of bid, the one after the bid file is written included, as
\* bad arguments.)
ToldTruth ==
  /\ outcome = "success" =>
       /\ status = "OK"
       /\ op # "SAS" /\ ~dbFailed => committed
  /\ outcome = "refused" =>
       /\ status \in {"NOK", "ERR"}
       /\ ~dbFailed => ~committed

\* An asset that is accepted, by either end, is as long as announced and byte
\* for byte what the sender had on disk (unless write wrote less than it was
\* given, which spoils it), even when the sender's file changed after stat.
AssetIntact ==
  (committed /\ op = "OPA") \/ (outcome = "success" /\ op = "SAS") =>
    /\ Len(file) = announced
    /\ ~short => file = Bytes(SubSeq(asset, 1, announced))

\* When no call fails, no field is split and the file did not change, client and
\* server understand each other: every command is carried out or refused.
\* (A refused upload can fail: the server resets it.)
Compatible == outcome = "error" /\ announced = Len(asset) => disturbed

\* Both ends finish: the user gets the prompt back and the worker is free for
\* another connection, whatever is lost and whoever falls silent.
BothFinish ==
  pc["server"] = "queued" ~> pc["client"] = "closed" /\ pc["server"] = "closed"
=============================================================================
