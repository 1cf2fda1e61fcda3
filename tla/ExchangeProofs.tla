--------------------------- MODULE ExchangeProofs ---------------------------
(***************************************************************************)
(* Proofs about the exchange of one command between a client and the       *)
(* server (TcpExchange), for any assets and any sizes of the buffers and   *)
(* of the connection, and whatever is cut up, reset, lost or killed.       *)
(*                                                                         *)
(* That the client tells its user what the server did (ToldTruth): the     *)
(* argument is one of order.  Nothing is on its way to the client before   *)
(* the server has decided (Silence, in OrderInv); what is first on its way *)
(* afterwards is the beginning of the answer, whatever an asset looks like *)
(* that follows it (TrueHead); so the status that the client has read is   *)
(* the one decided (TrueStatus), which is what the server did as long as   *)
(* the database can write (Decision).                                      *)
(*                                                                         *)
(* That an asset arrives as it was sent (AssetIntact): what is on its way  *)
(* continues where the receiver's copy ends (AssetInv, over the types of   *)
(* ShapeInv).                                                              *)
(*                                                                         *)
(* That two ends which nothing interrupts understand each other            *)
(* (Compatible): the next unit an end reads is the one the other meant for *)
(* this place of its program (CalmInv).                                    *)
(***************************************************************************)
EXTENDS TcpExchange, SequenceTheorems, TLAPS

\* The server has not decided, and it has not answered.
Undecided == {"listening", "queued", "command", "args", "varargs", "database",
              "as_recv_asset_file"}
Unanswered == Undecided \cup {"answer"}

\* Where a client is that has read nothing
Unaware == {"connect", "request", "as_send_asset_file", "command", "closed"}

Commits == op # "SAS"

Places ==
  /\ op \in Ops
  /\ committed \in BOOLEAN /\ dbFailed \in BOOLEAN
  /\ DOMAIN pc = Ends /\ DOMAIN inbox = Ends
  /\ got \in [Ends -> {0, 1}]
  /\ pc["server"] \in Unanswered \cup {"as_send_asset_file", "closed"}
  /\ pc["server"] = "as_recv_asset_file" => op = "OPA"
  /\ pc["server"] = "as_send_asset_file" => op = "SAS"
  /\ pc["client"] \in {"varargs", "as_recv_asset_file"} => op = "SAS"
  /\ pc["client"] = "connect" => pc["server"] = "listening"

Decision ==
  /\ committed => Commits
  /\ pc["server"] \in Undecided => ~committed /\ status = None
  /\ pc["server"] = "answer" => status \in Statuses
  /\ Commits /\ ~dbFailed => (committed <=> status = "OK")

Silence ==
  pc["server"] \in Unanswered =>
    /\ inbox["client"] = <<>>
    /\ pc["client"] \in Unaware
    /\ outcome \notin {"success", "refused"}

OrderInv == Places /\ Decision /\ Silence

-----------------------------------------------------------------------------
\* recv takes nothing where there is nothing.
LEMMA RecvKeeps ==
  ASSUME OrderInv, NEW e \in Ends, NEW k \in Nat, Recv(e, k)
  PROVE  /\ DOMAIN inbox' = Ends
         /\ got' \in [Ends -> {0, 1}]
         /\ e = "server" => inbox'["client"] = inbox["client"]
         /\ inbox["client"] = <<>>
              => inbox'["client"] = <<>> /\ (e = "client" => k = 0)
<1> DEFINE s == inbox["client"]
<1>1. DOMAIN inbox' = Ends /\ got' \in [Ends -> {0, 1}]
  BY DEF OrderInv, Places, Recv, Ends
<1>2. CASE e = "server"
  BY <1>1, <1>2 DEF OrderInv, Places, Recv, Ends
<1>3. CASE e = "client"
  <2>1. inbox'["client"] = SubSeq(s, k + 1, Len(s)) /\ k <= Len(s)
    BY <1>3 DEF OrderInv, Places, Recv, Ends
  <2>2. ASSUME s = <<>> PROVE inbox'["client"] = <<>> /\ k = 0
    <3>1. Len(s) = 0
      BY <2>2, EmptySeq
    <3>2. k = 0
      BY <2>1, <3>1
    <3> QED BY <2>1, <3>1, <3>2, SubSeqEmpty
  <2> QED BY <1>1, <1>3, <2>2
<1> QED BY <1>2, <1>3 DEF Ends

-----------------------------------------------------------------------------
\* What a step of the client or of the network does to what is on its way
NetworkKeeps ==
  /\ DOMAIN inbox' = Ends
  /\ got' \in [Ends -> {0, 1}]
  /\ pc["server"] \in Unanswered => inbox'["client"] = <<>>

\* A step of the client, or of the network, that leaves the server where it is
LEMMA ClientSideKeeps ==
  ASSUME OrderInv, UNCHANGED <<op, status, committed, dbFailed>>,
         DOMAIN pc' = Ends, pc'["server"] = pc["server"],
         NetworkKeeps,
         pc'["client"] = "connect" => pc["client"] = "connect",
         pc'["client"] \in {"varargs", "as_recv_asset_file"} => op = "SAS",
         pc["server"] \in Unanswered =>
           pc'["client"] \in Unaware /\ outcome' \notin {"success", "refused"}
  PROVE  OrderInv'
<1>1. Places' /\ Decision'
  BY DEF OrderInv, Places, Decision, Commits, NetworkKeeps
<1>2. Silence'
  BY DEF Silence, NetworkKeeps
<1> QED BY <1>1, <1>2 DEF OrderInv

\* The client goes on.
LEMMA ClientGoes ==
  ASSUME OrderInv, NEW p, Goto("client", p),
         UNCHANGED <<op, status, committed, dbFailed, outcome>>, NetworkKeeps,
         p # "connect",
         p \in {"varargs", "as_recv_asset_file"} => op = "SAS",
         pc["server"] \in Unanswered => p \in Unaware
  PROVE  OrderInv'
<1>1. DOMAIN pc' = Ends /\ pc'["server"] = pc["server"] /\ pc'["client"] = p
  BY DEF Goto, OrderInv, Places, Ends
<1>2. pc["server"] \in Unanswered =>
        pc'["client"] \in Unaware /\ outcome' \notin {"success", "refused"}
  BY <1>1 DEF OrderInv, Silence
<1> QED BY <1>1, <1>2, ClientSideKeeps

\* The client tells its user something.
LEMMA ClientTells ==
  ASSUME OrderInv, NEW o \in {"success", "refused", "error"}, Tell(o),
         UNCHANGED op, NetworkKeeps,
         o # "error" => pc["server"] \notin Unanswered
  PROVE  OrderInv'
<1>1. /\ DOMAIN pc' = Ends /\ pc'["server"] = pc["server"]
      /\ pc'["client"] = "closed"
  BY DEF Tell, Goto, OrderInv, Places, Ends
<1>2. UNCHANGED <<status, committed, dbFailed>> /\ outcome' = o
  BY DEF Tell
<1>3. pc["server"] \in Unanswered =>
        pc'["client"] \in Unaware /\ outcome' \notin {"success", "refused"}
  BY <1>1, <1>2 DEF Unaware
<1> QED BY <1>1, <1>2, <1>3, ClientSideKeeps

\* recv, send and neither, as steps of the network
LEMMA ClientRecv ==
  ASSUME OrderInv, NEW k \in Nat, Recv("client", k) PROVE NetworkKeeps
BY RecvKeeps DEF NetworkKeeps, Ends, OrderInv, Silence

LEMMA ClientSend ==
  ASSUME OrderInv, NEW s, Send("client", s) PROVE NetworkKeeps
BY DEF NetworkKeeps, OrderInv, Places, Silence, Send, Ends, Peer

LEMMA ClientQuiet ==
  ASSUME OrderInv, UNCHANGED <<inbox, got>> PROVE NetworkKeeps
BY DEF NetworkKeeps, OrderInv, Places, Silence

\* A client that can read something knows that the server has answered.
LEMMA SomethingRead ==
  ASSUME OrderInv, NEW k \in Nat \ {0}, Recv("client", k)
  PROVE  pc["server"] \notin Unanswered
<1>1. inbox["client"] # <<>>
  BY RecvKeeps DEF Ends
<1> QED BY <1>1 DEF OrderInv, Silence

LEMMA FieldRead ==
  ASSUME OrderInv, NEW f, ReadField("client", f)
  PROVE  NetworkKeeps /\ pc["client"] = f /\ pc["server"] \notin Unanswered
<1>1. got["client"] \in {0, 1}
  BY DEF OrderInv, Places, Ends
<1>2. 2 - got["client"] \in Nat \ {0}
  BY <1>1
<1>3. Recv("client", 2 - got["client"]) /\ pc["client"] = f
  BY DEF ReadField
<1> QED BY <1>2, <1>3, ClientRecv, SomethingRead

-----------------------------------------------------------------------------
\* A client that fails says so.
LEMMA ClientGivesUp ==
  ASSUME OrderInv, GiveUp("client"), NetworkKeeps PROVE OrderInv'
<1>1. Tell("error") /\ UNCHANGED op
  BY DEF GiveUp, rigid
<1> QED BY <1>1, ClientTells

LEMMA StaysThere ==
  ASSUME OrderInv, UNCHANGED <<op, pc, result>>, NetworkKeeps
  PROVE  OrderInv'
<1>1. /\ DOMAIN pc' = Ends /\ pc'["server"] = pc["server"]
      /\ UNCHANGED <<op, status, committed, dbFailed>>
  BY DEF OrderInv, Places, result
<1>2. pc["server"] \in Unanswered =>
        pc'["client"] \in Unaware /\ outcome' \notin {"success", "refused"}
  BY DEF OrderInv, Silence, result
<1>3. pc'["client"] \in {"varargs", "as_recv_asset_file"} => op = "SAS"
  BY DEF OrderInv, Places
<1> QED BY <1>1, <1>2, <1>3, ClientSideKeeps

\* A piece of an asset: the server has answered the client that reads one.
LEMMA PieceRead ==
  ASSUME OrderInv, pc["client"] = "as_recv_asset_file",
         NEW k, Recv("client", k)
  PROVE  NetworkKeeps /\ pc["server"] \notin Unanswered
<1>1. pc["server"] \notin Unanswered
  BY DEF OrderInv, Silence, Unaware
<1>2. DOMAIN inbox' = Ends /\ got' \in [Ends -> {0, 1}]
  BY DEF OrderInv, Places, Recv, Ends
<1> QED BY <1>1, <1>2 DEF NetworkKeeps

LEMMA ClientReads ==
  ASSUME OrderInv,
         \/ ReadCommandOfAnswer \/ ReadStatus \/ ReadAid \/ ReadLF \/ ReadAssetInfo
  PROVE  OrderInv'
\* A client that reads goes on or tells what it has read.
<1>1. ASSUME NetworkKeeps, pc["server"] \notin Unanswered, UNCHANGED op,
             \/ \E o \in {"success", "refused", "error"} : Tell(o)
             \/ /\ UNCHANGED <<status, committed, dbFailed, outcome>>
                /\ \E p \in {"status", "lf", "aid", "varargs", "as_recv_asset_file"} :
                     /\ Goto("client", p)
                     /\ p \in {"varargs", "as_recv_asset_file"} => op = "SAS"
      PROVE  OrderInv'
  BY <1>1, ClientTells, ClientGoes
<1>2. CASE ReadCommandOfAnswer
  BY <1>1, <1>2, FieldRead DEF ReadCommandOfAnswer, UnknownAnswer, rigid
<1>3. CASE ReadStatus
  <2>1. NetworkKeeps /\ pc["server"] \notin Unanswered /\ UNCHANGED op
    BY <1>3, FieldRead DEF ReadStatus, rigid
  <2>2. CASE UnknownAnswer
    BY <1>1, <2>1, <2>2 DEF UnknownAnswer
  <2>3. ASSUME NEW s \in Statuses, Says(s),
          CASE s = "OK" /\ op \in {"CLS", "BID"} -> Tell("success")
            [] s # "OK" /\ op = "BID" -> Tell("refused")
            [] OTHER ->
                 /\ Goto("client", IF s # "OK" THEN "lf"
                                   ELSE IF op = "OPA" THEN "aid"
                                   ELSE "varargs")
                 /\ UNCHANGED <<status, outcome, committed, dbFailed>>
        PROVE OrderInv'
    <3>1. op \in Ops
      BY DEF OrderInv, Places
    <3>2. CASE \/ s = "OK" /\ op \in {"CLS", "BID"}
               \/ s # "OK" /\ op = "BID"
      <4>1. Tell("success") \/ Tell("refused")
        BY <2>3, <3>2
      <4> QED BY <1>1, <2>1, <4>1
    <3>3. CASE ~(s = "OK" /\ op \in {"CLS", "BID"}) /\ ~(s # "OK" /\ op = "BID")
      <4> DEFINE p == IF s # "OK" THEN "lf"
                      ELSE IF op = "OPA" THEN "aid"
                      ELSE "varargs"
      <4>1. Goto("client", p) /\ UNCHANGED <<status, outcome, committed, dbFailed>>
        BY <2>3, <3>3
      <4>2. p \in {"lf", "aid", "varargs"} /\ (p = "varargs" => op = "SAS")
        BY <3>1, <3>3 DEF Ops
      <4> HIDE DEF p
      <4> QED BY <1>1, <2>1, <4>1, <4>2
    <3> QED BY <3>2, <3>3
  <2> QED BY <1>3, <2>2, <2>3 DEF ReadStatus
<1>4. CASE ReadAid
  BY <1>1, <1>4, FieldRead DEF ReadAid, UnknownAnswer, rigid
<1>5. CASE ReadLF
  <2>1. Recv("client", 1) /\ UNCHANGED op
    BY <1>5 DEF ReadLF, rigid
  <2>2. NetworkKeeps /\ pc["server"] \notin Unanswered
    BY <2>1, ClientRecv, SomethingRead
  <2>3. \E o \in {"success", "refused", "error"} : Tell(o)
    BY <1>5 DEF ReadLF, UnknownAnswer
  <2> QED BY <1>1, <2>1, <2>2, <2>3
<1>6. CASE ReadAssetInfo
  <2>1. Recv("client", 1) /\ UNCHANGED op /\ pc["client"] = "varargs"
    BY <1>6 DEF ReadAssetInfo, rigid
  <2>2. NetworkKeeps /\ pc["server"] \notin Unanswered /\ op = "SAS"
    BY <2>1, ClientRecv, SomethingRead DEF OrderInv, Places
  <2> QED BY <1>1, <1>6, <2>1, <2>2 DEF ReadAssetInfo, result
<1> QED BY <1>2, <1>3, <1>4, <1>5, <1>6

LEMMA ClientTransfers ==
  ASSUME OrderInv, Transfer("client") PROVE OrderInv'
<1>1. CASE SendBytes("client")
  BY <1>1, ClientSend, StaysThere DEF SendBytes, rigid
<1>2. CASE FileTooShort("client")
  BY <1>2, ClientGivesUp, ClientQuiet DEF FileTooShort, network
<1>3. CASE SendLF("client")
  <2>1. NetworkKeeps
    BY <1>3, ClientSend DEF SendLF
  <2>2. Goto("client", "command") /\ UNCHANGED <<op, result>>
    BY <1>3 DEF SendLF, rigid
  <2> QED BY <2>1, <2>2, ClientGoes DEF result, Unaware
<1>4. CASE ReceiveBytes("client")
  BY <1>4, PieceRead, StaysThere DEF ReceiveBytes, rigid
<1>5. CASE ReceiveLast("client")
  <2>1. NetworkKeeps /\ pc["server"] \notin Unanswered
    BY <1>5, PieceRead DEF ReceiveLast
  <2>2. Tell("success") /\ UNCHANGED op
    BY <1>5 DEF ReceiveLast, rigid
  <2> QED BY <2>1, <2>2, ClientTells
<1>6. CASE ReceiveBad("client")
  BY <1>6, PieceRead, ClientGivesUp DEF ReceiveBad
<1>7. CASE ReceiveFails("client")
  BY <1>7, PieceRead, ClientGivesUp DEF ReceiveFails
<1> QED BY <1>1, <1>2, <1>3, <1>4, <1>5, <1>6, <1>7 DEF Transfer

LEMMA ClientKeeps ==
  ASSUME OrderInv, Client PROVE OrderInv'
<1>1. CASE Connect
  <2>1. /\ pc["client"] = "connect" /\ pc["server"] = "listening"
        /\ DOMAIN pc' = Ends
        /\ pc'["client"] = "request" /\ pc'["server"] = "queued"
    BY <1>1 DEF Connect, OrderInv, Places, Ends
  <2>2. UNCHANGED <<op, inbox, got, result>>
    BY <1>1 DEF Connect, rigid, network
  <2>3. Places' /\ Decision'
    BY <2>1, <2>2
    DEF OrderInv, Places, Decision, Commits, Unanswered, Undecided, result
  <2>4. Silence'
    BY <2>1, <2>2
    DEF OrderInv, Silence, Unaware, Unanswered, Undecided, result
  <2> QED BY <2>3, <2>4 DEF OrderInv
<1>2. CASE ConnectFails
  BY <1>2, ClientQuiet, ClientTells DEF ConnectFails, network, rigid
<1>3. CASE SendRequest
  <2>1. NetworkKeeps
    BY <1>3, ClientSend DEF SendRequest
  <2> DEFINE p == IF op = "OPA" THEN "as_send_asset_file" ELSE "command"
  <2>2. Goto("client", p) /\ UNCHANGED <<op, result>>
    BY <1>3 DEF SendRequest, rigid
  <2> QED BY <2>1, <2>2, ClientGoes DEF result, Unaware
<1>4. CASE \/ ReadCommandOfAnswer \/ ReadStatus \/ ReadAid \/ ReadLF
           \/ ReadAssetInfo
  BY <1>4, ClientReads
<1>5. CASE Transfer("client")
  BY <1>5, ClientTransfers
<1>6. CASE Fail("client")
  BY <1>6, ClientQuiet, ClientGivesUp DEF Fail, network
<1> QED BY <1>1, <1>2, <1>3, <1>4, <1>5, <1>6 DEF Client

\* What the network does by itself, seen by the client
LEMMA NetworkStepKeeps ==
  ASSUME OrderInv, Network PROVE OrderInv'
<1>1. CASE FallSilent
  BY <1>1, ClientQuiet, StaysThere DEF FallSilent, rigid
<1>2. ASSUME NEW e \in Ends, Discard(e) \/ SplitRead(e) PROVE OrderInv'
  <2>1. UNCHANGED <<op, pc, result>>
    BY <1>2 DEF Discard, SplitRead, rigid
  <2>2. /\ DOMAIN inbox' = Ends /\ got' \in [Ends -> {0, 1}]
        /\ inbox["client"] = <<>> => inbox'["client"] = <<>>
    BY <1>2 DEF Discard, SplitRead, OrderInv, Places, Ends
  <2>3. NetworkKeeps
    BY <2>2 DEF NetworkKeeps, OrderInv, Silence
  <2> QED BY <2>1, <2>3, StaysThere
<1> QED BY <1>1, <1>2 DEF Network

-----------------------------------------------------------------------------
\* What a step of the server does that does not answer
NothingSent ==
  /\ DOMAIN inbox' = Ends
  /\ got' \in [Ends -> {0, 1}]
  /\ inbox'["client"] = inbox["client"] /\ got'["client"] = got["client"]

LEMMA ServerRecv ==
  ASSUME OrderInv, NEW k, Recv("server", k) PROVE NothingSent
BY DEF OrderInv, Places, Recv, Ends, NothingSent

LEMMA ServerQuiet ==
  ASSUME OrderInv, UNCHANGED <<inbox, got>> PROVE NothingSent
BY DEF OrderInv, Places, NothingSent

\* The server goes on, and has not decided.
LEMMA ServerGoes ==
  ASSUME OrderInv, NEW p \in Undecided, Goto("server", p), NothingSent,
         UNCHANGED <<op, status, outcome, committed>>,
         dbFailed' \in BOOLEAN,
         pc["server"] \in Undecided \ {"listening"},
         p = "as_recv_asset_file" => op = "OPA"
  PROVE  OrderInv'
<1>1. DOMAIN pc' = Ends /\ pc'["client"] = pc["client"] /\ pc'["server"] = p
  BY DEF Goto, OrderInv, Places, Ends
<1>2. Places'
  BY <1>1 DEF OrderInv, Places, NothingSent, Unanswered, Undecided
<1>3. ~committed /\ status = None /\ status # "OK"
  BY ExchangeAssumption DEF OrderInv, Decision, ExchangeAssumption
<1>4. Decision'
  BY <1>1, <1>3 DEF Decision, Undecided
<1>5. Silence'
  BY <1>1 DEF OrderInv, Silence, NothingSent, Unanswered
<1> QED BY <1>2, <1>4, <1>5 DEF OrderInv

\* The server decides: nobody has been told anything yet.
LEMMA ServerDecides ==
  ASSUME OrderInv, NEW s \in Statuses, Decide(s), NothingSent, UNCHANGED op,
         pc["server"] \in Undecided \ {"listening"},
         committed' \in BOOLEAN, dbFailed' \in BOOLEAN,
         committed' => Commits,
         Commits /\ ~dbFailed' => (committed' <=> s = "OK")
  PROVE  OrderInv'
<1>1. DOMAIN pc' = Ends /\ pc'["client"] = pc["client"] /\ pc'["server"] = "answer"
  BY DEF Decide, Goto, OrderInv, Places, Ends
<1>2. Places'
  BY <1>1 DEF OrderInv, Places, NothingSent, Unanswered, Undecided
<1>3. Decision'
  BY <1>1 DEF Decision, Undecided, Commits, Decide
<1>4. Silence'
  BY <1>1 DEF OrderInv, Silence, NothingSent, Decide, Unanswered
<1> QED BY <1>2, <1>3, <1>4 DEF OrderInv

\* The server is on its way out, having answered or not.
LEMMA ServerEnds ==
  ASSUME OrderInv, UNCHANGED <<op, result>>,
         NEW p \in {"closed", "as_send_asset_file"}, Goto("server", p),
         p = "as_send_asset_file" => op = "SAS",
         pc["server"] # "listening",
         DOMAIN inbox' = Ends, got' \in [Ends -> {0, 1}]
  PROVE  OrderInv'
<1>1. DOMAIN pc' = Ends /\ pc'["client"] = pc["client"] /\ pc'["server"] = p
  BY DEF Goto, OrderInv, Places, Ends
<1>2. Places'
  BY <1>1 DEF OrderInv, Places, Unanswered, Undecided, result
<1>3. Decision' /\ Silence'
  BY <1>1 DEF OrderInv, Decision, Silence, Unanswered, Undecided, Commits, result
<1> QED BY <1>2, <1>3 DEF OrderInv

\* The server refuses.
LEMMA ServerRefuses ==
  ASSUME OrderInv, NEW s \in {"unnamed ERR", "ERR", "NOK"}, Decide(s),
         UNCHANGED <<op, committed, dbFailed>>, NothingSent,
         pc["server"] \in Undecided \ {"listening"}
  PROVE  OrderInv'
<1>1. committed = FALSE /\ dbFailed \in BOOLEAN
  BY DEF OrderInv, Places, Decision
<1> QED BY <1>1, ServerDecides DEF Statuses

LEMMA ServerGivesUp ==
  ASSUME OrderInv, GiveUp("server"), NothingSent PROVE OrderInv'
<1>1. UNCHANGED op
  BY DEF GiveUp, rigid
<1>2. CASE pc["server"] \in Sending \cup {"args", "varargs"} /\ Hangup
  BY <1>1, <1>2, ServerEnds DEF Hangup, NothingSent, Sending
<1>3. ASSUME NEW s \in {"unnamed ERR", "ERR", "NOK"}, Decide(s),
             UNCHANGED <<committed, dbFailed>>,
             pc["server"] \in {"command", "args", "varargs", "as_recv_asset_file"}
      PROVE  OrderInv'
  BY <1>1, <1>3, ServerRefuses DEF Undecided
<1> QED BY <1>2, <1>3 DEF GiveUp

LEMMA ServerTransfers ==
  ASSUME OrderInv, Transfer("server") PROVE OrderInv'
<1>1. CASE SendBytes("server")
  <2>1. pc["server"] = "as_send_asset_file"
    BY <1>1 DEF SendBytes
  <2>2. DOMAIN inbox' = Ends /\ got' \in [Ends -> {0, 1}]
    BY <1>1 DEF SendBytes, Send, OrderInv, Places, Ends
  <2>3. UNCHANGED <<op, pc, result>>
    BY <1>1 DEF SendBytes, rigid
  <2> QED BY <2>1, <2>2, <2>3
    DEF OrderInv, Places, Decision, Silence, Commits, result, Unanswered, Undecided
<1>2. CASE FileTooShort("server")
  BY <1>2, ServerGivesUp, ServerQuiet DEF FileTooShort, network
<1>3. CASE SendLF("server")
  <2>1. pc["server"] = "as_send_asset_file"
    BY <1>3 DEF SendLF
  <2>2. DOMAIN inbox' = Ends /\ got' \in [Ends -> {0, 1}]
    BY <1>3 DEF SendLF, Send, OrderInv, Places, Ends
  <2> QED BY <1>3, <2>1, <2>2, ServerEnds DEF SendLF, rigid
<1>4. CASE ReceiveBytes("server")
  <2>1. NothingSent
    BY <1>4, ServerRecv DEF ReceiveBytes
  <2>2. UNCHANGED <<op, pc, result>>
    BY <1>4 DEF ReceiveBytes, rigid
  <2> QED BY <2>1, <2>2
    DEF OrderInv, Places, Decision, Silence, Commits, result, NothingSent
<1>5. CASE ReceiveLast("server")
  <2>1. NothingSent
    BY <1>5, ServerRecv DEF ReceiveLast
  <2>2. /\ Decide("OK") /\ committed' = TRUE /\ UNCHANGED <<op, dbFailed>>
        /\ pc["server"] = "as_recv_asset_file" /\ op = "OPA"
        /\ dbFailed \in BOOLEAN
    BY <1>5 DEF ReceiveLast, rigid, OrderInv, Places
  <2> QED BY <2>1, <2>2, ServerDecides DEF Commits, Undecided, Statuses
<1>6. CASE ReceiveBad("server")
  BY <1>6, ServerRecv, ServerGivesUp DEF ReceiveBad
<1>7. CASE ReceiveFails("server")
  BY <1>7, ServerRecv, ServerGivesUp DEF ReceiveFails
<1> QED BY <1>1, <1>2, <1>3, <1>4, <1>5, <1>6, <1>7 DEF Transfer

LEMMA DatabaseKeeps ==
  ASSUME OrderInv, UseDatabase PROVE OrderInv'
<1>1. /\ NothingSent /\ UNCHANGED op /\ pc["server"] = "database"
      /\ pc["server"] \in Undecided \ {"listening"}
  BY ServerQuiet DEF UseDatabase, network, rigid, Undecided
<1>2. op \in Ops /\ dbFailed \in BOOLEAN
  BY DEF OrderInv, Places
<1>3. ASSUME NEW s \in Refusals, Decide(s), UNCHANGED <<committed, dbFailed>>
      PROVE  OrderInv'
  <2>1. s \in {"unnamed ERR", "ERR", "NOK"}
    BY <1>3 DEF Refusals
  <2> QED BY <1>1, <1>3, <2>1, ServerRefuses
<1>4. CASE Decide("OK") /\ committed' = (op # "SAS") /\ UNCHANGED dbFailed
  BY <1>1, <1>2, <1>4, ServerDecides DEF Commits, Statuses
<1>5. CASE WriteFails
  <2>1. PICK s \in Refusals \cup {"OK"} : Decide(s)
    BY <1>5 DEF WriteFails
  <2>2. s \in Statuses
    BY DEF Refusals, Statuses
  <2>3. committed' \in BOOLEAN /\ dbFailed' = TRUE /\ Commits
    BY <1>5 DEF WriteFails, Commits
  <2> QED BY <1>1, <2>1, <2>2, <2>3, ServerDecides
<1>6. CASE /\ op = "OPA" /\ Goto("server", "as_recv_asset_file")
           /\ dbFailed' \in BOOLEAN
           /\ UNCHANGED <<status, told, outcome, committed>>
  BY <1>1, <1>6, ServerGoes DEF Undecided
<1> QED BY <1>3, <1>4, <1>5, <1>6 DEF UseDatabase

LEMMA WorkerKeeps ==
  ASSUME OrderInv, Worker PROVE OrderInv'
<1>1. ASSUME NEW p \in Undecided \ {"as_recv_asset_file"}, Goto("server", p),
             UNCHANGED <<op, result>>, NothingSent,
             pc["server"] \in Undecided \ {"listening"}
      PROVE  OrderInv'
  <2>1. UNCHANGED <<op, status, outcome, committed>> /\ dbFailed' \in BOOLEAN
    BY <1>1 DEF OrderInv, Places, result
  <2> QED BY <1>1, <2>1, ServerGoes
<1>2. CASE Dequeue
  BY <1>1, <1>2, ServerQuiet DEF Dequeue, network, rigid, Undecided
<1>3. CASE ReadCommand
  <2>1. NothingSent /\ UNCHANGED op /\ pc["server"] = "command"
    BY <1>3, ServerRecv DEF ReadCommand, ReadField, rigid
  <2>2. CASE Goto("server", "args") /\ UNCHANGED result
    BY <1>1, <2>1, <2>2 DEF Undecided
  <2>3. CASE Decide("unnamed ERR") /\ UNCHANGED <<committed, dbFailed>>
    BY <2>1, <2>3, ServerRefuses DEF Undecided
  <2> QED BY <1>3, <2>2, <2>3 DEF ReadCommand
<1>4. CASE ReadArgs
  <2>1. NothingSent /\ UNCHANGED op /\ pc["server"] = "args"
    BY <1>4, ServerRecv DEF ReadArgs, ReadField, rigid
  <2>2. CASE /\ Goto("server", IF op \in {"OPA", "BID"} THEN "varargs" ELSE "database")
             /\ UNCHANGED result
    BY <1>1, <2>1, <2>2 DEF Undecided
  <2>3. CASE Decide("ERR") /\ UNCHANGED <<committed, dbFailed>>
    BY <2>1, <2>3, ServerRefuses DEF Undecided
  <2> QED BY <1>4, <2>2, <2>3 DEF ReadArgs
<1>5. CASE ReadVarargs
  <2>1. NothingSent /\ UNCHANGED op /\ pc["server"] = "varargs"
    BY <1>5, ServerRecv DEF ReadVarargs, rigid
  <2>2. CASE Goto("server", "database") /\ UNCHANGED result
    BY <1>1, <2>1, <2>2 DEF Undecided
  <2>3. CASE Decide("ERR") /\ UNCHANGED <<committed, dbFailed>>
    BY <2>1, <2>3, ServerRefuses DEF Undecided
  <2> QED BY <1>5, <2>2, <2>3 DEF ReadVarargs
<1>6. CASE SendAnswer
  <2>1. pc["server"] = "answer" /\ UNCHANGED <<op, result>> /\ Send("server", Answer)
    BY <1>6 DEF SendAnswer, rigid
  <2>2. DOMAIN inbox' = Ends /\ got' \in [Ends -> {0, 1}]
    BY <2>1 DEF Send, OrderInv, Places, Ends
  <2>3. Goto("server", IF op = "SAS" /\ status = "OK" THEN "as_send_asset_file"
                       ELSE "closed")
    BY <1>6 DEF SendAnswer
  <2> QED BY <2>1, <2>2, <2>3, ServerEnds
<1>7. CASE Fail("server")
  BY <1>7, ServerQuiet, ServerGivesUp DEF Fail, network
<1> QED BY <1>2, <1>3, <1>4, <1>5, <1>6, <1>7, DatabaseKeeps, ServerTransfers
    DEF Worker

-----------------------------------------------------------------------------
LEMMA InitOrder == Init => OrderInv
<1> SUFFICES ASSUME Init PROVE OrderInv
  OBVIOUS
<1>1. Places
  BY DEF Init, Places, Ends, Unanswered, Undecided
<1>2. Decision /\ Silence
  BY ExchangeAssumption
  DEF Init, Decision, Silence, Ends, Unaware, Undecided, ExchangeAssumption
<1> QED BY <1>1, <1>2 DEF OrderInv

LEMMA NextOrder == OrderInv /\ [Next]_vars => OrderInv'
<1> SUFFICES ASSUME OrderInv, [Next]_vars PROVE OrderInv'
  OBVIOUS
<1>1. CASE Client
  BY <1>1, ClientKeeps
<1>2. CASE Worker
  BY <1>2, WorkerKeeps
<1>3. CASE Network
  BY <1>3, NetworkStepKeeps
<1>4. CASE Kill
  <2>1. /\ Goto("server", "closed") /\ pc["server"] # "listening"
        /\ UNCHANGED <<op, result, inbox, got>>
    BY <1>4 DEF Kill, rigid, network
  <2>2. DOMAIN inbox' = Ends /\ got' \in [Ends -> {0, 1}]
    BY <2>1 DEF OrderInv, Places
  <2> QED BY <2>1, <2>2, ServerEnds
<1>5. CASE UNCHANGED vars
  BY <1>5 DEF vars, rigid, network, result, OrderInv, Places, Decision, Silence,
    Commits
<1> QED BY <1>1, <1>2, <1>3, <1>4, <1>5 DEF Next

-----------------------------------------------------------------------------
(* Types                                                                   *)

Points == Receiving \cup Sending
            \cup {"connect", "listening", "queued", "database", "closed"}

\* What can be on its way
Units ==
  ({"command", "args", "status", "aid", "varargs"} \X (Ops \cup Statuses))
    \cup {Byte(b) : b \in {asset[i] : i \in 1..Len(asset)} \cup {"LF", "garbage"}}

Given ==
  /\ op \in Ops
  /\ asset \in Assets
  /\ announced \in 0..(Len(asset) + 1)

OnTheWay == inbox \in [Ends -> Seq(Units)] /\ got \in [Ends -> {0, 1}]

Stored ==
  /\ sent \in 0..Len(asset)
  /\ file \in Seq(Units) \cup {None}
  /\ file # None => Len(file) \in 0..announced
  /\ \A e \in Ends : pc[e] = "as_recv_asset_file" =>
       file \in Seq(Units) /\ Len(file) \in 0..announced

Known ==
  /\ status \in Statuses \cup {None} /\ told \in Statuses \cup {None}
  /\ outcome \in {None, "success", "refused", "error"}
  /\ committed \in BOOLEAN /\ dbFailed \in BOOLEAN

Flags == silent \in BOOLEAN /\ short \in BOOLEAN /\ disturbed \in BOOLEAN

ShapeInv ==
  Given /\ pc \in [Ends -> Points] /\ OnTheWay /\ Stored /\ Known /\ Flags

LEMMA ShapeIsTypeOK == ShapeInv => TypeOK
<1> SUFFICES ASSUME ShapeInv PROVE TypeOK
  OBVIOUS
<1>1. \A e \in Ends : Len(inbox[e]) \in Nat /\ got[e] \in {0, 1}
  <2> TAKE e \in Ends
  <2>1. inbox[e] \in Seq(Units) /\ got[e] \in {0, 1}
    BY DEF ShapeInv, OnTheWay
  <2> QED BY <2>1, LenProperties
<1>2. pc \in [Ends -> Receiving \cup Sending
                \cup {"connect", "listening", "queued", "database", "closed"}]
  BY DEF ShapeInv, Points
<1> QED BY <1>1, <1>2 DEF ShapeInv, Given, Stored, Known, Flags, TypeOK

\* The asset is what it was, and so is what can be on its way.
LEMMA SameUnits ==
  ASSUME ShapeInv, UNCHANGED rigid
  PROVE  Units' = Units /\ Given' /\ Len(asset) \in Nat \ {0}
BY ExchangeAssumption DEF ShapeInv, Given, Units, rigid, ExchangeAssumption

LEMMA SpecialUnits == LF \in Units /\ Garbage \in Units
BY DEF LF, Garbage, Units

LEMMA FieldUnits ==
  ASSUME NEW f \in {"command", "args", "status", "aid", "varargs"},
         NEW v \in Ops \cup Statuses
  PROVE  Unit(f, v) \in Units /\ Field(f, v) \in Seq(Units)
<1>1. Unit(f, v) \in Units
  BY DEF Unit, Units
<1> QED BY <1>1 DEF Field

-----------------------------------------------------------------------------
(* The calls of the network, as their callers see them                     *)

LEMMA RecvTakes ==
  ASSUME ShapeInv, UNCHANGED rigid, NEW e \in Ends, NEW k \in Nat, Recv(e, k)
  PROVE  /\ OnTheWay' /\ UNCHANGED silent
         /\ k <= Len(inbox[e])
         /\ Len(inbox[e]) \in Nat /\ Len(inbox'[e]) = Len(inbox[e]) - k
         /\ \A i \in 1..Len(inbox'[e]) : inbox'[e][i] = inbox[e][k + i]
         /\ got'[e] = 0
         /\ inbox'[Peer(e)] = inbox[Peer(e)] /\ got'[Peer(e)] = got[Peer(e)]
<1>1. Units' = Units
  BY SameUnits
<1>2. inbox \in [Ends -> Seq(Units)] /\ got \in [Ends -> {0, 1}]
  BY DEF ShapeInv, OnTheWay
<1> DEFINE s == inbox[e]
<1>3. s \in Seq(Units) /\ Len(s) \in Nat /\ k <= Len(s)
  BY <1>2, LenProperties DEF Recv
<1>4. inbox'[e] = SubSeq(s, k + 1, Len(s))
  BY <1>2 DEF Recv
<1>5. \A i \in (k + 1)..Len(s) : s[i] \in Units
  BY <1>3, ElementOfSeq
<1>6. /\ SubSeq(s, k + 1, Len(s)) \in Seq(Units)
      /\ Len(SubSeq(s, k + 1, Len(s))) = Len(s) - k
      /\ \A i \in 1..(Len(s) - k) : SubSeq(s, k + 1, Len(s))[i] = s[k + i]
  <2>1. /\ SubSeq(s, k + 1, Len(s)) \in Seq(Units)
        /\ Len(SubSeq(s, k + 1, Len(s)))
             = IF k + 1 <= Len(s) THEN Len(s) - (k + 1) + 1 ELSE 0
        /\ \A i \in 1..Len(s) - (k + 1) + 1 :
             SubSeq(s, k + 1, Len(s))[i] = s[(k + 1) + i - 1]
    BY <1>3, <1>5, SubSeqProperties
  <2> HIDE DEF s
  <2>2. Len(s) - (k + 1) + 1 = Len(s) - k
    BY <1>3
  <2>3. Len(SubSeq(s, k + 1, Len(s))) = Len(s) - k
    BY <1>3, <2>1
  <2>4. \A i \in 1..(Len(s) - k) : SubSeq(s, k + 1, Len(s))[i] = s[k + i]
    <3> TAKE i \in 1..(Len(s) - k)
    <3>1. SubSeq(s, k + 1, Len(s))[i] = s[(k + 1) + i - 1]
      BY <2>1, <2>2
    <3>2. (k + 1) + i - 1 = k + i
      BY <1>3
    <3> QED BY <3>1, <3>2
  <2> QED BY <2>1, <2>3, <2>4
<1>7. inbox' \in [Ends -> Seq(Units)] /\ got' \in [Ends -> {0, 1}]
  BY <1>2, <1>4, <1>6 DEF Recv
<1>8. /\ got'[e] = 0
      /\ inbox'[Peer(e)] = inbox[Peer(e)] /\ got'[Peer(e)] = got[Peer(e)]
  BY <1>2 DEF Recv, Peer, Ends
<1>9. UNCHANGED silent
  BY DEF Recv
<1> QED BY <1>1, <1>3, <1>4, <1>6, <1>7, <1>8, <1>9 DEF OnTheWay

\* Where the elements of two sequences are in their concatenation
LEMMA Appended ==
  ASSUME NEW S, NEW s \in Seq(S), NEW t \in Seq(S)
  PROVE  /\ s \o t \in Seq(S)
         /\ Len(s \o t) = Len(s) + Len(t)
         /\ \A i \in 1..Len(s) : (s \o t)[i] = s[i]
         /\ \A i \in 1..Len(t) : (s \o t)[Len(s) + i] = t[i]
<1>1. Len(s) \in Nat /\ Len(t) \in Nat
  BY LenProperties
<1>2. /\ s \o t \in Seq(S)
      /\ Len(s \o t) = Len(s) + Len(t)
      /\ \A i \in 1..Len(s) + Len(t) :
           (s \o t)[i] = IF i <= Len(s) THEN s[i] ELSE t[i - Len(s)]
  BY ConcatProperties
<1>3. \A i \in 1..Len(s) : (s \o t)[i] = s[i]
  BY <1>1, <1>2
<1>4. \A i \in 1..Len(t) : (s \o t)[Len(s) + i] = t[i]
  <2> TAKE i \in 1..Len(t)
  <2>1. /\ Len(s) + i \in 1..Len(s) + Len(t) /\ ~(Len(s) + i <= Len(s))
        /\ Len(s) + i - Len(s) = i
    BY <1>1
  <2> QED BY <1>2, <2>1
<1> QED BY <1>2, <1>3, <1>4

LEMMA SendAppends ==
  ASSUME ShapeInv, UNCHANGED rigid, NEW e \in Ends, NEW s \in Seq(Units), Send(e, s)
  PROVE  /\ OnTheWay' /\ UNCHANGED <<got, silent>>
         /\ inbox'[e] = inbox[e]
         /\ silent => inbox'[Peer(e)] = inbox[Peer(e)]
         /\ ~silent =>
              /\ Len(inbox'[Peer(e)]) = Len(inbox[Peer(e)]) + Len(s)
              /\ \A i \in 1..Len(inbox[Peer(e)]) :
                   inbox'[Peer(e)][i] = inbox[Peer(e)][i]
              /\ \A i \in 1..Len(s) :
                   inbox'[Peer(e)][Len(inbox[Peer(e)]) + i] = s[i]
<1>1. Units' = Units
  BY SameUnits
<1>2. inbox \in [Ends -> Seq(Units)] /\ got \in [Ends -> {0, 1}]
  BY DEF ShapeInv, OnTheWay
<1>3. UNCHANGED <<got, silent>> /\ Peer(e) \in Ends /\ Peer(e) # e
  BY DEF Send, Peer, Ends
<1>4. CASE silent
  BY <1>1, <1>2, <1>3, <1>4 DEF Send, OnTheWay
<1>5. CASE ~silent
  <2> DEFINE t == inbox[Peer(e)]
  <2>1. inbox' = [inbox EXCEPT ![Peer(e)] = t \o s]
    BY <1>5 DEF Send
  <2>2. t \in Seq(Units) /\ Len(t) \in Nat /\ Len(s) \in Nat
    BY <1>2, <1>3, LenProperties
  <2>3. /\ t \o s \in Seq(Units)
        /\ Len(t \o s) = Len(t) + Len(s)
        /\ \A i \in 1..Len(t) : (t \o s)[i] = t[i]
        /\ \A i \in 1..Len(s) : (t \o s)[Len(t) + i] = s[i]
    BY <2>2, Appended
  <2>4. inbox'[Peer(e)] = t \o s /\ inbox'[e] = inbox[e]
    BY <1>2, <1>3, <2>1
  <2>5. inbox' \in [Ends -> Seq(Units)]
    BY <1>2, <1>3, <2>1, <2>3
  <2> HIDE DEF t
  <2>6. OnTheWay'
    BY <1>1, <1>2, <1>3, <2>5 DEF OnTheWay
  <2> USE DEF t
  <2> QED BY <1>3, <1>5, <2>3, <2>4, <2>6
<1> QED BY <1>4, <1>5 DEF ShapeInv, Flags

\* A piece that recv gives is what is first on its way.
LEMMA PieceTaken ==
  ASSUME ShapeInv, NEW e \in Ends, NEW piece \in Pieces(e)
  PROVE  /\ piece \in Seq(Units)
         /\ Len(piece) \in Nat \ {0} /\ Len(piece) <= Len(inbox[e])
         /\ \A i \in 1..Len(piece) : piece[i] = inbox[e][i]
<1> DEFINE s == inbox[e]
<1>1. s \in Seq(Units) /\ Len(s) \in Nat
  <2>1. s \in Seq(Units)
    BY DEF ShapeInv, OnTheWay
  <2> QED BY <2>1, LenProperties
<1>2. PICK k \in 1..Len(s) : piece = SubSeq(s, 1, k)
  BY DEF Pieces
<1> HIDE DEF s
<1>3. \A i \in 1..k : s[i] \in Units
  BY <1>1, ElementOfSeq
<1>4. /\ SubSeq(s, 1, k) \in Seq(Units)
      /\ Len(SubSeq(s, 1, k)) = IF 1 <= k THEN k - 1 + 1 ELSE 0
      /\ \A i \in 1..k - 1 + 1 : SubSeq(s, 1, k)[i] = s[1 + i - 1]
  BY <1>1, <1>3, SubSeqProperties
<1>5. Len(piece) = k /\ k \in Nat \ {0} /\ k <= Len(s)
  BY <1>1, <1>2, <1>4
<1>6. \A i \in 1..k : piece[i] = s[i]
  BY <1>1, <1>2, <1>4
<1> QED BY <1>2, <1>4, <1>5, <1>6 DEF s

LEMMA WriteAppends ==
  ASSUME ShapeInv, UNCHANGED rigid, file \in Seq(Units),
         NEW piece \in Seq(Units), Write(piece)
  PROVE  /\ file' \in Seq(Units)
         /\ Len(file') = Len(file) + Len(piece)
         /\ short' \in BOOLEAN
         /\ ~short' =>
              /\ ~short
              /\ \A i \in 1..Len(file) : file'[i] = file[i]
              /\ \A i \in 1..Len(piece) : file'[Len(file) + i] = piece[i]
<1>1. CASE file' = file \o piece /\ UNCHANGED short
  BY <1>1, Appended DEF ShapeInv, Flags
<1>2. ASSUME short' = TRUE, NEW w \in 1..(Len(piece) - 1),
             file' = file \o [i \in 1..Len(piece) |->
                                IF i <= w THEN piece[i] ELSE Garbage]
      PROVE  /\ file' \in Seq(Units)
             /\ Len(file') = Len(file) + Len(piece)
  <2> DEFINE t == [i \in 1..Len(piece) |-> IF i <= w THEN piece[i] ELSE Garbage]
  <2>1. Len(piece) \in Nat /\ \A i \in 1..Len(piece) : piece[i] \in Units
    BY LenProperties, ElementOfSeq
  <2>2. \A i \in 1..Len(piece) : t[i] \in Units
    BY <2>1, SpecialUnits
  <2>3. t \in Seq(Units) /\ Len(t) = Len(piece)
    BY <2>1, <2>2
  <2>4. file' = file \o t
    BY <1>2
  <2> HIDE DEF t
  <2>5. file \o t \in Seq(Units) /\ Len(file \o t) = Len(file) + Len(t)
    BY <2>3, Appended
  <2> QED BY <2>3, <2>4, <2>5
<1> QED BY <1>1, <1>2 DEF Write

-----------------------------------------------------------------------------
(* Steps that keep the types                                               *)

\* A step that leaves the files alone
LEMMA GoingKeepsShape ==
  ASSUME ShapeInv, UNCHANGED <<rigid, sent, file>>,
         NEW e \in Ends, NEW p \in Points \ {"as_recv_asset_file"}, Goto(e, p),
         OnTheWay', Known', Flags'
  PROVE  ShapeInv'
<1>1. Units' = Units /\ Given'
  BY SameUnits
<1>2. /\ pc' \in [Ends -> Points]
      /\ \A d \in Ends : pc'[d] = "as_recv_asset_file" => pc[d] = "as_recv_asset_file"
  BY DEF ShapeInv, Goto
<1>3. Stored'
  BY <1>1, <1>2 DEF ShapeInv, Stored, rigid
<1> QED BY <1>1, <1>2, <1>3 DEF ShapeInv

LEMMA StayingKeepsShape ==
  ASSUME ShapeInv, UNCHANGED <<rigid, pc, sent, file, result>>, OnTheWay', Flags'
  PROVE  ShapeInv'
<1>1. Units' = Units /\ Given'
  BY SameUnits
<1>2. Stored' /\ Known'
  BY <1>1 DEF ShapeInv, Stored, Known, rigid, result
<1> QED BY <1>1, <1>2 DEF ShapeInv

LEMMA QuietKeepsShape ==
  ASSUME ShapeInv, UNCHANGED rigid, UNCHANGED <<inbox, got>> PROVE OnTheWay'
BY SameUnits DEF ShapeInv, OnTheWay

LEMMA RecvKeepsShape ==
  ASSUME ShapeInv, UNCHANGED rigid, NEW e \in Ends, NEW k \in Nat, Recv(e, k)
  PROVE  OnTheWay' /\ silent' \in BOOLEAN
BY RecvTakes DEF ShapeInv, Flags

LEMMA ReadKeepsShape ==
  ASSUME ShapeInv, UNCHANGED rigid, NEW e \in Ends, NEW f, ReadField(e, f)
  PROVE  OnTheWay' /\ silent' \in BOOLEAN
<1>1. 2 - got[e] \in Nat
  BY DEF ShapeInv, OnTheWay
<1> QED BY <1>1, RecvKeepsShape DEF ReadField

LEMMA SendKeepsShape ==
  ASSUME ShapeInv, UNCHANGED rigid, NEW e \in Ends, NEW s \in Seq(Units), Send(e, s)
  PROVE  OnTheWay' /\ silent' \in BOOLEAN
BY SendAppends DEF ShapeInv, Flags

\* Only one of the two receives an asset, so that giving up takes nobody's file.
LEMMA GivingUpKeepsShape ==
  ASSUME ShapeInv, OrderInv, NEW e \in Ends, GiveUp(e), OnTheWay',
         silent' \in BOOLEAN, disturbed' \in BOOLEAN
  PROVE  ShapeInv'
<1>1. UNCHANGED <<rigid, sent, short>> /\ file' \in {None, file}
  BY DEF GiveUp
<1>2. Units' = Units /\ Given'
  BY <1>1, SameUnits
<1>3. PICK p \in {"closed", "answer"} : Goto(e, p)
  BY DEF GiveUp, Tell, Hangup, Decide
<1>4. Known'
  BY DEF GiveUp, Tell, Hangup, Decide, ShapeInv, Known, Statuses, result
<1>5. /\ pc' \in [Ends -> Points] /\ pc'[e] = p
      /\ \A d \in Ends : d # e => pc'[d] = pc[d]
  BY <1>3 DEF ShapeInv, Goto, Points, Sending
<1>6. \A d \in Ends : pc'[d] = "as_recv_asset_file" =>
        pc[d] = "as_recv_asset_file" /\ UNCHANGED file
  <2> SUFFICES ASSUME NEW d \in Ends, pc'[d] = "as_recv_asset_file"
               PROVE  pc[d] = "as_recv_asset_file" /\ UNCHANGED file
    OBVIOUS
  <2>1. d # e /\ pc[d] = "as_recv_asset_file"
    BY <1>5
  <2>2. ~(e = "server" /\ pc[e] = "as_recv_asset_file")
    BY <2>1 DEF OrderInv, Places, Ends
  <2> QED BY <2>1, <2>2 DEF GiveUp
<1>7. Stored'
  BY <1>1, <1>2, <1>6 DEF ShapeInv, Stored, rigid
<1>8. Flags'
  BY <1>1 DEF ShapeInv, Flags
<1> QED BY <1>2, <1>4, <1>5, <1>7, <1>8 DEF ShapeInv

\* A file is made for the asset that is to come.
LEMMA CreatingKeepsShape ==
  ASSUME ShapeInv, UNCHANGED <<rigid, sent, short, disturbed>>, OnTheWay',
         silent' \in BOOLEAN, NEW e \in Ends, Goto(e, "as_recv_asset_file"),
         file' = <<>>, Known'
  PROVE  ShapeInv'
<1>1. Units' = Units /\ Given'
  BY SameUnits
<1>2. file' \in Seq(Units) /\ Len(file') = 0 /\ 0 \in 0..announced
  BY DEF ShapeInv, Given
<1>3. Stored'
  BY <1>1, <1>2 DEF ShapeInv, Stored, rigid
<1>4. pc' \in [Ends -> Points]
  BY DEF ShapeInv, Goto, Points, Receiving
<1>5. Flags'
  BY DEF ShapeInv, Flags
<1> QED BY <1>1, <1>3, <1>4, <1>5 DEF ShapeInv

LEMMA ReceivingKeepsShape ==
  ASSUME ShapeInv, NEW e \in Ends, ReceiveBytes(e) PROVE ShapeInv'
<1>1. /\ UNCHANGED <<rigid, pc, sent, result, disturbed>>
      /\ pc[e] = "as_recv_asset_file"
  BY DEF ReceiveBytes
<1>2. PICK piece \in Pieces(e) :
        /\ Len(file) + Len(piece) <= announced
        /\ Recv(e, Len(piece))
        /\ Write(piece)
  BY DEF ReceiveBytes
<1>3. piece \in Seq(Units) /\ Len(piece) \in Nat
  BY PieceTaken
<1>4. OnTheWay' /\ silent' \in BOOLEAN
  BY <1>1, <1>2, <1>3, RecvKeepsShape
<1>5. file \in Seq(Units) /\ Len(file) \in Nat /\ announced \in Nat
  BY <1>1, ExchangeAssumption
  DEF ShapeInv, Stored, Given, ExchangeAssumption
<1>6. /\ file' \in Seq(Units) /\ Len(file') \in 0..announced
      /\ short' \in BOOLEAN
  BY <1>1, <1>2, <1>3, <1>5, WriteAppends
<1>7. Units' = Units /\ Given'
  BY <1>1, SameUnits
<1>8. Stored'
  BY <1>1, <1>6, <1>7 DEF ShapeInv, Stored, rigid
<1>9. Known' /\ Flags'
  BY <1>1, <1>4, <1>6 DEF ShapeInv, Known, Flags, result
<1> QED BY <1>1, <1>4, <1>7, <1>8, <1>9 DEF ShapeInv

\* What the last piece adds to the file is all of it but the LF.
LEMMA LastPiece ==
  ASSUME ShapeInv, NEW e \in Ends, pc[e] = "as_recv_asset_file",
         NEW piece \in Pieces(e), Complete(piece),
         UNCHANGED rigid, Write(SubSeq(piece, 1, Len(piece) - 1))
  PROVE  /\ file' \in Seq(Units) /\ Len(file') = announced
         /\ short' \in BOOLEAN
         /\ ~short' =>
              /\ ~short
              /\ \A i \in 1..Len(file) : file'[i] = file[i]
              /\ \A i \in 1..(Len(piece) - 1) : file'[Len(file) + i] = inbox[e][i]
<1>1. /\ piece \in Seq(Units) /\ Len(piece) \in Nat \ {0}
      /\ \A i \in 1..Len(piece) : piece[i] = inbox[e][i]
  BY PieceTaken
<1> DEFINE n == Len(piece) - 1
           s == SubSeq(piece, 1, n)
<1>2. n \in Nat /\ \A i \in 1..n : piece[i] \in Units
  BY <1>1, ElementOfSeq
<1>3. s \in Seq(Units) /\ Len(s) = n /\ \A i \in 1..n : s[i] = piece[i]
  <2> HIDE DEF n
  <2>1. /\ s \in Seq(Units)
        /\ Len(s) = IF 1 <= n THEN n - 1 + 1 ELSE 0
        /\ \A i \in 1..n - 1 + 1 : s[i] = piece[1 + i - 1]
    BY <1>1, <1>2, SubSeqProperties
  <2> QED BY <1>2, <2>1
<1>4. file \in Seq(Units) /\ Len(file) \in Nat /\ announced \in Nat
  BY ExchangeAssumption DEF ShapeInv, Stored, Given, ExchangeAssumption
<1>5. Write(s)
  OBVIOUS
<1> HIDE DEF s
<1>6. /\ file' \in Seq(Units) /\ Len(file') = Len(file) + Len(s)
      /\ short' \in BOOLEAN
      /\ ~short' =>
           /\ ~short
           /\ \A i \in 1..Len(file) : file'[i] = file[i]
           /\ \A i \in 1..Len(s) : file'[Len(file) + i] = s[i]
  <2>1. s \in Seq(Units)
    BY <1>3
  <2> QED BY <1>4, <1>5, <2>1, WriteAppends
<1>7. Len(file) + n = announced
  BY <1>1, <1>4 DEF Complete
<1>8. \A i \in 1..n : s[i] = inbox[e][i]
  BY <1>1, <1>2, <1>3
<1> QED BY <1>3, <1>6, <1>7, <1>8

LEMMA ReceivingLastKeepsShape ==
  ASSUME ShapeInv, OrderInv, NEW e \in Ends, ReceiveLast(e) PROVE ShapeInv'
<1>1. UNCHANGED <<rigid, sent, disturbed>> /\ pc[e] = "as_recv_asset_file"
  BY DEF ReceiveLast
<1>2. PICK piece \in Pieces(e) :
        /\ Complete(piece)
        /\ Recv(e, Len(piece))
        /\ Write(SubSeq(piece, 1, Len(piece) - 1))
  BY DEF ReceiveLast
<1>3. Len(piece) \in Nat
  BY PieceTaken
<1>4. OnTheWay' /\ silent' \in BOOLEAN
  BY <1>1, <1>2, <1>3, RecvKeepsShape
<1>5. file' \in Seq(Units) /\ Len(file') = announced /\ short' \in BOOLEAN
  BY <1>1, <1>2, LastPiece
<1>6. Units' = Units /\ Given' /\ announced \in 0..announced
  BY <1>1, SameUnits, ExchangeAssumption
  DEF ShapeInv, Given, ExchangeAssumption
<1>7. PICK p \in {"closed", "answer"} : Goto(e, p)
  BY DEF ReceiveLast, Tell, Decide, Ends
<1>8. pc' \in [Ends -> Points]
  BY <1>7 DEF ShapeInv, Goto, Points, Sending
<1>9. Stored'
  BY <1>1, <1>5, <1>6 DEF ShapeInv, Stored, rigid
<1>10. Known'
  BY DEF ReceiveLast, Tell, Decide, ShapeInv, Known, Statuses
<1>11. Flags'
  BY <1>1, <1>4, <1>5 DEF ShapeInv, Flags
<1> QED BY <1>4, <1>6, <1>8, <1>9, <1>10, <1>11 DEF ShapeInv

LEMMA SendingKeepsShape ==
  ASSUME ShapeInv, NEW e \in Ends, SendBytes(e)
  PROVE  /\ ShapeInv'
         /\ sent' \in (sent + 1)..Len(asset)
         /\ SubSeq(Bytes(asset), sent + 1, sent') \in Seq(Units)
         /\ Len(SubSeq(Bytes(asset), sent + 1, sent')) = sent' - sent
         /\ \A i \in 1..(sent' - sent) :
              SubSeq(Bytes(asset), sent + 1, sent')[i] = Byte(asset[sent + i])
         /\ Send(e, SubSeq(Bytes(asset), sent + 1, sent'))
<1>1. /\ UNCHANGED <<rigid, pc, file, short, result, disturbed>>
      /\ pc[e] = "as_send_asset_file"
  BY DEF SendBytes
<1>2. Len(asset) \in Nat /\ sent \in 0..Len(asset)
  BY <1>1, SameUnits DEF ShapeInv, Stored
<1>3. Block \in Nat \ {0}
  BY ExchangeAssumption DEF ExchangeAssumption
<1>4. BlockEnd \in Int /\ BlockEnd <= Len(asset)
  <2>1. sent \div Block \in Int
    BY <1>2, <1>3
  <2>2. \A q \in Int : (q + 1) * Block \in Int
    BY <1>3
  <2> QED BY <1>2, <2>1, <2>2 DEF BlockEnd
<1>5. PICK k \in 1..(BlockEnd - sent) :
        /\ Send(e, SubSeq(Bytes(asset), sent + 1, sent + k))
        /\ sent' = sent + k
  BY DEF SendBytes
<1>6. sent' \in (sent + 1)..Len(asset)
  BY <1>2, <1>4, <1>5
<1> DEFINE b == Bytes(asset)
           m == sent + 1
           n == sent'
           s == SubSeq(b, m, n)
<1>7. b \in Seq(Units) /\ Len(b) = Len(asset)
      /\ \A i \in 1..Len(asset) : b[i] = Byte(asset[i])
  <2>1. b = [i \in 1..Len(asset) |-> Byte(asset[i])]
    BY DEF Bytes
  <2>2. \A i \in 1..Len(asset) : Byte(asset[i]) \in Units
    BY DEF Units
  <2> QED BY <1>2, <2>1, <2>2
<1>8. m \in 1..Len(b) + 1 /\ n \in m..Len(b)
  BY <1>2, <1>6, <1>7
<1>9. s \in Seq(Units) /\ Len(s) = n - m + 1
      /\ \A i \in 1..n - m + 1 : s[i] = b[m + i - 1]
  <2> HIDE DEF b, m, n
  <2>1. \A i \in m..n : b[i] \in Units
    BY <1>2, <1>7, <1>8, ElementOfSeq
  <2>2. m \in Int /\ n \in Int /\ m <= n
    BY <1>2, <1>7, <1>8
  <2> QED BY <1>7, <2>1, <2>2, SubSeqProperties
<1>10. n - m + 1 = sent' - sent
  BY <1>2, <1>6
<1>11. \A i \in 1..(sent' - sent) : s[i] = Byte(asset[sent + i])
  <2>1. /\ sent \in Nat /\ sent' \in Nat /\ Len(asset) \in Nat
        /\ sent' <= Len(asset)
    BY <1>2, <1>6
  <2>2. \A x \in Nat, y \in Nat, z \in Nat : z <= y =>
          \A i \in 1..(z - x) : (x + 1) + i - 1 = x + i /\ x + i \in 1..y
    OBVIOUS
  <2>3. \A i \in 1..(sent' - sent) : m + i - 1 = sent + i /\ sent + i \in 1..Len(asset)
    BY <2>1, <2>2
  <2>4. \A i \in 1..(sent' - sent) : s[i] = b[m + i - 1]
    BY <1>9, <1>10
  <2> HIDE DEF s, b, m
  <2> QED BY <1>7, <2>3, <2>4
<1>12. Send(e, s)
  BY <1>5
<1>13. ShapeInv'
  <2>1. OnTheWay' /\ silent' \in BOOLEAN
    BY <1>1, <1>9, <1>12, SendKeepsShape
  <2>2. Units' = Units /\ Given'
    BY <1>1, SameUnits
  <2>3. Stored'
    BY <1>1, <1>2, <1>6, <2>2 DEF ShapeInv, Stored, rigid
  <2>4. Known' /\ Flags'
    BY <1>1, <2>1 DEF ShapeInv, Known, Flags, result
  <2> QED BY <1>1, <2>1, <2>2, <2>3, <2>4 DEF ShapeInv
<1> QED BY <1>6, <1>9, <1>10, <1>11, <1>12, <1>13

LEMMA TransferKeepsShape ==
  ASSUME ShapeInv, OrderInv, NEW e \in Ends, Transfer(e) PROVE ShapeInv'
<1>1. CASE SendBytes(e)
  BY <1>1, SendingKeepsShape
<1>2. CASE FileTooShort(e)
  <2>1. GiveUp(e) /\ UNCHANGED <<network, disturbed>>
    BY <1>2 DEF FileTooShort
  <2>2. UNCHANGED rigid
    BY <2>1 DEF GiveUp
  <2>3. OnTheWay'
    BY <2>1, <2>2, QuietKeepsShape DEF network
  <2> QED BY <2>1, <2>3, GivingUpKeepsShape DEF ShapeInv, Flags, network
<1>3. CASE SendLF(e)
  <2>1. /\ Send(e, <<LF>>) /\ UNCHANGED <<rigid, sent, file, short, result, disturbed>>
        /\ Goto(e, IF e = "client" THEN "command" ELSE "closed")
    BY <1>3 DEF SendLF, transfer
  <2>2. <<LF>> \in Seq(Units)
    BY SpecialUnits
  <2>3. OnTheWay' /\ silent' \in BOOLEAN
    BY <2>1, <2>2, SendKeepsShape
  <2>4. Known' /\ Flags'
    BY <2>1, <2>3 DEF ShapeInv, Known, Flags, result
  <2>5. PICK p \in {"command", "closed"} : Goto(e, p)
    BY <2>1
  <2>6. p \in Points \ {"as_recv_asset_file"}
    BY DEF Points, Receiving, Fixed
  <2> QED BY <2>1, <2>3, <2>4, <2>5, <2>6, GoingKeepsShape
<1>4. CASE ReceiveBytes(e)
  BY <1>4, ReceivingKeepsShape
<1>5. CASE ReceiveLast(e)
  BY <1>5, ReceivingLastKeepsShape
<1>6. ASSUME NEW piece \in Pieces(e), Recv(e, Len(piece)), GiveUp(e),
             disturbed' \in BOOLEAN
      PROVE  ShapeInv'
  <2>1. UNCHANGED rigid /\ Len(piece) \in Nat
    BY <1>6, PieceTaken DEF GiveUp
  <2>2. OnTheWay' /\ silent' \in BOOLEAN
    BY <1>6, <2>1, RecvKeepsShape
  <2> QED BY <1>6, <2>2, GivingUpKeepsShape
<1>7. CASE ReceiveBad(e)
  BY <1>6, <1>7 DEF ReceiveBad, ShapeInv, Flags
<1>8. CASE ReceiveFails(e)
  BY <1>6, <1>8 DEF ReceiveFails
<1> QED BY <1>1, <1>2, <1>3, <1>4, <1>5, <1>7, <1>8 DEF Transfer

LEMMA FailKeepsShape ==
  ASSUME ShapeInv, OrderInv, NEW e \in Ends, Fail(e) PROVE ShapeInv'
<1>1. GiveUp(e) /\ UNCHANGED network /\ disturbed' \in BOOLEAN
  BY DEF Fail
<1>2. UNCHANGED rigid
  BY <1>1 DEF GiveUp
<1>3. OnTheWay' /\ silent' \in BOOLEAN
  BY <1>1, <1>2, QuietKeepsShape DEF network, ShapeInv, Flags
<1> QED BY <1>1, <1>3, GivingUpKeepsShape

LEMMA MessagesTyped ==
  ASSUME ShapeInv
  PROVE  /\ Request \in Seq(Units)
         /\ status \in Statuses => Answer \in Seq(Units)
<1>1. op \in Ops
  BY DEF ShapeInv, Given
<1>2. /\ Field("command", op) \in Seq(Units) /\ Field("args", op) \in Seq(Units)
      /\ Field("aid", op) \in Seq(Units) /\ Unit("varargs", op) \in Units
  BY <1>1, FieldUnits
<1>3. /\ <<LF>> \in Seq(Units) /\ <<>> \in Seq(Units)
      /\ <<Unit("varargs", op)>> \in Seq(Units)
      /\ <<Unit("varargs", op), LF>> \in Seq(Units)
  BY <1>2, SpecialUnits
<1>4. \A s, t \in Seq(Units) : s \o t \in Seq(Units)
  BY ConcatProperties
<1>5. Request \in Seq(Units)
  <2> DEFINE more == CASE op = "OPA" -> <<Unit("varargs", op)>>
                       [] op = "BID" -> <<Unit("varargs", op), LF>>
                       [] op \in {"CLS", "SAS"} -> <<>>
  <2>1. more \in Seq(Units)
    <3>1. CASE op = "OPA"
      BY <1>3, <3>1
    <3>2. CASE op = "BID"
      BY <1>3, <3>2
    <3>3. CASE op \in {"CLS", "SAS"}
      BY <1>3, <3>3
    <3> QED BY <1>1, <3>1, <3>2, <3>3 DEF Ops
  <2>2. Request = Field("command", op) \o Field("args", op) \o more
    BY DEF Request
  <2> HIDE DEF more
  <2> QED BY <1>2, <1>4, <2>1, <2>2
<1>6. ASSUME status \in Statuses PROVE Answer \in Seq(Units)
  <2> DEFINE rest ==
        CASE op = "BID" \/ (op = "CLS" /\ status = "OK") -> <<>>
          [] op = "OPA" /\ status = "OK" -> Field("aid", op) \o <<LF>>
          [] op = "SAS" /\ status = "OK" -> <<Unit("varargs", op)>>
          [] OTHER -> <<LF>>
  <2>1. rest \in Seq(Units)
    <3>1. CASE op = "BID" \/ (op = "CLS" /\ status = "OK")
      <4>1. rest = <<>>
        BY <3>1
      <4> QED BY <1>3, <4>1
    <3>2. CASE op = "OPA" /\ status = "OK"
      <4>1. rest = Field("aid", op) \o <<LF>>
        BY <3>2
      <4> HIDE DEF rest
      <4> QED BY <1>2, <1>3, <1>4, <4>1
    <3>3. CASE op = "SAS" /\ status = "OK"
      <4>1. rest = <<Unit("varargs", op)>>
        BY <3>3
      <4> QED BY <1>3, <4>1
    <3>4. CASE /\ ~(op = "BID" \/ (op = "CLS" /\ status = "OK"))
               /\ ~(op = "OPA" /\ status = "OK") /\ ~(op = "SAS" /\ status = "OK")
      <4>1. rest = <<LF>>
        BY <3>4
      <4> QED BY <1>3, <4>1
    <3> QED BY <3>1, <3>2, <3>3, <3>4
  <2>2. Answer = IF status = "unnamed ERR" THEN Field("command", status)
                 ELSE Field("command", op) \o Field("status", status) \o rest
    BY DEF Answer
  <2>3. Field("command", status) \in Seq(Units) /\ Field("status", status) \in Seq(Units)
    BY <1>6, FieldUnits
  <2> HIDE DEF rest
  <2> QED BY <1>2, <1>4, <2>1, <2>2, <2>3
<1> QED BY <1>5, <1>6

LEMMA NetworkKeepsShape == ASSUME ShapeInv, Network PROVE ShapeInv'
<1>1. CASE FallSilent
  <2>1. UNCHANGED <<rigid, pc, sent, file, result, inbox, got, short>>
        /\ silent' = TRUE /\ disturbed' = TRUE
    BY <1>1 DEF FallSilent, transfer
  <2>2. OnTheWay' /\ Flags'
    BY <2>1, QuietKeepsShape DEF ShapeInv, Flags
  <2> QED BY <2>1, <2>2, StayingKeepsShape
<1>2. ASSUME NEW e \in Ends, Discard(e) \/ SplitRead(e) PROVE ShapeInv'
  <2>1. UNCHANGED <<rigid, pc, sent, file, result, silent, short>>
        /\ disturbed' = TRUE
    BY <1>2 DEF Discard, SplitRead, transfer
  <2>2. Units' = Units
    BY <2>1, SameUnits
  <2>3. OnTheWay'
    <3>1. CASE Discard(e)
      <4>1. inbox' = [inbox EXCEPT ![e] = <<>>] /\ UNCHANGED got
        BY <3>1 DEF Discard
      <4> QED BY <2>2, <4>1 DEF ShapeInv, OnTheWay
    <3>2. CASE SplitRead(e)
      <4>1. inbox[e] \in Seq(Units) /\ inbox[e] # <<>>
        BY <3>2 DEF SplitRead, ShapeInv, OnTheWay
      <4>2. Tail(inbox[e]) \in Seq(Units)
        BY <4>1, HeadTailProperties
      <4>3. /\ inbox' = [inbox EXCEPT ![e] = Tail(inbox[e])]
            /\ got' = [got EXCEPT ![e] = 1]
        BY <3>2 DEF SplitRead
      <4> QED BY <2>2, <4>2, <4>3 DEF ShapeInv, OnTheWay
    <3> QED BY <1>2, <3>1, <3>2
  <2>4. Flags'
    BY <2>1 DEF ShapeInv, Flags
  <2> QED BY <2>1, <2>3, <2>4, StayingKeepsShape
<1> QED BY <1>1, <1>2 DEF Network

LEMMA ClientKeepsShape ==
  ASSUME ShapeInv, OrderInv, Client PROVE ShapeInv'
\* What a client that tells its user something, or goes on, keeps
<1>1. ASSUME UNCHANGED <<rigid, sent, file, short, disturbed>>, OnTheWay',
             silent' \in BOOLEAN,
             told' \in Statuses \cup {None},
             UNCHANGED <<status, committed, dbFailed>>,
             \/ \E o \in {"success", "refused", "error"} : Tell(o)
             \/ /\ UNCHANGED outcome
                /\ \E p \in Points \ {"as_recv_asset_file"} : Goto("client", p)
      PROVE  ShapeInv'
  <2>1. Known' /\ Flags'
    BY <1>1 DEF ShapeInv, Known, Flags, Tell
  <2>2. "closed" \in Points \ {"as_recv_asset_file"} /\ "client" \in Ends
    BY DEF Points, Ends
  <2>3. PICK p \in Points \ {"as_recv_asset_file"} : Goto("client", p)
    BY <1>1, <2>2 DEF Tell
  <2> QED BY <1>1, <2>1, <2>2, <2>3, GoingKeepsShape
<1>2. told \in Statuses \cup {None} /\ "client" \in Ends
  BY DEF ShapeInv, Known, Ends
<1>3. {"request", "command", "status", "lf", "aid", "varargs", "as_send_asset_file"}
        \subseteq Points \ {"as_recv_asset_file"}
  BY DEF Points, Receiving, Fixed, Sending
<1>4. CASE Connect
  <2>1. UNCHANGED <<rigid, inbox, got, silent, sent, file, short, result, disturbed>>
    BY <1>4 DEF Connect, network, transfer
  <2>2. OnTheWay' /\ Flags' /\ Known' /\ Units' = Units /\ Given'
    BY <2>1, QuietKeepsShape, SameUnits DEF ShapeInv, Flags, Known, result
  <2>3. pc' \in [Ends -> Points] /\ \A e \in Ends : pc'[e] # "as_recv_asset_file"
    BY <1>4 DEF Connect, Ends, Points, Sending
  <2>4. Stored'
    BY <2>1, <2>2, <2>3 DEF ShapeInv, Stored, rigid
  <2> QED BY <2>2, <2>3, <2>4 DEF ShapeInv
<1>5. CASE ConnectFails
  <2>1. /\ UNCHANGED <<rigid, inbox, got, silent, sent, file, short, told>>
        /\ Tell("error") /\ disturbed' = TRUE
    BY <1>5 DEF ConnectFails, network, transfer
  <2>2. OnTheWay' /\ Flags' /\ Known'
    BY <2>1, QuietKeepsShape DEF ShapeInv, Flags, Known, Tell
  <2>3. "closed" \in Points \ {"as_recv_asset_file"}
    BY DEF Points
  <2> QED BY <1>2, <2>1, <2>2, <2>3, GoingKeepsShape DEF Tell
<1>6. CASE SendRequest
  <2>1. /\ UNCHANGED <<rigid, sent, file, short, result, disturbed>>
        /\ Send("client", Request)
        /\ \E p \in {"as_send_asset_file", "command"} : Goto("client", p)
    BY <1>6 DEF SendRequest, transfer
  <2>2. OnTheWay' /\ silent' \in BOOLEAN
    BY <1>2, <2>1, MessagesTyped, SendKeepsShape
  <2> QED BY <1>1, <1>2, <1>3, <2>1, <2>2 DEF result
<1>7. ASSUME NEW f \in {"command", "status", "aid"}, ReadField("client", f),
             UNCHANGED <<rigid, sent, file, short, disturbed>>
      PROVE  OnTheWay' /\ silent' \in BOOLEAN
  BY <1>2, <1>7, ReadKeepsShape
<1>8. CASE ReadCommandOfAnswer
  <2>1. /\ ReadField("client", "command")
        /\ UNCHANGED <<rigid, sent, file, short, disturbed, told>>
    BY <1>8 DEF ReadCommandOfAnswer, transfer
  <2>2. \/ Tell("error")
        \/ Goto("client", "status") /\ UNCHANGED <<status, outcome, committed, dbFailed>>
    BY <1>8 DEF ReadCommandOfAnswer, UnknownAnswer
  <2> QED BY <1>1, <1>2, <1>3, <1>7, <2>1, <2>2 DEF Tell
<1>9. CASE ReadStatus
  <2>1. /\ ReadField("client", "status")
        /\ UNCHANGED <<rigid, sent, file, short, disturbed>>
    BY <1>9 DEF ReadStatus, transfer
  <2>2. /\ told' \in Statuses \cup {None}
        /\ \/ \E o \in {"success", "refused", "error"} : Tell(o)
           \/ /\ \E p \in {"lf", "aid", "varargs"} : Goto("client", p)
              /\ UNCHANGED <<status, outcome, committed, dbFailed>>
    <3>1. CASE UnknownAnswer /\ UNCHANGED told
      BY <1>2, <3>1 DEF UnknownAnswer
    <3>2. ASSUME NEW s \in Statuses, told' = s,
            CASE s = "OK" /\ op \in {"CLS", "BID"} -> Tell("success")
              [] s # "OK" /\ op = "BID" -> Tell("refused")
              [] OTHER ->
                   /\ Goto("client", IF s # "OK" THEN "lf"
                                     ELSE IF op = "OPA" THEN "aid"
                                     ELSE "varargs")
                   /\ UNCHANGED <<status, outcome, committed, dbFailed>>
          PROVE \/ Tell("success") \/ Tell("refused")
                \/ /\ \E p \in {"lf", "aid", "varargs"} : Goto("client", p)
                   /\ UNCHANGED <<status, outcome, committed, dbFailed>>
      BY <3>2
    <3> QED BY <1>9, <3>1, <3>2 DEF ReadStatus
  <2>3. UNCHANGED <<status, committed, dbFailed>>
    BY <2>2 DEF Tell
  <2> QED BY <1>1, <1>3, <1>7, <2>1, <2>2, <2>3
<1>10. CASE ReadAid
  <2>1. /\ ReadField("client", "aid")
        /\ UNCHANGED <<rigid, sent, file, short, disturbed, told>>
    BY <1>10 DEF ReadAid, transfer
  <2>2. \/ Tell("error")
        \/ Goto("client", "lf") /\ UNCHANGED <<status, outcome, committed, dbFailed>>
    BY <1>10 DEF ReadAid, UnknownAnswer
  <2> QED BY <1>1, <1>2, <1>3, <1>7, <2>1, <2>2 DEF Tell
<1>11. CASE ReadLF
  <2>1. /\ Recv("client", 1)
        /\ UNCHANGED <<rigid, sent, file, short, disturbed, told>>
        /\ \E o \in {"success", "refused", "error"} : Tell(o)
    BY <1>11 DEF ReadLF, transfer, UnknownAnswer
  <2>2. OnTheWay' /\ silent' \in BOOLEAN
    BY <1>2, <2>1, RecvKeepsShape
  <2> QED BY <1>1, <1>2, <2>1, <2>2 DEF Tell
<1>12. CASE ReadAssetInfo
  <2>1. Recv("client", 1) /\ UNCHANGED <<rigid, sent, short>>
    BY <1>12 DEF ReadAssetInfo
  <2>2. OnTheWay' /\ silent' \in BOOLEAN
    BY <1>2, <2>1, RecvKeepsShape
  <2>3. CASE /\ file' = <<>> /\ Goto("client", "as_recv_asset_file")
             /\ UNCHANGED <<result, disturbed>>
    <3>1. Known'
      BY <2>3 DEF ShapeInv, Known, result
    <3> QED BY <1>2, <2>1, <2>2, <2>3, <3>1, CreatingKeepsShape
  <2>4. CASE Tell("error") /\ disturbed' = TRUE /\ UNCHANGED <<file, told>>
    <3>1. Known' /\ Flags' /\ "closed" \in Points \ {"as_recv_asset_file"}
      BY <2>1, <2>2, <2>4 DEF ShapeInv, Flags, Known, Tell, Points
    <3> QED BY <1>2, <2>1, <2>2, <2>4, <3>1, GoingKeepsShape DEF Tell
  <2> QED BY <1>12, <2>3, <2>4 DEF ReadAssetInfo
<1> QED BY <1>2, <1>4, <1>5, <1>6, <1>8, <1>9, <1>10, <1>11, <1>12,
           TransferKeepsShape, FailKeepsShape DEF Client

LEMMA WorkerKeepsShape ==
  ASSUME ShapeInv, OrderInv, Worker PROVE ShapeInv'
\* What a worker keeps that goes on, decides or hangs up
<1>1. ASSUME UNCHANGED <<rigid, sent, file, short, disturbed>>, OnTheWay',
             silent' \in BOOLEAN, Known',
             NEW p \in Points \ {"as_recv_asset_file"}, Goto("server", p)
      PROVE  ShapeInv'
  <2>1. Flags' /\ "server" \in Ends
    BY <1>1 DEF ShapeInv, Flags, Ends
  <2> QED BY <1>1, <2>1, GoingKeepsShape
<1>2. /\ {"command", "args", "varargs", "database", "answer", "closed",
          "as_send_asset_file"} \subseteq Points \ {"as_recv_asset_file"}
      /\ "server" \in Ends
  BY DEF Points, Receiving, Fixed, Sending, Ends
<1>3. UNCHANGED result => Known'
  BY DEF ShapeInv, Known, result
<1>4. ASSUME NEW s \in Statuses, Decide(s), committed' \in BOOLEAN,
             dbFailed' \in BOOLEAN
      PROVE  Known' /\ Goto("server", "answer")
  BY <1>4 DEF ShapeInv, Known, Decide
<1>5. committed \in BOOLEAN /\ dbFailed \in BOOLEAN
  BY DEF ShapeInv, Known
<1>6. CASE Dequeue
  <2>1. /\ UNCHANGED <<rigid, inbox, got, silent, sent, file, short, result, disturbed>>
        /\ Goto("server", "command")
    BY <1>6 DEF Dequeue, network, transfer
  <2>2. OnTheWay' /\ silent' \in BOOLEAN
    BY <2>1, QuietKeepsShape DEF ShapeInv, Flags
  <2> QED BY <1>1, <1>2, <1>3, <2>1, <2>2
<1>7. CASE ReadCommand
  <2>1. /\ ReadField("server", "command")
        /\ UNCHANGED <<rigid, sent, file, short, disturbed>>
        /\ \/ Goto("server", "args") /\ UNCHANGED result
           \/ Decide("unnamed ERR") /\ UNCHANGED <<committed, dbFailed>>
    BY <1>7 DEF ReadCommand, transfer
  <2>2. OnTheWay' /\ silent' \in BOOLEAN
    BY <1>2, <2>1, ReadKeepsShape
  <2> QED BY <1>1, <1>2, <1>3, <1>4, <1>5, <2>1, <2>2 DEF Statuses
<1>8. CASE ReadArgs
  <2>1. /\ ReadField("server", "args")
        /\ UNCHANGED <<rigid, sent, file, short, disturbed>>
        /\ \/ /\ \E p \in {"varargs", "database"} : Goto("server", p)
              /\ UNCHANGED result
           \/ Decide("ERR") /\ UNCHANGED <<committed, dbFailed>>
    BY <1>8 DEF ReadArgs, transfer
  <2>2. OnTheWay' /\ silent' \in BOOLEAN
    BY <1>2, <2>1, ReadKeepsShape
  <2> QED BY <1>1, <1>2, <1>3, <1>4, <1>5, <2>1, <2>2 DEF Statuses
<1>9. CASE ReadVarargs
  <2>1. /\ \E k \in {1, 2} : Recv("server", k)
        /\ UNCHANGED <<rigid, sent, file, short, disturbed>>
        /\ \/ Goto("server", "database") /\ UNCHANGED result
           \/ Decide("ERR") /\ UNCHANGED <<committed, dbFailed>>
    BY <1>9 DEF ReadVarargs, transfer
  <2>2. OnTheWay' /\ silent' \in BOOLEAN
    BY <1>2, <2>1, RecvKeepsShape
  <2> QED BY <1>1, <1>2, <1>3, <1>4, <1>5, <2>1, <2>2 DEF Statuses
<1>10. CASE UseDatabase
  <2>1. UNCHANGED <<rigid, inbox, got, silent, sent, short, disturbed>>
    BY <1>10 DEF UseDatabase, network
  <2>2. OnTheWay' /\ silent' \in BOOLEAN
    BY <2>1, QuietKeepsShape DEF ShapeInv, Flags
  <2>3. CASE /\ file' = <<>> /\ Goto("server", "as_recv_asset_file")
             /\ dbFailed' \in BOOLEAN
             /\ UNCHANGED <<status, told, outcome, committed>>
    <3>1. Known'
      BY <2>3 DEF ShapeInv, Known
    <3> QED BY <1>2, <2>1, <2>2, <2>3, <3>1, CreatingKeepsShape
  <2>4. ASSUME NEW s \in Statuses, Decide(s), committed' \in BOOLEAN,
               dbFailed' \in BOOLEAN, UNCHANGED file
        PROVE  ShapeInv'
    BY <1>1, <1>2, <1>4, <2>1, <2>2, <2>4
  <2>5. Refusals \cup {"OK"} \subseteq Statuses
    BY DEF Refusals, Statuses
  <2>6. CASE WriteFails /\ UNCHANGED file
    BY <2>4, <2>5, <2>6 DEF WriteFails
  <2>7. CASE (\E s \in Refusals : Decide(s)) /\ UNCHANGED <<committed, dbFailed, file>>
    BY <1>5, <2>4, <2>5, <2>7
  <2>8. CASE /\ Decide("OK") /\ committed' = (op # "SAS")
             /\ UNCHANGED <<dbFailed, file>>
    BY <1>5, <2>4, <2>5, <2>8
  <2> QED BY <1>10, <2>3, <2>6, <2>7, <2>8 DEF UseDatabase
<1>11. CASE SendAnswer
  <2>1. /\ UNCHANGED <<rigid, sent, file, short, result, disturbed>>
        /\ Send("server", Answer) /\ pc["server"] = "answer"
        /\ \E p \in {"as_send_asset_file", "closed"} : Goto("server", p)
    BY <1>11 DEF SendAnswer, transfer
  <2>2. status \in Statuses
    BY <2>1 DEF OrderInv, Decision
  <2>3. OnTheWay' /\ silent' \in BOOLEAN
    BY <1>2, <2>1, <2>2, MessagesTyped, SendKeepsShape
  <2> QED BY <1>1, <1>2, <1>3, <2>1, <2>3
<1> QED BY <1>2, <1>6, <1>7, <1>8, <1>9, <1>10, <1>11,
           TransferKeepsShape, FailKeepsShape DEF Worker

LEMMA InitShape == Init => ShapeInv
<1> SUFFICES ASSUME Init PROVE ShapeInv
  OBVIOUS
<1>1. Len(asset) \in Nat \ {0} /\ Given
  BY ExchangeAssumption DEF Init, Given, ExchangeAssumption
<1>2. /\ pc \in [Ends -> Points] /\ OnTheWay
      /\ \A e \in Ends : pc[e] # "as_recv_asset_file"
  BY DEF Init, Ends, Points, OnTheWay
<1>3. sent = 0 /\ file = None
  BY DEF Init
<1>4. Stored
  BY <1>1, <1>2, <1>3 DEF Stored
<1>5. Known /\ Flags
  BY DEF Init, Known, Flags
<1> QED BY <1>1, <1>2, <1>4, <1>5 DEF ShapeInv

LEMMA NextShape == ShapeInv /\ OrderInv /\ [Next]_vars => ShapeInv'
<1> SUFFICES ASSUME ShapeInv, OrderInv, [Next]_vars PROVE ShapeInv'
  OBVIOUS
<1>1. CASE Kill
  <2>1. /\ UNCHANGED <<rigid, inbox, got, silent, sent, file, short, result>>
        /\ Goto("server", "closed") /\ disturbed' = TRUE
    BY <1>1 DEF Kill, network, transfer
  <2>2. OnTheWay' /\ Known' /\ Flags' /\ "server" \in Ends
    BY <2>1, QuietKeepsShape DEF ShapeInv, Known, Flags, result, Ends
  <2>3. "closed" \in Points \ {"as_recv_asset_file"}
    BY DEF Points
  <2> QED BY <2>1, <2>2, <2>3, GoingKeepsShape
<1>2. CASE UNCHANGED vars
  <2>1. UNCHANGED <<rigid, inbox, got, silent, pc, sent, file, short, result, disturbed>>
    BY <1>2 DEF vars, network, transfer
  <2>2. OnTheWay' /\ Flags'
    BY <2>1, QuietKeepsShape DEF ShapeInv, Flags
  <2> QED BY <2>1, <2>2, StayingKeepsShape
<1> QED BY <1>1, <1>2, ClientKeepsShape, WorkerKeepsShape, NetworkKeepsShape DEF Next

\* Every variable keeps its type: no file grows beyond the announced size, no
\* sender goes beyond the end of its asset, and each end is where its code is.
THEOREM TypeOKHolds == Spec => []TypeOK
<1>1. Init => OrderInv /\ ShapeInv
  BY InitOrder, InitShape
<1>2. OrderInv /\ ShapeInv /\ [Next]_vars => OrderInv' /\ ShapeInv'
  BY NextOrder, NextShape
<1> QED BY <1>1, <1>2, ShapeIsTypeOK, PTL DEF Spec

-----------------------------------------------------------------------------
(* The client is told the truth.  What is first on its way to a client     *)
(* that has not read the status is the beginning of the server's answer,   *)
(* whatever follows it.                                                    *)

\* How many units there are before a client has read the status
Ahead ==
  CASE pc["client"] = "status" -> 2 - got["client"]
    [] pc["client"] \in {"connect", "request", "as_send_asset_file", "command"} ->
         4 - got["client"]
    [] OTHER -> 0

\* They are the command or the status that the server has decided.
TrueHead ==
  \A i \in 1..Len(inbox["client"]) :
    i <= Ahead => inbox["client"][i][2] \in {op, status}

\* A server that sends an asset has sent them, if they come through at all.
HeadSent ==
  pc["server"] = "as_send_asset_file" => silent \/ Ahead <= Len(inbox["client"])

TrueStatus ==
  /\ pc["client"] \in {"lf", "aid", "varargs", "as_recv_asset_file"} =>
       told \in {"OK", "NOK", "ERR"} /\ told = status
  /\ pc["client"] \in {"aid", "varargs", "as_recv_asset_file"} => told = "OK"

TruthInv == TrueHead /\ HeadSent /\ TrueStatus /\ ToldTruth

LEMMA AheadBounded == ASSUME ShapeInv PROVE Ahead \in 0..4
<1>1. got["client"] \in {0, 1}
  BY DEF ShapeInv, OnTheWay, Ends
<1> QED BY <1>1 DEF Ahead

\* The inbox of a client holds a sequence, before and after a step.
LEMMA Inboxes ==
  ShapeInv => Len(inbox["client"]) \in Nat /\ got["client"] \in {0, 1}
<1> SUFFICES ASSUME ShapeInv
             PROVE  Len(inbox["client"]) \in Nat /\ got["client"] \in {0, 1}
  OBVIOUS
<1>1. inbox["client"] \in Seq(Units) /\ got["client"] \in {0, 1}
  BY DEF ShapeInv, OnTheWay, Ends
<1> QED BY <1>1, LenProperties

-----------------------------------------------------------------------------
\* A step that the client does not notice
LEMMA UnnoticedKeepsTruth ==
  ASSUME TruthInv, UNCHANGED <<op, result>>, pc'["client"] = pc["client"],
         inbox'["client"] = inbox["client"], got'["client"] = got["client"],
         pc'["server"] = "as_send_asset_file" =>
           pc["server"] = "as_send_asset_file" /\ (silent => silent')
  PROVE  TruthInv'
<1>1. Ahead' = Ahead
  BY DEF Ahead
<1>2. TrueHead' /\ HeadSent'
  BY <1>1 DEF TruthInv, TrueHead, HeadSent, result
<1>3. TrueStatus' /\ ToldTruth'
  BY DEF TruthInv, TrueStatus, ToldTruth, result
<1> QED BY <1>2, <1>3 DEF TruthInv

\* Before the server has decided nothing is on its way, and nothing is told.
LEMMA UndecidedKeepsTruth ==
  ASSUME OrderInv, pc["server"] \in Undecided, UNCHANGED outcome,
         pc'["client"] = pc["client"], pc'["server"] # "as_send_asset_file",
         inbox'["client"] = inbox["client"]
  PROVE  TruthInv'
<1>1. /\ inbox'["client"] = <<>> /\ pc'["client"] \in Unaware
      /\ outcome' \notin {"success", "refused"}
  BY DEF OrderInv, Silence, Unanswered
<1>2. TrueHead'
  BY <1>1, EmptySeq DEF TrueHead
<1>3. HeadSent' /\ TrueStatus' /\ ToldTruth'
  BY <1>1 DEF HeadSent, TrueStatus, ToldTruth, Unaware
<1> QED BY <1>2, <1>3 DEF TruthInv

\* The client reads k units, none behind the status, and stays before it.
LEMMA HeadTaken ==
  ASSUME ShapeInv, ShapeInv', TruthInv, NEW k \in Nat,
         UNCHANGED <<op, silent, result>>,
         pc'["server"] = pc["server"],
         Len(inbox'["client"]) = Len(inbox["client"]) - k,
         \A i \in 1..Len(inbox'["client"]) :
           inbox'["client"][i] = inbox["client"][k + i],
         Ahead' + k = Ahead,
         TrueStatus'
  PROVE  TruthInv'
<1> DEFINE n == Len(inbox["client"])
           m == Len(inbox'["client"])
<1>1. n \in Nat /\ m \in Nat /\ m = n - k
  BY Inboxes
<1>2. Ahead \in 0..4 /\ Ahead' \in Int
  <2>1. got'["client"] \in {0, 1}
    BY DEF ShapeInv, OnTheWay, Ends
  <2>2. Ahead' \in Int
    BY <2>1 DEF Ahead
  <2> QED BY <2>2, AheadBounded
<1> DEFINE a == Ahead
           b == Ahead'
<1>3. a \in Nat /\ b \in Int /\ b + k = a
  <2>1. a \in 0..4 /\ b \in Int /\ b + k = a
    BY <1>2
  <2> HIDE DEF a, b
  <2> QED BY <2>1
<1>4. TrueHead'
  <2> SUFFICES ASSUME NEW i \in 1..m, i <= b
               PROVE  inbox'["client"][i][2] \in {op, status}
    BY DEF TrueHead, result
  <2> HIDE DEF n, m, a, b
  <2>1. k + i \in 1..n /\ k + i <= a
    BY <1>1, <1>3
  <2> QED BY <2>1 DEF TruthInv, TrueHead, n, m, a
<1>5. a <= n => b <= m
  <2> HIDE DEF n, m, a, b
  <2> QED BY <1>1, <1>3
<1>6. HeadSent'
  BY <1>5 DEF TruthInv, HeadSent
<1>7. ToldTruth'
  BY DEF TruthInv, ToldTruth, result
<1> QED BY <1>4, <1>6, <1>7 DEF TruthInv

\* The client has read the status.
LEMMA StatusRead ==
  ASSUME ShapeInv', TruthInv, UNCHANGED <<op, status, outcome, committed, dbFailed>>,
         pc'["client"] \in {"lf", "aid", "varargs", "as_recv_asset_file", "closed"},
         TrueStatus'
  PROVE  TruthInv'
<1>1. Ahead' = 0 /\ Len(inbox'["client"]) \in Nat
  BY Inboxes DEF Ahead
<1>2. TrueHead' /\ HeadSent'
  BY <1>1 DEF TrueHead, HeadSent
<1>3. ToldTruth'
  BY DEF TruthInv, ToldTruth
<1> QED BY <1>2, <1>3 DEF TruthInv

\* The client tells its user what it has read.
LEMMA TellingKeepsTruth ==
  ASSUME ShapeInv, ShapeInv', OrderInv, TruthInv,
         NEW o \in {"success", "refused", "error"}, Tell(o), UNCHANGED op,
         o = "success" => status = "OK",
         o = "refused" => status \in {"NOK", "ERR"}
  PROVE  TruthInv'
<1>1. pc'["client"] = "closed"
  BY DEF Tell, Goto, OrderInv, Places, Ends
<1>2. Ahead' = 0 /\ Len(inbox'["client"]) \in Nat
  BY <1>1, Inboxes DEF Ahead
<1>3. TrueHead' /\ HeadSent' /\ TrueStatus'
  BY <1>1, <1>2 DEF TrueHead, HeadSent, TrueStatus
<1>4. /\ committed => Commits
      /\ Commits /\ ~dbFailed => (committed <=> status = "OK")
  BY DEF OrderInv, Decision
<1>5. ToldTruth'
  BY <1>4, ExchangeAssumption DEF ToldTruth, Tell, Commits, ExchangeAssumption
<1> QED BY <1>3, <1>5 DEF TruthInv

-----------------------------------------------------------------------------
\* The first four units of an answer, and the length of one that an asset follows
LEMMA AnswerHead ==
  ASSUME ShapeInv, status \in Statuses
  PROVE  /\ Answer \in Seq(Units)
         /\ \A i \in 1..Len(Answer) : i <= 4 => Answer[i][2] \in {op, status}
         /\ status = "OK" /\ op = "SAS" => Len(Answer) >= 4
<1>1. Answer \in Seq(Units) /\ op \in Ops
  BY MessagesTyped DEF ShapeInv, Given
<1>2. CASE status = "unnamed ERR"
  <2>1. Answer = <<<<"command", status>>, <<"command", status>>>>
    BY <1>2 DEF Answer, Field, Unit
  <2>2. Len(Answer) = 2 /\ \A i \in 1..2 : Answer[i][2] = status
    BY <2>1
  <2> QED BY <1>1, <1>2, <2>2
<1>3. CASE status # "unnamed ERR"
  <2> DEFINE rest ==
        CASE op = "BID" \/ (op = "CLS" /\ status = "OK") -> <<>>
          [] op = "OPA" /\ status = "OK" -> Field("aid", op) \o <<LF>>
          [] op = "SAS" /\ status = "OK" -> <<Unit("varargs", op)>>
          [] OTHER -> <<LF>>
      head == Field("command", op) \o Field("status", status)
  <2>1. rest \in Seq(Units)
    <3>1. /\ Field("aid", op) \in Seq(Units) /\ Unit("varargs", op) \in Units
          /\ LF \in Units
      BY <1>1, FieldUnits, SpecialUnits
    <3>2. Field("aid", op) \o <<LF>> \in Seq(Units)
      BY <3>1, ConcatProperties
    <3>3. rest \in {<<>>, Field("aid", op) \o <<LF>>, <<Unit("varargs", op)>>, <<LF>>}
      OBVIOUS
    <3> HIDE DEF rest
    <3>4. \A u \in Units : <<u>> \in Seq(Units)
      OBVIOUS
    <3>5. <<>> \in Seq(Units)
      BY EmptySeq
    <3> QED BY <3>1, <3>2, <3>3, <3>4, <3>5
  <2> DEFINE c == <<"command", op>>
             s == <<"status", status>>
  <2>2. head = <<c, c>> \o <<s, s>>
    BY DEF Field, Unit
  <2>3. /\ head \in Seq(Units) /\ Len(head) = 4
        /\ \A i \in 1..2 : head[i] = c /\ head[2 + i] = s
    <3>1. c \in Units /\ s \in Units
      BY <1>1, FieldUnits DEF Unit
    <3> HIDE DEF c, s, head
    <3>2. /\ <<c, c>> \in Seq(Units) /\ Len(<<c, c>>) = 2
          /\ <<s, s>> \in Seq(Units) /\ Len(<<s, s>>) = 2
          /\ \A i \in 1..2 : <<c, c>>[i] = c /\ <<s, s>>[i] = s
      BY <3>1
    <3>3. /\ <<c, c>> \o <<s, s>> \in Seq(Units)
          /\ Len(<<c, c>> \o <<s, s>>) = Len(<<c, c>>) + Len(<<s, s>>)
          /\ \A i \in 1..Len(<<c, c>>) : (<<c, c>> \o <<s, s>>)[i] = <<c, c>>[i]
          /\ \A i \in 1..Len(<<s, s>>) :
               (<<c, c>> \o <<s, s>>)[Len(<<c, c>>) + i] = <<s, s>>[i]
      BY <3>2, Appended
    <3> QED BY <2>2, <3>2, <3>3
  <2>4. \A i \in 1..4 : head[i][2] \in {op, status}
    <3>1. c[2] = op /\ s[2] = status
      OBVIOUS
    <3> HIDE DEF c, s, head
    <3>2. head[1] = c /\ head[2] = c /\ head[2 + 1] = s /\ head[2 + 2] = s
      BY <2>3
    <3>3. head[3] = s /\ head[4] = s
      BY <3>2
    <3> QED BY <3>1, <3>2, <3>3
  <2>5. Answer = head \o rest
    BY <1>3 DEF Answer
  <2> HIDE DEF head, rest, c, s
  <2>6. Len(rest) \in Nat
    BY <2>1, LenProperties
  <2>7. Len(Answer) = 4 + Len(rest) /\ \A i \in 1..4 : Answer[i] = head[i]
    <3>1. /\ Len(head \o rest) = Len(head) + Len(rest)
          /\ \A i \in 1..Len(head) : (head \o rest)[i] = head[i]
      <4>1. head \in Seq(Units) /\ rest \in Seq(Units)
        BY <2>1, <2>3
      <4> HIDE DEF Units
      <4> QED BY ONLY <4>1, Appended
    <3>2. Len(head) = 4
      BY <2>3
    <3>3. Len(Answer) = 4 + Len(rest)
      BY ONLY <2>5, <3>1, <3>2
    <3>4. \A i \in 1..4 : Answer[i] = head[i]
      BY ONLY <2>5, <3>1, <3>2
    <3> QED BY <3>3, <3>4
  <2> QED BY <1>1, <2>4, <2>6, <2>7
<1> QED BY <1>2, <1>3

\* What is sent to the client behind the beginning of the answer
LEMMA SendingKeepsTruth ==
  ASSUME ShapeInv, TruthInv, UNCHANGED <<rigid, result>>,
         NEW s \in Seq(Units), Send("server", s),
         pc["server"] = "as_send_asset_file", pc'["client"] = pc["client"]
  PROVE  TruthInv'
<1> DEFINE n == Len(inbox["client"])
           m == Len(inbox'["client"])
<1>1. /\ UNCHANGED <<got, silent>> /\ Peer("server") = "client"
      /\ silent => inbox'["client"] = inbox["client"]
      /\ ~silent => /\ m = n + Len(s)
                    /\ \A i \in 1..n : inbox'["client"][i] = inbox["client"][i]
  BY SendAppends DEF Peer, Ends
<1>2. n \in Nat /\ Len(s) \in Nat /\ Ahead \in 0..4 /\ Ahead' = Ahead
  BY <1>1, Inboxes, LenProperties, AheadBounded DEF Ahead
<1>3. UNCHANGED op
  BY DEF rigid
<1>4. CASE silent
  BY <1>1, <1>2, <1>3, <1>4
  DEF TruthInv, TrueHead, HeadSent, TrueStatus, ToldTruth, result
<1>5. CASE ~silent
  <2>1. Ahead <= n /\ Ahead <= m
    <3>1. Ahead <= n
      BY <1>5 DEF TruthInv, HeadSent
    <3> HIDE DEF n, m
    <3> QED BY <1>1, <1>2, <1>5, <3>1
  <2>2. TrueHead'
    <3> SUFFICES ASSUME NEW i \in 1..m, i <= Ahead
                 PROVE  inbox'["client"][i][2] \in {op, status}
      BY <1>2, <1>3 DEF TrueHead, result
    <3>1. i \in 1..n
      <4> HIDE DEF n, m
      <4> QED BY <1>2, <2>1
    <3> QED BY <1>1, <1>5, <3>1 DEF TruthInv, TrueHead
  <2>3. HeadSent' /\ TrueStatus' /\ ToldTruth'
    BY <1>2, <1>3, <2>1
    DEF TruthInv, HeadSent, TrueStatus, ToldTruth, result
  <2> QED BY <2>2, <2>3 DEF TruthInv
<1> QED BY <1>4, <1>5

LEMMA AnswerKeepsTruth ==
  ASSUME ShapeInv, ShapeInv', OrderInv, TruthInv, SendAnswer PROVE TruthInv'
<1>1. /\ pc["server"] = "answer" /\ UNCHANGED <<rigid, op, result>>
      /\ Send("server", Answer)
  BY DEF SendAnswer, rigid
<1>2. status \in Statuses
  BY <1>1 DEF OrderInv, Decision
<1>3. /\ inbox["client"] = <<>> /\ Len(inbox["client"]) = 0
      /\ pc["client"] \in Unaware
  BY <1>1, EmptySeq DEF OrderInv, Silence, Unanswered
<1>4. /\ pc'["client"] = pc["client"]
      /\ pc'["server"] = "as_send_asset_file" => op = "SAS" /\ status = "OK"
  BY DEF SendAnswer, Goto, OrderInv, Places, Ends
<1>5. /\ UNCHANGED <<got, silent>>
      /\ silent => inbox'["client"] = inbox["client"]
      /\ ~silent => /\ Len(inbox'["client"]) = Len(Answer)
                    /\ \A i \in 1..Len(Answer) : inbox'["client"][i] = Answer[i]
  <2>1. Answer \in Seq(Units) /\ Peer("server") = "client" /\ "server" \in Ends
    BY <1>2, AnswerHead DEF Peer, Ends
  <2>2. Len(Answer) \in Nat
    BY <2>1, LenProperties
  <2>3. /\ UNCHANGED <<got, silent>>
        /\ silent => inbox'["client"] = inbox["client"]
        /\ ~silent => /\ Len(inbox'["client"]) = 0 + Len(Answer)
                      /\ \A i \in 1..Len(Answer) :
                           inbox'["client"][0 + i] = Answer[i]
    BY <1>1, <1>3, <2>1, SendAppends
  <2> QED BY <2>2, <2>3
<1>6. Ahead \in 0..4 /\ Ahead' = Ahead
  BY <1>4, <1>5, AheadBounded DEF Ahead
<1>7. TrueHead' /\ HeadSent'
  <2>1. CASE silent
    BY <1>1, <1>3, <1>5, <2>1 DEF TrueHead, HeadSent
  <2>2. CASE ~silent
    <3>1. /\ \A i \in 1..Len(Answer) : i <= 4 => Answer[i][2] \in {op, status}
          /\ status = "OK" /\ op = "SAS" => Len(Answer) >= 4
          /\ Len(Answer) \in Nat
      BY <1>2, AnswerHead, LenProperties
    <3>2. TrueHead'
      BY <1>1, <1>5, <1>6, <2>2, <3>1 DEF TrueHead, result
    <3>3. HeadSent'
      BY <1>4, <1>5, <1>6, <2>2, <3>1 DEF HeadSent
    <3> QED BY <3>2, <3>3
  <2> QED BY <2>1, <2>2
<1>8. TrueStatus' /\ ToldTruth'
  BY <1>1, <1>4 DEF TruthInv, TrueStatus, ToldTruth, result
<1> QED BY <1>7, <1>8 DEF TruthInv

-----------------------------------------------------------------------------
LEMMA WorkerKeepsTruth ==
  ASSUME ShapeInv, ShapeInv', OrderInv, TruthInv, Worker PROVE TruthInv'
<1>1. op \in Ops /\ DOMAIN pc = Ends
  BY DEF OrderInv, Places
\* A worker that has not decided sends nothing and tells nothing.
<1>2. ASSUME pc["server"] \in Undecided, NothingSent, UNCHANGED outcome,
             \E p \in Undecided \cup {"answer", "closed"} :
               pc' = pc \/ Goto("server", p)
      PROVE  TruthInv'
  <2>1. pc'["client"] = pc["client"] /\ pc'["server"] # "as_send_asset_file"
    BY <1>1, <1>2 DEF Goto, Ends, Undecided
  <2> QED BY <1>2, <2>1, UndecidedKeepsTruth DEF NothingSent
\* One that gives up after it has decided was sending.
<1>3. ASSUME GiveUp("server"), NothingSent, silent' = silent PROVE TruthInv'
  <2>1. CASE pc["server"] \in Sending /\ Hangup /\ UNCHANGED rigid
    <3>1. /\ UNCHANGED <<op, result>> /\ pc'["client"] = pc["client"]
          /\ pc'["server"] = "closed"
      BY <1>1, <2>1 DEF Hangup, Goto, Ends, rigid
    <3> QED BY <1>3, <3>1, UnnoticedKeepsTruth DEF NothingSent
  <2>2. CASE pc["server"] \in {"command", "args", "varargs", "as_recv_asset_file"}
    <3>1. UNCHANGED outcome
      BY <1>3 DEF GiveUp, Hangup, Decide, result
    <3>2. \E p \in {"answer", "closed"} : Goto("server", p)
      BY <1>3 DEF GiveUp, Hangup, Decide
    <3> QED BY <1>2, <1>3, <2>2, <3>1, <3>2 DEF Undecided
  <2> QED BY <1>3, <2>1, <2>2 DEF GiveUp
<1>4. CASE Dequeue
  BY <1>2, <1>4, ServerQuiet DEF Dequeue, network, result, Undecided
<1>5. CASE ReadCommand
  <2>1. NothingSent /\ pc["server"] = "command"
    BY <1>5, ServerRecv DEF ReadCommand, ReadField
  <2> QED BY <1>2, <1>5, <2>1 DEF ReadCommand, Decide, result, Undecided
<1>6. CASE ReadArgs
  <2>1. NothingSent /\ pc["server"] = "args"
    BY <1>6, ServerRecv DEF ReadArgs, ReadField
  <2>2. /\ UNCHANGED outcome
        /\ \E p \in {"varargs", "database", "answer"} : Goto("server", p)
    BY <1>6 DEF ReadArgs, Decide, result
  <2> QED BY <1>2, <2>1, <2>2 DEF Undecided
<1>7. CASE ReadVarargs
  <2>1. NothingSent /\ pc["server"] = "varargs"
    BY <1>7, ServerRecv DEF ReadVarargs
  <2>2. /\ UNCHANGED outcome
        /\ \E p \in {"database", "answer"} : Goto("server", p)
    BY <1>7 DEF ReadVarargs, Decide, result
  <2> QED BY <1>2, <2>1, <2>2 DEF Undecided
<1>8. CASE UseDatabase
  <2>1. NothingSent /\ pc["server"] = "database"
    BY <1>8, ServerQuiet DEF UseDatabase, network
  <2>2. /\ UNCHANGED outcome
        /\ \E p \in {"as_recv_asset_file", "answer"} : Goto("server", p)
    BY <1>8 DEF UseDatabase, WriteFails, Decide
  <2> QED BY <1>2, <2>1, <2>2 DEF Undecided
<1>9. CASE SendAnswer
  BY <1>9, AnswerKeepsTruth
<1>10. CASE SendBytes("server")
  <2>1. /\ pc["server"] = "as_send_asset_file" /\ UNCHANGED <<rigid, pc, result>>
    BY <1>10 DEF SendBytes
  <2>2. \E s \in Seq(Units) : Send("server", s)
    BY <1>10, SendingKeepsShape DEF Ends
  <2> QED BY <2>1, <2>2, SendingKeepsTruth
<1>11. CASE SendLF("server")
  <2>1. /\ pc["server"] = "as_send_asset_file" /\ UNCHANGED <<rigid, result>>
        /\ Send("server", <<LF>>) /\ pc'["client"] = pc["client"]
    BY <1>1, <1>11 DEF SendLF, Goto, Ends
  <2>2. <<LF>> \in Seq(Units)
    BY SpecialUnits
  <2> QED BY <2>1, <2>2, SendingKeepsTruth
<1>12. CASE FileTooShort("server")
  BY <1>3, <1>12, ServerQuiet DEF FileTooShort, network
<1>13. CASE ReceiveBytes("server")
  <2>1. /\ NothingSent /\ pc["server"] = "as_recv_asset_file"
        /\ UNCHANGED <<pc, outcome>>
    BY <1>13, ServerRecv DEF ReceiveBytes, result
  <2> QED BY <1>2, <2>1 DEF Undecided
<1>14. CASE ReceiveLast("server")
  <2>1. NothingSent /\ pc["server"] = "as_recv_asset_file" /\ Decide("OK")
    BY <1>14, ServerRecv DEF ReceiveLast
  <2> QED BY <1>2, <2>1 DEF Decide, Undecided
<1>15. ASSUME NEW k, Recv("server", k), GiveUp("server") PROVE TruthInv'
  <2>1. NothingSent /\ silent' = silent
    BY <1>15, ServerRecv DEF Recv
  <2> QED BY <1>3, <1>15, <2>1
<1>16. CASE ReceiveBad("server") \/ ReceiveFails("server")
  BY <1>15, <1>16 DEF ReceiveBad, ReceiveFails
<1>17. CASE Fail("server")
  BY <1>3, <1>17, ServerQuiet DEF Fail, network
<1> QED BY <1>4, <1>5, <1>6, <1>7, <1>8, <1>9, <1>10, <1>11, <1>12, <1>13, <1>14,
           <1>16, <1>17 DEF Worker, Transfer

\* What the client reads before it has read the status
LEMMA ReadingKeepsTruth ==
  ASSUME ShapeInv, ShapeInv', OrderInv, TruthInv,
         NEW f \in {"command", "status"}, ReadField("client", f), UNCHANGED rigid
  PROVE  /\ UNCHANGED silent
         /\ \A s : Reads("client", s) => s \in {op, status}
         /\ f = "command" /\ pc'["client"] = "status" /\ UNCHANGED result
            /\ pc'["server"] = pc["server"] => TruthInv'
<1> DEFINE k == 2 - got["client"]
<1>1. /\ got["client"] \in {0, 1} /\ k \in {1, 2} /\ pc["client"] = f
      /\ Recv("client", k) /\ "client" \in Ends
  BY Inboxes DEF ReadField, Ends
<1> HIDE DEF k
<1>2. k \in Nat
  BY <1>1
<1>3. /\ UNCHANGED silent
      /\ k <= Len(inbox["client"]) /\ Len(inbox["client"]) \in Nat
      /\ Len(inbox'["client"]) = Len(inbox["client"]) - k
      /\ \A i \in 1..Len(inbox'["client"]) :
           inbox'["client"][i] = inbox["client"][k + i]
      /\ got'["client"] = 0
  BY <1>1, <1>2, RecvTakes
<1>4. ASSUME NEW s, Reads("client", s) PROVE s \in {op, status}
  <2>1. got["client"] = 0 /\ s = Head(inbox["client"])[2]
    BY <1>4 DEF Reads
  <2>2. 1 \in 1..Len(inbox["client"]) /\ 1 <= Ahead
    BY <1>1, <1>3, <2>1 DEF Ahead
  <2>3. inbox["client"][1][2] \in {op, status}
    BY <2>2 DEF TruthInv, TrueHead
  <2>4. Head(inbox["client"]) = inbox["client"][1]
    BY <1>3, <2>2
  <2> QED BY <2>1, <2>3, <2>4
<1>5. ASSUME f = "command", pc'["client"] = "status", UNCHANGED result,
             pc'["server"] = pc["server"]
      PROVE  TruthInv'
  <2>1. Ahead = 2 + k /\ Ahead' = 2
    BY <1>1, <1>3, <1>5 DEF Ahead, k
  <2>2. TrueStatus' /\ UNCHANGED op
    BY <1>5 DEF TrueStatus, rigid
  <2>3. Ahead' + k = Ahead
    BY <1>1, <2>1
  <2> QED BY <1>2, <1>3, <1>5, <2>2, <2>3, HeadTaken
<1> QED BY <1>3, <1>4, <1>5

LEMMA ClientKeepsTruth ==
  ASSUME ShapeInv, ShapeInv', OrderInv, TruthInv, Client PROVE TruthInv'
<1>1. op \in Ops /\ DOMAIN pc = Ends
  BY DEF OrderInv, Places
\* A client that fails says so; one that goes on before it has read anything
\* has as much ahead.
<1>2. ASSUME Tell("error"), UNCHANGED op PROVE TruthInv'
  BY <1>2, TellingKeepsTruth
<1>3. ASSUME GiveUp("client") PROVE TruthInv'
  BY <1>2, <1>3 DEF GiveUp, rigid
<1>4. ASSUME UNCHANGED <<op, got, silent, result>>,
             inbox'["client"] = inbox["client"], pc'["server"] # "as_send_asset_file"
                                                 \/ pc'["server"] = pc["server"],
             pc["client"] \in {"connect", "request", "as_send_asset_file"},
             pc'["client"] \in {"request", "as_send_asset_file", "command"}
      PROVE  TruthInv'
  <2>1. Ahead' = Ahead
    BY <1>4 DEF Ahead
  <2>2. TrueHead' /\ HeadSent'
    BY <1>4, <2>1 DEF TruthInv, TrueHead, HeadSent, result
  <2>3. TrueStatus' /\ ToldTruth'
    BY <1>4 DEF TruthInv, TrueStatus, ToldTruth, result
  <2> QED BY <2>2, <2>3 DEF TruthInv
<1>5. ASSUME NEW s, Send("client", s) PROVE
        UNCHANGED <<got, silent>> /\ inbox'["client"] = inbox["client"]
  BY <1>5 DEF Send, Peer, OrderInv, Places, Ends
<1>6. CASE Connect
  <2>1. /\ UNCHANGED <<op, got, silent, result, inbox>> /\ pc["client"] = "connect"
        /\ pc'["client"] = "request" /\ pc'["server"] = "queued"
    BY <1>6 DEF Connect, rigid, network
  <2> QED BY <1>4, <2>1
<1>7. CASE ConnectFails
  BY <1>2, <1>7 DEF ConnectFails, rigid
<1>8. CASE SendRequest
  <2>1. /\ UNCHANGED <<op, result>> /\ pc["client"] = "request"
        /\ pc'["client"] \in {"as_send_asset_file", "command"}
        /\ pc'["server"] = pc["server"]
    BY <1>1, <1>8 DEF SendRequest, Goto, Ends, rigid
  <2> QED BY <1>4, <1>5, <1>8, <2>1 DEF SendRequest
<1>9. CASE ReadCommandOfAnswer
  <2>1. ReadField("client", "command") /\ UNCHANGED <<rigid, op, told>>
    BY <1>9 DEF ReadCommandOfAnswer, rigid
  <2>2. CASE /\ Goto("client", "status")
             /\ UNCHANGED <<status, outcome, committed, dbFailed>>
    <3>1. pc'["client"] = "status" /\ pc'["server"] = pc["server"]
          /\ UNCHANGED result
      BY <1>1, <2>1, <2>2 DEF Goto, Ends, result
    <3> QED BY <2>1, <3>1, ReadingKeepsTruth
  <2> QED BY <1>2, <1>9, <2>1, <2>2 DEF ReadCommandOfAnswer, UnknownAnswer
<1>10. CASE ReadStatus
  <2>1. ReadField("client", "status") /\ UNCHANGED <<rigid, op>>
    BY <1>10 DEF ReadStatus, rigid
  <2>2. CASE UnknownAnswer
    BY <1>2, <2>1, <2>2 DEF UnknownAnswer
  <2>3. ASSUME NEW s \in Statuses, Says(s), told' = s,
          CASE s = "OK" /\ op \in {"CLS", "BID"} -> Tell("success")
            [] s # "OK" /\ op = "BID" -> Tell("refused")
            [] OTHER ->
                 /\ Goto("client", IF s # "OK" THEN "lf"
                                   ELSE IF op = "OPA" THEN "aid"
                                   ELSE "varargs")
                 /\ UNCHANGED <<status, outcome, committed, dbFailed>>
        PROVE TruthInv'
    <3>1. s \in {"OK", "NOK", "ERR"} /\ s = status
      <4>1. s \in {"OK", "NOK", "ERR"} /\ s \in {op, status}
        BY <2>1, <2>3, ReadingKeepsTruth DEF Says
      <4> QED BY <1>1, <4>1 DEF Ops
    <3>2. CASE s = "OK" /\ op \in {"CLS", "BID"}
      <4>1. Tell("success")
        BY <2>3, <3>2
      <4> QED BY <2>1, <3>1, <3>2, <4>1, TellingKeepsTruth
    <3>3. CASE s # "OK" /\ op = "BID"
      <4>1. Tell("refused")
        BY <2>3, <3>3
      <4> QED BY <2>1, <3>1, <3>3, <4>1, TellingKeepsTruth
    <3>4. CASE ~(s = "OK" /\ op \in {"CLS", "BID"}) /\ ~(s # "OK" /\ op = "BID")
      <4> DEFINE p == IF s # "OK" THEN "lf"
                      ELSE IF op = "OPA" THEN "aid"
                      ELSE "varargs"
      <4>1. Goto("client", p) /\ UNCHANGED <<status, outcome, committed, dbFailed>>
        BY <2>3, <3>4
      <4>2. p \in {"lf", "aid", "varargs"} /\ (p # "lf" => s = "OK")
        OBVIOUS
      <4> HIDE DEF p
      <4>3. pc'["client"] = p
        BY <1>1, <4>1 DEF Goto, Ends
      <4>4. TrueStatus'
        BY <2>3, <3>1, <4>1, <4>2, <4>3 DEF TrueStatus
      <4> QED BY <2>1, <4>1, <4>2, <4>3, <4>4, StatusRead
    <3> QED BY <3>2, <3>3, <3>4
  <2> QED BY <1>10, <2>2, <2>3 DEF ReadStatus
<1>11. CASE ReadAid
  <2>1. /\ UNCHANGED <<op, told>> /\ pc["client"] = "aid"
    BY <1>11 DEF ReadAid, ReadField, rigid
  <2>2. CASE /\ Goto("client", "lf")
             /\ UNCHANGED <<status, outcome, committed, dbFailed>>
    <3>1. pc'["client"] = "lf"
      BY <1>1, <2>2 DEF Goto, Ends
    <3>2. TrueStatus'
      BY <2>1, <2>2, <3>1 DEF TruthInv, TrueStatus
    <3> QED BY <2>1, <2>2, <3>1, <3>2, StatusRead
  <2> QED BY <1>2, <1>11, <2>1, <2>2 DEF ReadAid, UnknownAnswer
<1>12. CASE ReadLF
  <2>1. told \in {"OK", "NOK", "ERR"} /\ told = status /\ UNCHANGED op
    BY <1>12 DEF ReadLF, rigid, TruthInv, TrueStatus
  <2>2. CASE Tell(IF told = "OK" THEN "success" ELSE "refused")
    BY <2>1, <2>2, TellingKeepsTruth
  <2> QED BY <1>2, <1>12, <2>1, <2>2 DEF ReadLF, UnknownAnswer
<1>13. CASE ReadAssetInfo
  <2>1. pc["client"] = "varargs" /\ UNCHANGED op
    BY <1>13 DEF ReadAssetInfo, rigid
  <2>2. CASE Goto("client", "as_recv_asset_file") /\ UNCHANGED result
    <3>1. pc'["client"] = "as_recv_asset_file"
      BY <1>1, <2>2 DEF Goto, Ends
    <3>2. TrueStatus'
      BY <2>1, <2>2, <3>1 DEF TruthInv, TrueStatus, result
    <3> QED BY <2>1, <2>2, <3>1, <3>2, StatusRead DEF result
  <2> QED BY <1>2, <1>13, <2>1, <2>2 DEF ReadAssetInfo
<1>14. CASE SendBytes("client")
  <2>1. UNCHANGED <<op, pc, result>> /\ UNCHANGED <<got, silent>>
        /\ inbox'["client"] = inbox["client"]
    BY <1>5, <1>14 DEF SendBytes, rigid
  <2> QED BY <2>1, UnnoticedKeepsTruth
<1>15. CASE SendLF("client")
  <2>1. /\ UNCHANGED <<op, result>> /\ pc["client"] = "as_send_asset_file"
        /\ pc'["client"] = "command" /\ pc'["server"] = pc["server"]
    BY <1>1, <1>15 DEF SendLF, Goto, Ends, rigid
  <2> QED BY <1>4, <1>5, <1>15, <2>1 DEF SendLF
<1>16. CASE ReceiveBytes("client")
  <2>1. pc["client"] = "as_recv_asset_file" /\ UNCHANGED <<op, pc, result>>
    BY <1>16 DEF ReceiveBytes, rigid
  <2>2. TrueStatus'
    BY <2>1 DEF TruthInv, TrueStatus, result
  <2> QED BY <2>1, <2>2, StatusRead DEF result
<1>17. CASE ReceiveLast("client")
  <2>1. pc["client"] = "as_recv_asset_file" /\ UNCHANGED op /\ Tell("success")
    BY <1>17 DEF ReceiveLast, rigid
  <2>2. status = "OK"
    BY <2>1 DEF TruthInv, TrueStatus
  <2> QED BY <2>1, <2>2, TellingKeepsTruth
<1>18. CASE \/ FileTooShort("client") \/ ReceiveBad("client")
            \/ ReceiveFails("client") \/ Fail("client")
  BY <1>3, <1>18 DEF FileTooShort, ReceiveBad, ReceiveFails, Fail
<1> QED BY <1>6, <1>7, <1>8, <1>9, <1>10, <1>11, <1>12, <1>13, <1>14, <1>15, <1>16,
           <1>17, <1>18 DEF Client, Transfer

LEMMA NetworkKeepsTruth ==
  ASSUME ShapeInv, ShapeInv', OrderInv, TruthInv, Network PROVE TruthInv'
<1>1. DOMAIN inbox = Ends /\ got \in [Ends -> {0, 1}]
  BY DEF OrderInv, Places
<1>2. CASE FallSilent
  BY <1>2, UnnoticedKeepsTruth DEF FallSilent, rigid
<1>3. CASE Discard("server") \/ SplitRead("server")
  <2>1. /\ UNCHANGED <<op, pc, silent, result>>
        /\ inbox'["client"] = inbox["client"] /\ got'["client"] = got["client"]
    BY <1>1, <1>3 DEF Discard, SplitRead, rigid, Ends
  <2> QED BY <2>1, UnnoticedKeepsTruth
<1>4. CASE Discard("client")
  <2>1. /\ UNCHANGED <<op, pc, result>> /\ pc["server"] = "closed"
        /\ inbox'["client"] = <<>>
    BY <1>1, <1>4 DEF Discard, IsReset, Peer, rigid, Ends
  <2>2. TrueHead'
    BY <2>1, EmptySeq DEF TrueHead
  <2> QED BY <2>1, <2>2
    DEF TruthInv, HeadSent, TrueStatus, ToldTruth, result
<1>5. CASE SplitRead("client")
  <2>1. /\ UNCHANGED <<op, pc, silent, result>> /\ inbox["client"] # <<>>
        /\ inbox'["client"] = Tail(inbox["client"])
        /\ got["client"] = 0 /\ got'["client"] = 1
        /\ pc["client"] \in Fixed
    BY <1>1, <1>5 DEF SplitRead, rigid, Ends
  <2>2. /\ Len(inbox'["client"]) = Len(inbox["client"]) - 1
        /\ \A i \in 1..Len(inbox'["client"]) :
             inbox'["client"][i] = inbox["client"][1 + i]
    <3>1. inbox["client"] \in Seq(Units) /\ Len(inbox["client"]) \in Nat
      BY Inboxes DEF ShapeInv, OnTheWay, Ends
    <3>2. /\ Len(Tail(inbox["client"])) = Len(inbox["client"]) - 1
          /\ \A i \in 1..Len(Tail(inbox["client"])) :
               Tail(inbox["client"])[i] = inbox["client"][i + 1]
      BY <2>1, <3>1, HeadTailProperties
    <3>3. \A i \in 1..(Len(inbox["client"]) - 1) : i + 1 = 1 + i
      BY <3>1
    <3> QED BY <2>1, <3>2, <3>3
  <2>3. TrueStatus'
    BY <2>1 DEF TruthInv, TrueStatus, result
  <2>4. CASE pc["client"] \in {"command", "status"}
    <3>1. Ahead' + 1 = Ahead
      BY <2>1, <2>4 DEF Ahead
    <3> QED BY <2>1, <2>2, <2>3, <3>1, HeadTaken
  <2>5. CASE pc["client"] \in {"args", "aid"}
    <3>1. Ahead' = 0 /\ Len(inbox'["client"]) \in Nat
      BY <2>1, <2>5, Inboxes DEF Ahead
    <3>2. TrueHead' /\ HeadSent'
      BY <3>1 DEF TrueHead, HeadSent
    <3> QED BY <2>1, <2>3, <3>2 DEF TruthInv, ToldTruth, result
  <2> QED BY <2>1, <2>4, <2>5 DEF Fixed
<1> QED BY <1>2, <1>3, <1>4, <1>5 DEF Network, Ends

LEMMA InitTruth == Init => TruthInv
<1> SUFFICES ASSUME Init PROVE TruthInv
  OBVIOUS
<1>1. TrueHead
  BY EmptySeq DEF Init, TrueHead, Ends
<1> QED BY <1>1, ExchangeAssumption
  DEF Init, TruthInv, HeadSent, TrueStatus, ToldTruth, Ends, ExchangeAssumption

LEMMA NextTruth ==
  ShapeInv /\ ShapeInv' /\ OrderInv /\ TruthInv /\ [Next]_vars => TruthInv'
<1> SUFFICES ASSUME ShapeInv, ShapeInv', OrderInv, TruthInv, [Next]_vars
             PROVE  TruthInv'
  OBVIOUS
<1>1. CASE Kill
  <2>1. /\ UNCHANGED <<op, result, inbox, got>>
        /\ pc'["server"] = "closed" /\ pc'["client"] = pc["client"]
    BY <1>1 DEF Kill, Goto, OrderInv, Places, Ends, rigid, network
  <2> QED BY <2>1, UnnoticedKeepsTruth
<1>2. CASE UNCHANGED vars
  BY <1>2, UnnoticedKeepsTruth DEF vars, rigid, network
<1> QED BY <1>1, <1>2, ClientKeepsTruth, WorkerKeepsTruth, NetworkKeepsTruth DEF Next

\* What a client tells its user is what the server decided and, as long as no
\* write of the database fails, what it did: no success that was not committed
\* and no refusal of what was, for any assets and sizes, and however the
\* connection cuts up, resets, loses or delays what is sent over it.
THEOREM ToldTruthHolds == Spec => []ToldTruth
<1>1. Init => OrderInv /\ ShapeInv /\ TruthInv
  BY InitOrder, InitShape, InitTruth
<1>2. OrderInv /\ ShapeInv /\ TruthInv /\ [Next]_vars
        => OrderInv' /\ ShapeInv' /\ TruthInv'
  BY NextOrder, NextShape, NextTruth
<1>3. TruthInv => ToldTruth
  BY DEF TruthInv
<1> QED BY <1>1, <1>2, <1>3, PTL DEF Spec

-----------------------------------------------------------------------------
(* Accepted assets are intact.  The end e that receives an asset has read  *)
(* a certain number of units, and what is on its way continues there,      *)
(* except that a network that has fallen silent loses the end of it, and a *)
(* reset all of it.                                                        *)

\* e receives an asset, if any end does.
Carries(e) == op = IF e = "server" THEN "OPA" ELSE "SAS"

\* The other end has sent what comes before the asset.
Begun(e) ==
  IF e = "server" THEN pc["client"] \notin {"connect", "request"}
  ELSE pc["server"] \notin Unanswered

\* Where e may be until then, and where it may be before it has the asset
FreshPoints == {"connect", "listening", "request", "queued", "command", "answer",
                "closed"}
Expecting == {"connect", "listening", "request", "queued", "command", "args",
              "status", "varargs", "database", "as_recv_asset_file"}

\* The place of the last unit that e has read, where the asset begins at 1
Position(e) ==
  CASE pc[e] = "as_recv_asset_file" -> Len(file)
    [] pc[e] = "database" -> 0
    [] pc[e] = "varargs" -> -1
    [] pc[e] \in {"args", "status"} -> got[e] - 3
    [] OTHER -> got[e] - 5

\* The asset is sent to e, unless the server refuses to.
Granted == op = "OPA" \/ status = "OK"

\* The place of the last unit that has come through to e
Reach(e) == Position(e) + Len(inbox[e])

\* The sender has sent no more than the asset, up to sent, and, when it has
\* finished, one LF.
Bounded(e) ==
  /\ \/ Reach(e) <= sent
     \/ /\ Reach(e) = sent + 1 /\ sent >= announced
        /\ pc[Peer(e)] # "as_send_asset_file"
  /\ ~silent /\ pc[Peer(e)] = "as_send_asset_file" => Reach(e) = sent

InPlace(e) ==
  \A i \in 1..Len(inbox[e]) :
    /\ Position(e) + i \in 1..sent =>
         inbox[e][i] = Byte(asset[Position(e) + i])
    /\ Position(e) + i = sent + 1 => inbox[e][i] = LF

\* The file holds the beginning of the asset.
Copied ==
  /\ Len(file) <= sent
  /\ ~short => \A i \in 1..Len(file) : file[i] = Byte(asset[i])

Aligned(e) ==
  Bounded(e) /\ InPlace(e) /\ (pc[e] = "as_recv_asset_file" => Copied)

Fresh(e) ==
  /\ sent = 0 /\ inbox[e] = <<>> /\ got[e] = 0
  /\ pc[e] \in FreshPoints
  /\ pc[Peer(e)] # "as_send_asset_file"

AssetFor(e) ==
  /\ ~Begun(e) => Fresh(e)
  /\ Begun(e) /\ Granted /\ pc[e] \in Expecting => Aligned(e)

\* A client that is not sent an asset finds nothing that looks like OK.
Refused ==
  op = "SAS" /\ status # "OK" =>
    /\ pc["server"] # "as_send_asset_file"
    /\ pc["client"] \notin {"varargs", "as_recv_asset_file"}
    /\ \A i \in 1..Len(inbox["client"]) : inbox["client"][i][2] # "OK"

Ended ==
  /\ outcome = "success" => pc["client"] = "closed"
  /\ op = "SAS" /\ pc["client"] = "lf" => told # "OK"
  /\ pc["client"] \in {"as_send_asset_file", "aid"} => op = "OPA"

AssetInv ==
  /\ \A e \in Ends : Carries(e) => AssetFor(e)
  /\ Refused /\ Ended /\ AssetIntact

-----------------------------------------------------------------------------
\* A step that e has no part in
Untouched(e) ==
  /\ UNCHANGED <<rigid, sent, file, short>>
  /\ inbox'[e] = inbox[e] /\ got'[e] = got[e]
  /\ silent => silent'

LEMMA PositionTyped ==
  ASSUME ShapeInv, NEW e \in Ends
  PROVE  /\ Position(e) \in Int /\ Len(inbox[e]) \in Nat /\ Reach(e) \in Int
         /\ sent \in Nat /\ announced \in Nat /\ Len(asset) \in Nat
         /\ sent <= Len(asset)
<1>1. got[e] \in Int /\ inbox[e] \in Seq(Units)
  BY DEF ShapeInv, OnTheWay
<1>2. Len(inbox[e]) \in Nat
  BY <1>1, LenProperties
<1>3. /\ Len(asset) \in Nat /\ announced \in Nat
      /\ sent \in Nat /\ sent <= Len(asset)
  BY ExchangeAssumption DEF ShapeInv, Given, Stored, ExchangeAssumption
<1>4. pc[e] = "as_recv_asset_file" => Len(file) \in Int
  BY <1>3 DEF ShapeInv, Stored
<1>5. Position(e) \in Int
  BY <1>1, <1>4 DEF Position
<1> QED BY <1>2, <1>3, <1>5 DEF Reach

\* Nothing has been sent to e, and this is as it should be.
LEMMA FreshIsAligned ==
  ASSUME NEW e \in Ends, Fresh(e)', pc'[e] \in Expecting
  PROVE  Aligned(e)'
<1>1. Position(e)' = -5 /\ pc'[e] # "as_recv_asset_file"
  BY DEF Fresh, FreshPoints, Expecting, Position
<1>2. Len(inbox'[e]) = 0 /\ sent' = 0
  BY DEF Fresh
<1>3. Reach(e)' <= sent'
  BY <1>1, <1>2 DEF Reach
<1> QED BY <1>1, <1>2, <1>3 DEF Aligned, Bounded, InPlace, Fresh

LEMMA FreshStays ==
  ASSUME NEW e \in Ends, AssetFor(e), ~Begun(e), Untouched(e),
         pc'[e] \in FreshPoints, pc'[Peer(e)] # "as_send_asset_file"
  PROVE  AssetFor(e)'
<1>1. Fresh(e)'
  BY DEF AssetFor, Fresh, Untouched
<1>2. pc'[e] \in Expecting => Aligned(e)'
  BY <1>1, FreshIsAligned
<1> QED BY <1>1, <1>2 DEF AssetFor

\* The other end moves, and sends nothing to e.
LEMMA PeerMoves ==
  ASSUME NEW e \in Ends, AssetFor(e), Untouched(e),
         pc'[e] = pc[e], pc'[Peer(e)] # "as_send_asset_file",
         Begun(e) => Begun(e)' /\ Granted' = Granted
  PROVE  AssetFor(e)'
<1>1. CASE ~Begun(e)
  <2>1. pc'[e] \in FreshPoints
    BY <1>1 DEF AssetFor, Fresh
  <2> QED BY <1>1, <2>1, FreshStays
<1>2. CASE Begun(e)
  <2>1. Begun(e)' /\ Granted' = Granted
    BY <1>2
  <2>2. Position(e)' = Position(e) /\ Reach(e)' = Reach(e)
    BY DEF Position, Reach, Untouched
  <2>3. Aligned(e) => Aligned(e)'
    BY <2>2 DEF Aligned, Bounded, InPlace, Copied, Untouched, rigid
  <2> QED BY <1>2, <2>1, <2>3 DEF AssetFor
<1> QED BY <1>1, <1>2

\* e expects no asset any more.
LEMMA Stops ==
  ASSUME NEW e \in Ends, AssetFor(e),
         pc'[e] \in {"answer", "closed"}, pc'[Peer(e)] = pc[Peer(e)],
         ~Begun(e) => Untouched(e)
  PROVE  AssetFor(e)'
<1>1. CASE ~Begun(e)
  BY <1>1, FreshStays DEF AssetFor, Fresh, FreshPoints
<1>2. CASE Begun(e)
  <2>1. Begun(e)'
    BY <1>2 DEF Begun, Peer, Ends
  <2> QED BY <2>1 DEF AssetFor, Expecting
<1> QED BY <1>1, <1>2

\* e reads k units.
LEMMA Takes ==
  ASSUME ShapeInv, NEW e \in Ends, AssetFor(e), Begun(e), pc[e] \in Expecting,
         UNCHANGED <<rigid, sent, silent>>, Granted' = Granted,
         pc'[Peer(e)] = pc[Peer(e)],
         NEW k \in Nat, Position(e)' = Position(e) + k,
         k <= Len(inbox[e]), Len(inbox'[e]) = Len(inbox[e]) - k,
         \A i \in 1..Len(inbox'[e]) : inbox'[e][i] = inbox[e][k + i],
         pc'[e] = "as_recv_asset_file" => Copied'
  PROVE  AssetFor(e)'
<1>1. Begun(e)'
  BY DEF Begun, Peer, Ends
<1> SUFFICES ASSUME Granted PROVE Aligned(e)'
  BY <1>1 DEF AssetFor
<1>2. Bounded(e) /\ InPlace(e)
  BY DEF AssetFor, Aligned
<1> DEFINE n == Len(inbox[e])
           p == Position(e)
<1>3. p \in Int /\ n \in Nat /\ sent \in Nat /\ Reach(e) = p + n
  BY PositionTyped DEF Reach
<1>4. Reach(e)' = (p + k) + (n - k)
  BY DEF Reach
<1>5. \A x \in Int, y, z \in Nat : (x + z) + (y - z) = x + y
  OBVIOUS
<1>6. Reach(e)' = Reach(e)
  BY <1>3, <1>4, <1>5
<1>7. Bounded(e)'
  BY <1>2, <1>6 DEF Bounded, rigid
<1>8. InPlace(e)'
  <2> HIDE DEF p, n
  <2>1. \A x \in Int, y, z \in Nat, i \in Int :
          i \in 1..(y - z) => /\ z + i \in 1..y
                              /\ (x + z) + i = x + (z + i)
    OBVIOUS
  <2>2. ASSUME NEW i \in 1..(n - k)
        PROVE  /\ p + k + i \in 1..sent => inbox'[e][i] = Byte(asset[p + k + i])
               /\ p + k + i = sent + 1 => inbox'[e][i] = LF
    <3>1. i \in Int /\ k + i \in 1..n /\ p + k + i = p + (k + i)
      BY <1>3, <2>1
    <3>2. inbox'[e][i] = inbox[e][k + i]
      BY <2>2 DEF n
    <3>3. /\ p + (k + i) \in 1..sent => inbox[e][k + i] = Byte(asset[p + (k + i)])
          /\ p + (k + i) = sent + 1 => inbox[e][k + i] = LF
      BY <1>2, <3>1 DEF InPlace, n, p
    <3> QED BY <3>1, <3>2, <3>3
  <2>3. Position(e)' = p + k /\ Len(inbox'[e]) = n - k /\ UNCHANGED <<sent, asset>>
    BY DEF p, n, rigid
  <2> QED BY <2>2, <2>3 DEF InPlace
<1> QED BY <1>7, <1>8 DEF Aligned

\* The same of a field that e reads in one piece, or the rest of it, and of a
\* unit that e reads where no asset is on its way yet
LEMMA TakesBefore ==
  ASSUME ShapeInv, NEW e \in Ends, AssetFor(e), pc[e] \in Expecting,
         UNCHANGED <<rigid, sent>>, Granted' = Granted,
         NEW k \in Nat \ {0}, Recv(e, k),
         pc'[Peer(e)] = pc[Peer(e)],
         Position(e)' = Position(e) + k,
         pc'[e] = "as_recv_asset_file" => Copied'
  PROVE  AssetFor(e)'
<1>1. /\ UNCHANGED silent /\ k <= Len(inbox[e])
      /\ Len(inbox'[e]) = Len(inbox[e]) - k
      /\ \A i \in 1..Len(inbox'[e]) : inbox'[e][i] = inbox[e][k + i]
  BY RecvTakes
<1>2. Begun(e)
  BY <1>1 DEF AssetFor, Fresh
<1> QED BY <1>1, <1>2, Takes

LEMMA SplitKeepsAsset ==
  ASSUME ShapeInv, NEW e \in Ends, AssetFor(e), SplitRead(e)
  PROVE  AssetFor(e)'
<1>1. /\ pc[e] \in Fixed /\ got[e] = 0 /\ inbox[e] # <<>>
      /\ UNCHANGED <<rigid, pc, silent, sent, file, short, result>>
      /\ inbox'[e] = Tail(inbox[e]) /\ got'[e] = 1
  BY DEF SplitRead, transfer, ShapeInv, OnTheWay
<1>2. inbox[e] \in Seq(Units)
  BY DEF ShapeInv, OnTheWay
<1>3. /\ 1 <= Len(inbox[e]) /\ Len(inbox'[e]) = Len(inbox[e]) - 1
      /\ \A i \in 1..Len(inbox'[e]) : inbox'[e][i] = inbox[e][1 + i]
  <2> DEFINE s == inbox[e]
  <2>1. s \in Seq(Units) /\ s # <<>>
    BY <1>1, <1>2
  <2> HIDE DEF s
  <2>2. /\ Len(s) \in Nat \ {0} /\ Len(Tail(s)) = Len(s) - 1
        /\ \A i \in 1..Len(Tail(s)) : Tail(s)[i] = s[i + 1]
    BY <2>1, HeadTailProperties, EmptySeq, LenProperties
  <2>3. \A i \in 1..Len(Tail(s)) : i + 1 = 1 + i
    BY <2>2
  <2>4. inbox'[e] = Tail(s) /\ s = inbox[e]
    BY <1>1 DEF s
  <2> QED BY <2>2, <2>3, <2>4
<1>4. Begun(e)
  BY <1>1 DEF AssetFor, Fresh
<1>5. CASE pc[e] \in {"command", "args", "status"}
  <2>1. Position(e)' = Position(e) + 1 /\ pc'[e] # "as_recv_asset_file"
    BY <1>1, <1>5 DEF Position
  <2>2. Granted' = Granted /\ pc[e] \in Expecting /\ pc'[Peer(e)] = pc[Peer(e)]
    BY <1>1, <1>5 DEF Granted, Expecting, rigid, result
  <2> QED BY <1>1, <1>3, <1>4, <2>1, <2>2, Takes
<1>6. CASE pc[e] = "aid"
  BY <1>1, <1>4, <1>6 DEF AssetFor, Expecting, Begun
<1> QED BY <1>1, <1>5, <1>6 DEF Fixed

\* A reset destroys what had come from an end that has closed.
LEMMA DiscardKeepsAsset ==
  ASSUME ShapeInv, NEW e \in Ends, AssetFor(e), Discard(e)
  PROVE  AssetFor(e)'
<1>1. /\ inbox[e] # <<>> /\ pc[Peer(e)] = "closed"
      /\ UNCHANGED <<rigid, pc, got, silent, sent, file, short, result>>
      /\ inbox'[e] = <<>>
  BY DEF Discard, IsReset, transfer, ShapeInv, OnTheWay
<1>2. Begun(e) /\ Begun(e)' /\ Granted' = Granted
  BY <1>1 DEF AssetFor, Fresh, Begun, Granted, rigid, result
<1> SUFFICES ASSUME Granted, pc[e] \in Expecting PROVE Aligned(e)'
  BY <1>1, <1>2 DEF AssetFor
<1>3. Aligned(e)
  BY <1>2 DEF AssetFor
<1>4. Position(e)' = Position(e) /\ Reach(e)' = Position(e) + 0
  BY <1>1 DEF Position, Reach
<1>5. Len(inbox[e]) # 0
  <2>1. inbox[e] \in Seq(Units)
    BY DEF ShapeInv, OnTheWay
  <2> QED BY <1>1, <2>1, EmptySeq
<1>6. Position(e) \in Int /\ Len(inbox[e]) \in Nat /\ sent \in Nat
  BY PositionTyped
<1>7. Position(e) <= sent
  BY <1>3, <1>5, <1>6 DEF Aligned, Bounded, Reach
<1>8. Bounded(e)'
  BY <1>1, <1>4, <1>6, <1>7 DEF Bounded
<1>9. InPlace(e)'
  BY <1>1 DEF InPlace
<1>10. pc'[e] = "as_recv_asset_file" => Copied'
  BY <1>1, <1>3 DEF Aligned, Copied, rigid
<1> QED BY <1>8, <1>9, <1>10 DEF Aligned

\* The other end sends the asset, or the LF behind it.
LEMMA Extends ==
  ASSUME ShapeInv, NEW e \in Ends, AssetFor(e),
         pc[Peer(e)] = "as_send_asset_file", pc'[e] = pc[e],
         UNCHANGED <<rigid, file, short>>, Granted' = Granted,
         NEW s \in Seq(Units), Send(Peer(e), s),
         NEW m \in Nat, sent' = m, sent <= m,
         \A i \in 1..Len(s) :
           /\ sent + i \in 1..m => s[i] = Byte(asset[sent + i])
           /\ sent + i = m + 1 => s[i] = LF,
         \/ sent + Len(s) = m
         \/ /\ sent + Len(s) = m + 1 /\ m >= announced
            /\ pc'[Peer(e)] # "as_send_asset_file",
         Begun(e)'
  PROVE  AssetFor(e)'
<1>1. Begun(e)
  BY DEF AssetFor, Fresh
<1> SUFFICES ASSUME Granted, pc[e] \in Expecting PROVE Aligned(e)'
  BY DEF AssetFor
<1>2. Aligned(e)
  BY <1>1 DEF AssetFor
<1> DEFINE n == Len(inbox[e])
           p == Position(e)
<1>3. p \in Int /\ n \in Nat /\ sent \in Nat /\ Len(s) \in Nat /\ announced \in Nat
  BY PositionTyped, LenProperties
<1>4. /\ UNCHANGED <<got, silent>>
      /\ silent => inbox'[e] = inbox[e]
      /\ ~silent => /\ Len(inbox'[e]) = n + Len(s)
                    /\ \A i \in 1..n : inbox'[e][i] = inbox[e][i]
                    /\ \A i \in 1..Len(s) : inbox'[e][n + i] = s[i]
  <2> DEFINE d == Peer(e)
  <2>1. d \in Ends /\ Peer(d) = e /\ Send(d, s)
    BY DEF Peer, Ends
  <2> HIDE DEF d
  <2>2. /\ UNCHANGED <<got, silent>>
        /\ silent => inbox'[Peer(d)] = inbox[Peer(d)]
        /\ ~silent =>
             /\ Len(inbox'[Peer(d)]) = Len(inbox[Peer(d)]) + Len(s)
             /\ \A i \in 1..Len(inbox[Peer(d)]) :
                  inbox'[Peer(d)][i] = inbox[Peer(d)][i]
             /\ \A i \in 1..Len(s) :
                  inbox'[Peer(d)][Len(inbox[Peer(d)]) + i] = s[i]
    BY <2>1, SendAppends
  <2> QED BY <2>1, <2>2
<1>5. Position(e)' = p
  BY <1>4 DEF Position
<1>6. Reach(e) = p + n /\ p + n <= sent /\ (~silent => p + n = sent)
  BY <1>2, <1>3 DEF Aligned, Bounded, Reach
<1>7. \A i \in 1..n : /\ p + i \in 1..sent => inbox[e][i] = Byte(asset[p + i])
                      /\ p + i <= sent
  <2>1. \A i \in 1..n : p + i \in 1..sent => inbox[e][i] = Byte(asset[p + i])
    BY <1>2 DEF Aligned, InPlace
  <2> HIDE DEF p, n
  <2> QED BY <1>3, <1>6, <2>1
<1>8. pc'[e] = "as_recv_asset_file" => Copied'
  <2>1. pc[e] = "as_recv_asset_file" => Copied
    BY <1>2 DEF Aligned
  <2>2. ASSUME pc[e] = "as_recv_asset_file" PROVE Len(file) \in Nat
    BY <2>2 DEF ShapeInv, Stored
  <2> QED BY <1>3, <2>1, <2>2 DEF Copied, rigid
<1>9. CASE silent
  <2>1. Reach(e)' = p + n /\ inbox'[e] = inbox[e] /\ silent'
    BY <1>4, <1>5, <1>9 DEF Reach
  <2> HIDE DEF p, n
  <2>2. p + n <= m
    BY <1>3, <1>6
  <2>3. Bounded(e)'
    BY <2>1, <2>2 DEF Bounded
  <2>4. \A i \in 1..n : /\ p + i \in 1..m => inbox[e][i] = Byte(asset[p + i])
                        /\ p + i # m + 1
    BY <1>3, <1>7
  <2>5. InPlace(e)'
    BY <1>5, <2>1, <2>4 DEF InPlace, n, rigid
  <2> QED BY <1>8, <2>3, <2>5 DEF Aligned
<1>10. CASE ~silent
  <2> DEFINE l == Len(s)
  <2>1. Reach(e)' = p + (n + l) /\ ~silent'
    BY <1>4, <1>5, <1>10 DEF Reach
  <2>2. p + n = sent
    BY <1>6, <1>10
  <2>3. /\ Len(inbox'[e]) = n + l
        /\ \A i \in 1..n : inbox'[e][i] = inbox[e][i]
        /\ \A i \in 1..l : inbox'[e][n + i] = s[i]
    BY <1>4, <1>10
  <2> HIDE DEF p, n
  <2>4. p + (n + l) = sent + l
    BY <1>3, <2>2
  <2>5. Bounded(e)'
    BY <2>1, <2>4 DEF Bounded, rigid
  <2> HIDE DEF l
  <2>6. ASSUME NEW i \in 1..(n + l)
        PROVE  /\ p + i \in 1..m => inbox'[e][i] = Byte(asset[p + i])
               /\ p + i = m + 1 => inbox'[e][i] = LF
    <3>1. CASE i <= n
      <4>1. i \in 1..n
        BY <1>3, <3>1 DEF l
      <4>2. p + i <= sent /\ p + i \in Int
        BY <1>3, <1>7, <4>1
      <4>3. (p + i \in 1..m => p + i \in 1..sent) /\ p + i # m + 1
        BY <1>3, <4>2
      <4> QED BY <1>7, <2>3, <4>1, <4>3
    <3>2. CASE ~(i <= n)
      <4>1. i - n \in 1..l /\ n + (i - n) = i
        BY <1>3, <3>2 DEF l
      <4>2. p + i = sent + (i - n)
        BY <1>3, <2>2, <4>1 DEF l
      <4>3. inbox'[e][i] = s[i - n]
        BY <2>3, <4>1
      <4> QED BY <4>1, <4>2, <4>3 DEF l
    <3> QED BY <3>1, <3>2
  <2>7. InPlace(e)'
    <3>1. asset' = asset /\ Position(e)' = p /\ Len(inbox'[e]) = n + l /\ sent' = m
      BY <1>5, <2>3 DEF rigid
    <3> QED BY <2>6, <3>1 DEF InPlace
  <2> QED BY <1>8, <2>5, <2>7 DEF Aligned
<1> QED BY <1>9, <1>10 DEF ShapeInv, Flags

\* The other end sends what comes before the asset.
LEMMA Begins ==
  ASSUME ShapeInv, NEW e \in Ends, AssetFor(e), ~Begun(e),
         UNCHANGED <<rigid, sent, file, short>>, pc'[e] = pc[e],
         NEW s \in Seq(Units), Send(Peer(e), s), Begun(e)',
         Granted' => Len(s) = 5
  PROVE  AssetFor(e)'
<1>1. Fresh(e)
  BY DEF AssetFor
<1> SUFFICES ASSUME Granted', pc'[e] \in Expecting PROVE Aligned(e)'
  BY DEF AssetFor
<1>2. /\ UNCHANGED <<got, silent>>
      /\ Len(inbox'[e]) \in {0, 5}
      /\ ~silent => Len(inbox'[e]) = 5
  <2> DEFINE d == Peer(e)
  <2>1. d \in Ends /\ Peer(d) = e /\ Send(d, s)
    BY DEF Peer, Ends
  <2> HIDE DEF d
  <2>2. /\ UNCHANGED <<got, silent>>
        /\ silent => inbox'[Peer(d)] = inbox[Peer(d)]
        /\ ~silent => Len(inbox'[Peer(d)]) = Len(inbox[Peer(d)]) + Len(s)
    BY <2>1, SendAppends
  <2>3. Len(inbox[e]) = 0 /\ Len(s) = 5
    BY <1>1 DEF Fresh, Granted
  <2>4. CASE silent
    BY <2>1, <2>2, <2>3, <2>4
  <2>5. CASE ~silent
    BY <2>1, <2>2, <2>3, <2>5
  <2> QED BY <2>2, <2>4, <2>5
<1>3. Position(e)' = -5 /\ sent' = 0 /\ pc'[e] # "as_recv_asset_file"
  BY <1>1, <1>2 DEF Fresh, FreshPoints, Expecting, Position
<1>4. Reach(e)' \in {-5, 0} /\ (~silent' => Reach(e)' = 0)
  <2>1. Reach(e)' = -5 + Len(inbox'[e])
    BY <1>3 DEF Reach
  <2> QED BY <1>2, <2>1
<1>5. Bounded(e)'
  BY <1>3, <1>4 DEF Bounded
<1>6. InPlace(e)'
  <2>1. \A i \in 1..5 : -5 + i \notin 1..0 /\ -5 + i # 0 + 1
    OBVIOUS
  <2>2. \A i \in 1..0 : FALSE
    OBVIOUS
  <2>3. \A i \in 1..Len(inbox'[e]) : i \in 1..5
    BY <1>2, <2>2
  <2> QED BY <1>3, <2>1, <2>3 DEF InPlace
<1> QED BY <1>3, <1>5, <1>6 DEF Aligned

LEMMA SendsAsset ==
  ASSUME ShapeInv, NEW e \in Ends, AssetFor(e), SendBytes(Peer(e))
  PROVE  AssetFor(e)'
<1> DEFINE d == Peer(e)
<1>1. d \in Ends /\ Peer(d) = e /\ d # e
  BY DEF Peer, Ends
<1>2. UNCHANGED <<rigid, pc, file, short, result>> /\ pc[d] = "as_send_asset_file"
  BY DEF SendBytes
<1>3. Begun(e) /\ Begun(e)'
  BY <1>2 DEF AssetFor, Fresh, Begun
<1> DEFINE s == SubSeq(Bytes(asset), sent + 1, sent')
           m == sent'
<1>4. /\ m \in (sent + 1)..Len(asset) /\ s \in Seq(Units) /\ Len(s) = m - sent
      /\ \A i \in 1..(m - sent) : s[i] = Byte(asset[sent + i])
      /\ Send(d, s)
  <2> SUFFICES ASSUME NEW x \in Ends, x = d
               PROVE /\ sent' \in (sent + 1)..Len(asset)
                     /\ s \in Seq(Units) /\ Len(s) = sent' - sent
                     /\ \A i \in 1..(sent' - sent) : s[i] = Byte(asset[sent + i])
                     /\ Send(x, s)
    BY <1>1
  <2>1. SendBytes(x)
    OBVIOUS
  <2> QED BY <2>1, SendingKeepsShape
<1>5. sent \in Nat /\ Len(asset) \in Nat
  BY PositionTyped
<1> HIDE DEF s, m, d
<1>6. m \in Nat /\ sent <= m /\ sent + Len(s) = m
  BY <1>4, <1>5
<1>7. \A i \in 1..Len(s) : sent + i # m + 1 /\ i \in 1..(m - sent)
  BY <1>4, <1>5, <1>6
<1>8. Granted' = Granted /\ sent' = m
  BY <1>2 DEF Granted, rigid, result, m
<1>9. \A i \in 1..Len(s) :
        /\ sent + i \in 1..m => s[i] = Byte(asset[sent + i])
        /\ sent + i = m + 1 => s[i] = LF
  BY <1>4, <1>7
<1> QED BY <1>2, <1>3, <1>4, <1>6, <1>8, <1>9, Extends DEF d

LEMMA SendsEnd ==
  ASSUME ShapeInv, NEW e \in Ends, AssetFor(e), SendLF(Peer(e))
  PROVE  AssetFor(e)'
<1> DEFINE d == Peer(e)
           s == <<LF>>
           m == sent
<1>1. d \in Ends /\ Peer(d) = e /\ d # e
  BY DEF Peer, Ends
<1>2. /\ UNCHANGED <<rigid, sent, file, short, result>>
      /\ pc[d] = "as_send_asset_file" /\ sent >= announced /\ Send(d, s)
      /\ Goto(d, IF d = "client" THEN "command" ELSE "closed")
  BY DEF SendLF, transfer
<1>3. /\ pc'[e] = pc[e] /\ pc'[d] # "as_send_asset_file" /\ Begun(e)'
      /\ Begun(e)
  BY <1>1, <1>2 DEF ShapeInv, Goto, Ends, Begun, Peer, Unanswered, Undecided,
    AssetFor, Fresh
<1>4. s \in Seq(Units) /\ Len(s) = 1 /\ s[1] = LF
  BY SpecialUnits
<1>5. sent \in Nat
  BY PositionTyped
<1>6. Granted' = Granted
  BY <1>2 DEF Granted, rigid, result
<1>7. \A i \in 1..Len(s) :
        /\ sent + i \in 1..m => s[i] = Byte(asset[sent + i])
        /\ sent + i = m + 1 => s[i] = LF
  <2>1. \A i \in 1..1 : i = 1 /\ sent + i \notin 1..m
    BY <1>5
  <2> HIDE DEF s, m
  <2> QED BY <1>4, <2>1
<1> HIDE DEF s
<1>8. sent + Len(s) = m + 1 /\ m >= announced /\ sent <= m /\ m \in Nat
  BY <1>2, <1>4, <1>5
<1> HIDE DEF m
<1>9. sent' = m
  BY <1>2 DEF m
<1> QED BY <1>2, <1>3, <1>4, <1>6, <1>7, <1>8, <1>9, Extends

\* What e takes of an asset is the next of it.
LEMMA NextPiece ==
  ASSUME ShapeInv, NEW e \in Ends, AssetFor(e), Granted,
         pc[e] = "as_recv_asset_file", NEW k \in Nat, k <= Len(inbox[e])
  PROVE  /\ Begun(e) /\ Copied
         /\ file \in Seq(Units) /\ Len(file) \in Nat /\ sent \in Nat
         /\ announced \in Nat
         /\ Len(file) + k <= sent \/ (Len(file) + k = sent + 1 /\ sent >= announced)
         /\ \A i \in 1..k : Len(file) + i <= sent =>
              inbox[e][i] = Byte(asset[Len(file) + i])
<1>1. Begun(e) /\ Aligned(e)
  BY DEF AssetFor, Fresh, FreshPoints, Expecting
<1>2. Position(e) = Len(file)
  BY DEF Position
<1>3. /\ Len(inbox[e]) \in Nat /\ sent \in Nat /\ announced \in Nat
      /\ Len(file) \in Nat /\ file \in Seq(Units)
  BY PositionTyped DEF ShapeInv, Stored
<1>4. Len(file) + Len(inbox[e]) <= sent
        \/ (Len(file) + Len(inbox[e]) = sent + 1 /\ sent >= announced)
  BY <1>1, <1>2 DEF Aligned, Bounded, Reach
<1>5. Len(file) + k <= sent \/ (Len(file) + k = sent + 1 /\ sent >= announced)
  BY <1>3, <1>4
<1>6. \A i \in 1..Len(inbox[e]) : Len(file) + i \in 1..sent =>
        inbox[e][i] = Byte(asset[Len(file) + i])
  BY <1>1, <1>2 DEF Aligned, InPlace
<1>7. \A i \in 1..k : Len(file) + i <= sent =>
        inbox[e][i] = Byte(asset[Len(file) + i])
  <2> TAKE i \in 1..k
  <2>1. i \in 1..Len(inbox[e]) /\ (Len(file) + i <= sent => Len(file) + i \in 1..sent)
    BY <1>3
  <2> QED BY <1>6, <2>1
<1> QED BY <1>1, <1>3, <1>5, <1>7 DEF Aligned

LEMMA ReceivesAsset ==
  ASSUME ShapeInv, NEW e \in Ends, AssetFor(e), ReceiveBytes(e)
  PROVE  AssetFor(e)'
<1>1. /\ UNCHANGED <<rigid, pc, sent, result>>
      /\ pc[e] = "as_recv_asset_file"
  BY DEF ReceiveBytes
<1>2. Begun(e) /\ Begun(e)' /\ Granted' = Granted
  BY <1>1 DEF AssetFor, Fresh, FreshPoints, Begun, Granted, rigid, result
<1>3. CASE ~Granted
  BY <1>2, <1>3 DEF AssetFor
<1>4. CASE Granted
  <2>1. PICK piece \in Pieces(e) :
          /\ Len(file) + Len(piece) <= announced
          /\ Recv(e, Len(piece))
          /\ Write(piece)
    BY DEF ReceiveBytes
  <2> DEFINE k == Len(piece)
             n == Len(file)
  <2>2. /\ piece \in Seq(Units) /\ k \in Nat \ {0} /\ k <= Len(inbox[e])
        /\ \A i \in 1..k : piece[i] = inbox[e][i]
    BY PieceTaken
  <2>3. /\ Copied
        /\ file \in Seq(Units) /\ n \in Nat /\ sent \in Nat
        /\ announced \in Nat
        /\ n + k <= sent \/ (n + k = sent + 1 /\ sent >= announced)
        /\ \A i \in 1..k : n + i <= sent => inbox[e][i] = Byte(asset[n + i])
    BY <1>1, <1>4, <2>2, NextPiece
  <2>4. /\ Len(file') = n + k
        /\ ~short' =>
             /\ ~short
             /\ \A i \in 1..n : file'[i] = file[i]
             /\ \A i \in 1..k : file'[n + i] = piece[i]
    BY <1>1, <2>1, <2>2, <2>3, WriteAppends
  <2> HIDE DEF k, n
  <2>5. n + k <= sent
    BY <2>1, <2>2, <2>3 DEF k, n
  <2>6. ASSUME ~short', NEW i \in 1..(n + k) PROVE file'[i] = Byte(asset[i])
    <3>1. CASE i <= n
      <4>1. i \in 1..n
        BY <2>2, <2>3, <3>1
      <4> QED BY <2>3, <2>4, <2>6, <4>1 DEF Copied, n
    <3>2. CASE ~(i <= n)
      <4>1. i - n \in 1..k /\ n + (i - n) = i /\ i <= sent
        BY <2>2, <2>3, <2>5, <3>2
      <4>2. file'[i] = piece[i - n]
        BY <2>4, <2>6, <4>1
      <4>3. piece[i - n] = inbox[e][i - n]
        BY <2>2, <4>1
      <4> QED BY <2>3, <4>1, <4>2, <4>3
    <3> QED BY <3>1, <3>2
  <2>7. Copied'
    <3>1. UNCHANGED <<sent, asset>>
      BY <1>1 DEF rigid
    <3> QED BY <2>4, <2>5, <2>6, <3>1 DEF Copied
  <2>8. Position(e)' = Position(e) + k
    BY <1>1, <2>4 DEF Position, n
  <2>9. Recv(e, k) /\ pc[e] \in Expecting
    BY <1>1, <2>1 DEF k, Expecting
  <2> QED BY <1>1, <1>2, <2>2, <2>7, <2>8, <2>9, TakesBefore
<1> QED BY <1>3, <1>4

\* The file that an end accepts
LEMMA AcceptedIntact ==
  ASSUME ShapeInv, NEW e \in Ends, AssetFor(e), Granted, ReceiveLast(e)
  PROVE  /\ Len(file') = announced'
         /\ ~short' => file' = Bytes(SubSeq(asset, 1, announced))'
<1>1. UNCHANGED rigid /\ pc[e] = "as_recv_asset_file"
  BY DEF ReceiveLast
<1>2. PICK piece \in Pieces(e) :
        /\ Complete(piece)
        /\ Write(SubSeq(piece, 1, Len(piece) - 1))
  BY DEF ReceiveLast
<1> DEFINE k == Len(piece)
           n == Len(file)
<1>3. k \in Nat \ {0} /\ k <= Len(inbox[e])
  BY PieceTaken
<1>4. /\ Copied
      /\ n \in Nat /\ sent \in Nat /\ announced \in Nat
      /\ n + k <= sent \/ (n + k = sent + 1 /\ sent >= announced)
      /\ \A i \in 1..k : n + i <= sent => inbox[e][i] = Byte(asset[n + i])
  BY <1>1, <1>3, NextPiece
<1>5. /\ file' \in Seq(Units) /\ Len(file') = announced
      /\ ~short' =>
           /\ ~short
           /\ \A i \in 1..n : file'[i] = file[i]
           /\ \A i \in 1..(k - 1) : file'[n + i] = inbox[e][i]
  BY <1>1, <1>2, LastPiece
<1>6. n + k = announced + 1
  BY <1>2 DEF Complete
<1> HIDE DEF k, n
<1>7. announced <= sent
  BY <1>3, <1>4, <1>6
<1>8. ASSUME ~short', NEW i \in 1..announced PROVE file'[i] = Byte(asset[i])
  <2>1. CASE i <= n
    <3>1. i \in 1..n
      BY <1>4, <2>1
    <3> QED BY <1>4, <1>5, <1>8, <3>1 DEF Copied, n
  <2>2. CASE ~(i <= n)
    <3>1. i - n \in 1..(k - 1) /\ i - n \in 1..k /\ n + (i - n) = i /\ i <= sent
      BY <1>3, <1>4, <1>6, <1>7, <2>2
    <3> QED BY <1>4, <1>5, <1>8, <3>1
  <2> QED BY <2>1, <2>2
<1>9. ASSUME ~short' PROVE file' = Bytes(SubSeq(asset, 1, announced))
  <2>1. /\ Len(SubSeq(asset, 1, announced)) = announced
        /\ \A i \in 1..announced : SubSeq(asset, 1, announced)[i] = asset[i]
    BY <1>4
  <2>2. Bytes(SubSeq(asset, 1, announced))
          = [i \in 1..announced |-> Byte(asset[i])]
    BY <2>1 DEF Bytes
  <2>3. file' = [i \in 1..Len(file') |-> file'[i]]
    BY <1>5
  <2> QED BY <1>5, <1>8, <1>9, <2>2, <2>3
<1>10. asset' = asset /\ announced' = announced
  BY <1>1 DEF rigid
<1> QED BY <1>5, <1>9, <1>10

\* e goes on to where it waits for what comes before the asset.
LEMMA Waits ==
  ASSUME ShapeInv, NEW e \in Ends, AssetFor(e), Untouched(e), UNCHANGED silent,
         pc[e] \in {"request", "queued"}, pc'[e] = "command",
         pc'[Peer(e)] = pc[Peer(e)], Granted' = Granted
  PROVE  AssetFor(e)'
<1>1. CASE ~Begun(e)
  BY <1>1, FreshStays DEF AssetFor, Fresh, FreshPoints
<1>2. CASE Begun(e)
  <2>1. Position(e)' = Position(e) /\ pc[e] \in Expecting
    BY DEF Position, Untouched, Expecting
  <2>2. Position(e) \in Int /\ Len(inbox[e]) \in Nat
    BY PositionTyped
  <2>3. /\ Position(e)' = Position(e) + 0
        /\ 0 <= Len(inbox[e]) /\ Len(inbox'[e]) = Len(inbox[e]) - 0
    BY <2>1, <2>2 DEF Untouched
  <2>4. \A i \in 1..Len(inbox'[e]) : inbox'[e][i] = inbox[e][0 + i]
    <3>1. \A i \in Int : 0 + i = i
      OBVIOUS
    <3> QED BY <3>1 DEF Untouched
  <2>5. pc'[e] # "as_recv_asset_file"
    OBVIOUS
  <2> QED BY <1>2, <2>1, <2>3, <2>4, <2>5, Takes DEF Untouched
<1> QED BY <1>1, <1>2

-----------------------------------------------------------------------------
\* What is on its way to e is no more than it was.
Shrinks(e) ==
  \A i \in 1..Len(inbox'[e]) :
    \E j \in 1..Len(inbox[e]) : inbox'[e][i] = inbox[e][j]

LEMMA RecvShrinks ==
  ASSUME ShapeInv, UNCHANGED rigid, NEW e \in Ends, NEW k \in Nat, Recv(e, k)
  PROVE  Shrinks(e)
<1>1. /\ k <= Len(inbox[e]) /\ Len(inbox[e]) \in Nat
      /\ Len(inbox'[e]) = Len(inbox[e]) - k
      /\ \A i \in 1..Len(inbox'[e]) : inbox'[e][i] = inbox[e][k + i]
  BY RecvTakes
<1>2. \A n \in Nat : \A i \in 1..(n - k) : k + i \in 1..n
  OBVIOUS
<1>3. \A i \in 1..Len(inbox'[e]) : k + i \in 1..Len(inbox[e])
  BY <1>1, <1>2
<1> QED BY <1>1, <1>3 DEF Shrinks

LEMMA SameShrinks ==
  ASSUME NEW e, inbox'[e] = inbox[e] PROVE Shrinks(e)
BY DEF Shrinks

\* A step of the client, or of the network, and what it does to the properties
\* that are not about one asset on its way
LEMMA ClientKeepsRest ==
  ASSUME AssetInv, UNCHANGED <<rigid, status, committed>>,
         op = "SAS" => Shrinks("client"),
         pc'["server"] = pc["server"],
         op = "SAS" /\ status # "OK" =>
           \/ UNCHANGED pc
           \/ pc'["client"] \notin {"varargs", "as_recv_asset_file"},
         op = "SAS" /\ pc'["client"] = "lf" => told' # "OK",
         pc'["client"] \in {"as_send_asset_file", "aid"} => op = "OPA",
         outcome' = "success" => pc'["client"] = "closed",
         outcome' = "success" /\ op = "SAS" => AssetIntact',
         op = "OPA" /\ committed => UNCHANGED <<file, short>>
  PROVE  Refused' /\ Ended' /\ AssetIntact'
<1>1. Refused'
  BY DEF AssetInv, Refused, Shrinks, rigid
<1>2. Ended'
  BY DEF Ended, rigid
<1>3. AssetIntact'
  BY DEF AssetInv, AssetIntact, rigid
<1> QED BY <1>1, <1>2, <1>3

\* A step of the server
LEMMA ServerKeepsRest ==
  ASSUME AssetInv, UNCHANGED <<rigid, told, outcome>>,
         pc'["client"] = pc["client"],
         op = "SAS" /\ status' # "OK" =>
           /\ pc'["server"] # "as_send_asset_file"
           /\ pc["client"] \notin {"varargs", "as_recv_asset_file"}
           /\ \A i \in 1..Len(inbox'["client"]) : inbox'["client"][i][2] # "OK",
         op = "OPA" /\ committed' => AssetIntact',
         op = "SAS" => UNCHANGED <<file, short>>
  PROVE  Refused' /\ Ended' /\ AssetIntact'
<1>1. Refused'
  BY DEF Refused, rigid
<1>2. Ended'
  BY DEF AssetInv, Ended, rigid
<1>3. AssetIntact'
  BY DEF AssetInv, AssetIntact, rigid
<1> QED BY <1>1, <1>2, <1>3

\* A step of the client that sends no asset and takes none
LEMMA ClientLeavesServer ==
  ASSUME AssetInv, ShapeInv, UNCHANGED <<rigid, status>>,
         op = "OPA" => UNCHANGED <<sent, file, short>>,
         inbox'["server"] = inbox["server"], got'["server"] = got["server"],
         silent => silent', pc'["server"] = pc["server"],
         pc'["client"] \notin {"connect", "request", "as_send_asset_file"}
  PROVE  Carries("server")' => AssetFor("server")'
<1> SUFFICES ASSUME op = "OPA" PROVE AssetFor("server")'
  BY DEF Carries, rigid
<1>1. AssetFor("server") /\ "server" \in Ends /\ Peer("server") = "client"
  BY DEF AssetInv, Carries, Ends, Peer
<1>2. Untouched("server")
  BY DEF Untouched
<1>3. Begun("server")' /\ Granted' = Granted
  BY DEF Begun, Granted, rigid
<1> QED BY <1>1, <1>2, <1>3, PeerMoves

\* A step of the server that sends no asset and takes none
LEMMA ServerLeavesClient ==
  ASSUME AssetInv, ShapeInv, UNCHANGED rigid,
         op = "SAS" => UNCHANGED <<sent, file, short>>,
         inbox'["client"] = inbox["client"], got'["client"] = got["client"],
         silent => silent', pc'["client"] = pc["client"],
         pc'["server"] # "as_send_asset_file",
         pc["server"] \notin Unanswered =>
           pc'["server"] \notin Unanswered /\ UNCHANGED status
  PROVE  Carries("client")' => AssetFor("client")'
<1> SUFFICES ASSUME op = "SAS" PROVE AssetFor("client")'
  BY DEF Carries, rigid
<1>1. AssetFor("client") /\ "client" \in Ends /\ Peer("client") = "server"
  BY DEF AssetInv, Carries, Ends, Peer
<1>2. Untouched("client")
  BY DEF Untouched
<1>3. Begun("client") => Begun("client")' /\ Granted' = Granted
  BY DEF Begun, Granted, rigid
<1> QED BY <1>1, <1>2, <1>3, PeerMoves

LEMMA MessageLengths ==
  ASSUME ShapeInv
  PROVE  /\ op = "OPA" => Len(Request) = 5
         /\ op = "SAS" /\ status = "OK" => Len(Answer) = 5
         /\ op = "SAS" /\ status \in Statuses \ {"OK"} =>
              \A i \in 1..Len(Answer) : Answer[i][2] # "OK"
<1>1. op \in Ops
  BY DEF ShapeInv, Given
<1>2. CASE op = "OPA"
  <2>1. Request = <<Unit("command", op), Unit("command", op)>>
                    \o <<Unit("args", op), Unit("args", op)>>
                    \o <<Unit("varargs", op)>>
    BY <1>2 DEF Request, Field
  <2> QED BY <1>2, <2>1
<1>3. CASE op = "SAS" /\ status = "OK"
  <2>1. Answer = <<Unit("command", op), Unit("command", op)>>
                   \o <<Unit("status", status), Unit("status", status)>>
                   \o <<Unit("varargs", op)>>
    BY <1>3 DEF Answer, Field
  <2> QED BY <1>3, <2>1
<1>4. CASE op = "SAS" /\ status \in Statuses \ {"OK"}
  <2> DEFINE T == {u \in Units : u[2] # "OK"}
  <2>1. Unit("command", status) \in T /\ Unit("command", op) \in T
        /\ Unit("status", status) \in T /\ LF \in T
    BY <1>1, <1>4, FieldUnits, SpecialUnits DEF Unit, LF, Byte
  <2>2. CASE status = "unnamed ERR"
    <3>1. Answer = <<Unit("command", status), Unit("command", status)>>
      BY <2>2 DEF Answer, Field
    <3> QED BY <1>4, <2>1, <3>1
  <2>3. CASE status # "unnamed ERR"
    <3>1. Answer = <<Unit("command", op), Unit("command", op)>>
                     \o <<Unit("status", status), Unit("status", status)>>
                     \o <<LF>>
      BY <1>4, <2>3 DEF Answer, Field
    <3> HIDE DEF T
    <3>2. \A u, v, w \in T : <<u, u>> \o <<v, v>> \o <<w>> \in Seq(T)
      OBVIOUS
    <3>3. Answer \in Seq(T)
      BY <2>1, <3>1, <3>2
    <3>4. \A i \in 1..Len(Answer) : Answer[i] \in T
      BY <3>3, ElementOfSeq
    <3> QED BY <1>4, <3>4 DEF T
  <2> QED BY <2>2, <2>3
<1> QED BY <1>2, <1>3, <1>4

LEMMA ClientStartKeepsAsset ==
  ASSUME ShapeInv, OrderInv, AssetInv, Connect \/ ConnectFails \/ SendRequest
  PROVE  AssetInv'
<1> USE DEF Ends
<1>1. Peer("client") = "server" /\ Peer("server") = "client"
  BY DEF Peer
<1>2. CASE Connect
  <2>1. /\ UNCHANGED <<rigid, inbox, got, silent, sent, file, short, result>>
        /\ pc["client"] = "connect" /\ pc["server"] = "listening"
        /\ pc'["client"] = "request" /\ pc'["server"] = "queued"
    BY <1>2 DEF Connect, network, transfer, OrderInv, Places
  <2>2. \A e \in Ends : ~Begun(e) /\ Untouched(e)
    BY <2>1 DEF Begun, Unanswered, Undecided, Untouched
  <2>3. \A e \in Ends : pc'[e] \in FreshPoints /\ pc'[Peer(e)] # "as_send_asset_file"
    BY <1>1, <2>1 DEF FreshPoints
  <2>4. ASSUME NEW e \in Ends, Carries(e)' PROVE AssetFor(e)'
    <3>1. AssetFor(e)
      BY <2>1, <2>4 DEF AssetInv, Carries, rigid
    <3> QED BY <2>2, <2>3, <3>1, FreshStays
  <2>5. Refused' /\ Ended' /\ AssetIntact'
    BY <2>1 DEF AssetInv, Refused, Ended, AssetIntact, rigid, result
  <2> QED BY <2>4, <2>5 DEF AssetInv
<1>3. CASE ConnectFails
  <2>1. /\ UNCHANGED <<rigid, inbox, got, silent, sent, file, short, told>>
        /\ UNCHANGED <<status, committed, dbFailed>>
        /\ outcome' = "error" /\ pc'["client"] = "closed"
        /\ pc'["server"] = pc["server"]
    BY <1>3 DEF ConnectFails, Tell, Goto, network, transfer, ShapeInv
  <2>2. Carries("server")' => AssetFor("server")'
    BY <2>1, ClientLeavesServer
  <2>3. Carries("client")' => AssetFor("client")'
    BY <1>1, <2>1, Stops DEF AssetInv, Carries, Untouched, rigid
  <2>4. Refused' /\ Ended' /\ AssetIntact'
    BY <2>1, SameShrinks, ClientKeepsRest
  <2> QED BY <2>2, <2>3, <2>4 DEF AssetInv
<1>4. CASE SendRequest
  <2>1. /\ UNCHANGED <<rigid, sent, file, short, result>>
        /\ pc["client"] = "request" /\ Send("client", Request)
        /\ pc'["client"] = (IF op = "OPA" THEN "as_send_asset_file" ELSE "command")
        /\ pc'["server"] = pc["server"]
    BY <1>4 DEF SendRequest, Goto, transfer, ShapeInv
  <2>2. /\ Request \in Seq(Units)
        /\ op = "OPA" => Len(Request) = 5
    BY MessagesTyped, MessageLengths
  <2>3. inbox'["client"] = inbox["client"] /\ UNCHANGED <<got, silent>>
    BY <2>1, <2>2, SendAppends
  <2>4. ASSUME Carries("server")' PROVE AssetFor("server")'
    <3>1. op = "OPA" /\ AssetFor("server")
      BY <2>1, <2>4 DEF AssetInv, Carries, rigid
    <3>2. ~Begun("server") /\ Begun("server")'
      BY <2>1, <3>1 DEF Begun
    <3> QED BY <1>1, <2>1, <2>2, <3>1, <3>2, Begins
  <2>5. ASSUME Carries("client")' PROVE AssetFor("client")'
    <3>1. op = "SAS" /\ AssetFor("client")
      BY <2>1, <2>5 DEF AssetInv, Carries, rigid
    <3>2. Untouched("client") /\ Granted' = Granted
      BY <2>1, <2>3 DEF Untouched, Granted, rigid, result
    <3> QED BY <1>1, <2>1, <2>3, <3>1, <3>2, Waits
  <2>6. Refused' /\ Ended' /\ AssetIntact'
    <3>1. outcome # "success"
      BY <2>1 DEF AssetInv, Ended
    <3> QED BY <2>1, <2>3, <3>1, SameShrinks, ClientKeepsRest DEF result
  <2> QED BY <2>4, <2>5, <2>6 DEF AssetInv
<1> QED BY <1>2, <1>3, <1>4

\* What the client reads leaves what is on its way to the server.
LEMMA ClientReadEffect ==
  ASSUME ShapeInv, UNCHANGED rigid, NEW k \in Nat, Recv("client", k)
  PROVE  /\ Shrinks("client") /\ got'["client"] = 0 /\ UNCHANGED silent
         /\ inbox'["server"] = inbox["server"] /\ got'["server"] = got["server"]
<1>1. "client" \in Ends /\ Peer("client") = "server"
  BY DEF Ends, Peer
<1> QED BY <1>1, RecvTakes, RecvShrinks

\* Nothing has come to a client whose server has not answered.
LEMMA ReadMeansBegun ==
  ASSUME ShapeInv, NEW e \in Ends, AssetFor(e), UNCHANGED rigid,
         NEW k \in Nat \ {0}, Recv(e, k)
  PROVE  Begun(e)
<1>1. k <= Len(inbox[e])
  BY RecvTakes
<1> QED BY <1>1 DEF AssetFor, Fresh

LEMMA ClientReadsKeepAsset ==
  ASSUME ShapeInv, OrderInv, AssetInv,
         \/ ReadCommandOfAnswer \/ ReadStatus \/ ReadAid \/ ReadLF \/ ReadAssetInfo
  PROVE  AssetInv'
<1> USE DEF Ends
<1>1. Peer("client") = "server" /\ got["client"] \in {0, 1}
  BY DEF Peer, ShapeInv, OnTheWay
\* The client reads k units and goes to p, or reads them in vain.
<1>2. ASSUME UNCHANGED <<rigid, sent, short, status, committed>>,
             NEW k \in Nat \ {0}, Recv("client", k),
             NEW p, pc'["client"] = p, pc'["server"] = pc["server"],
             p \notin {"connect", "request", "as_send_asset_file"},
             op = "OPA" => UNCHANGED file,
             p = "aid" => op = "OPA",
             op = "SAS" /\ p # "closed" =>
               \/ p = "lf" /\ told' # "OK"
               \/ /\ pc["client"] \in Expecting
                  /\ Position("client")' = Position("client") + k
                  /\ p = "as_recv_asset_file" => Copied'
                  /\ p # "lf"
                  /\ status # "OK" => p \notin {"varargs", "as_recv_asset_file"},
             outcome' = "success" => p = "closed" /\ op # "SAS"
      PROVE  AssetInv'
  <2>1. /\ Shrinks("client") /\ UNCHANGED silent
        /\ inbox'["server"] = inbox["server"] /\ got'["server"] = got["server"]
    BY <1>2, ClientReadEffect
  <2>2. Carries("server")' => AssetFor("server")'
    BY <1>2, <2>1, ClientLeavesServer
  <2>3. ASSUME Carries("client")' PROVE AssetFor("client")'
    <3>1. op = "SAS" /\ AssetFor("client")
      BY <1>2, <2>3 DEF AssetInv, Carries, rigid
    <3>2. Begun("client") /\ Begun("client")' /\ Granted' = Granted
      BY <1>2, <3>1, ReadMeansBegun DEF Begun, Granted, rigid
    <3>3. CASE p \in {"closed", "lf"}
      BY <1>2, <3>2, <3>3 DEF AssetFor, Expecting
    <3>4. CASE p \notin {"closed", "lf"}
      BY <1>1, <1>2, <3>1, <3>2, <3>4, TakesBefore
    <3> QED BY <3>3, <3>4
  <2>4. op = "SAS" /\ status # "OK" => p \notin {"varargs", "as_recv_asset_file"}
    BY <1>2
  <2>5. op = "SAS" /\ p = "lf" => told' # "OK"
    BY <1>2
  <2>6. Refused' /\ Ended' /\ AssetIntact'
    BY <1>2, <2>1, <2>4, <2>5, ClientKeepsRest
  <2> QED BY <2>2, <2>3, <2>6 DEF AssetInv
<1>3. 2 - got["client"] \in Nat \ {0}
  BY <1>1
<1>4. ASSUME NEW p, Goto("client", p)
      PROVE  pc'["client"] = p /\ pc'["server"] = pc["server"]
  BY <1>4 DEF ShapeInv, Goto
<1>5. \A s \in {"OK", "NOK", "ERR"} :
        op = "SAS" /\ Says(s) /\ ReadField("client", "status") /\ s = "OK" => status = "OK"
  <2> SUFFICES ASSUME op = "SAS", Reads("client", "OK"), ReadField("client", "status"),
                      status # "OK"
               PROVE  FALSE
    BY DEF Says
  <2>1. Head(inbox["client"])[2] = "OK" /\ 2 <= Len(inbox["client"])
    BY DEF Reads, ReadField, Recv
  <2>2. inbox["client"] \in Seq(Units)
    BY DEF ShapeInv, OnTheWay
  <2>3. Head(inbox["client"]) = inbox["client"][1] /\ 1 \in 1..Len(inbox["client"])
    BY <2>1, <2>2
  <2> QED BY <2>1, <2>3 DEF AssetInv, Refused
<1>6. CASE ReadCommandOfAnswer
  <2>1. /\ UNCHANGED <<rigid, sent, file, short, status, committed>>
        /\ pc["client"] = "command" /\ Recv("client", 2 - got["client"])
        /\ \/ pc'["client"] = "closed" /\ outcome' = "error"
           \/ pc'["client"] = "status" /\ UNCHANGED outcome
        /\ pc'["server"] = pc["server"]
    BY <1>4, <1>6 DEF ReadCommandOfAnswer, ReadField, UnknownAnswer, Tell, transfer
  <2>2. got'["client"] = 0 /\ outcome # "success"
    BY <1>3, <2>1, ClientReadEffect DEF AssetInv, Ended
  <2>3. pc'["client"] = "status" =>
          /\ Position("client")' = Position("client") + (2 - got["client"])
          /\ pc["client"] \in Expecting
    BY <1>1, <2>1, <2>2 DEF Position, Expecting
  <2> QED BY <1>2, <1>3, <2>1, <2>2, <2>3
<1>7. CASE ReadStatus
  <2>1. /\ UNCHANGED <<rigid, sent, file, short>>
        /\ pc["client"] = "status" /\ Recv("client", 2 - got["client"])
        /\ ReadField("client", "status")
    BY <1>7 DEF ReadStatus, ReadField, transfer
  <2>2. got'["client"] = 0 /\ outcome # "success"
    BY <1>3, <2>1, ClientReadEffect DEF AssetInv, Ended
  <2>3. pc'["client"] = "varargs" =>
          /\ Position("client")' = Position("client") + (2 - got["client"])
          /\ pc["client"] \in Expecting
    BY <1>1, <2>1, <2>2 DEF Position, Expecting
  <2>4. CASE UnknownAnswer
    <3>1. /\ UNCHANGED <<status, committed, dbFailed>> /\ outcome' = "error"
          /\ pc'["client"] = "closed" /\ pc'["server"] = pc["server"]
      BY <1>4, <2>4 DEF UnknownAnswer, Tell
    <3> QED BY <1>2, <1>3, <2>1, <3>1
  <2>5. ASSUME NEW s \in Statuses, Says(s), told' = s,
          CASE s = "OK" /\ op \in {"CLS", "BID"} -> Tell("success")
            [] s # "OK" /\ op = "BID" -> Tell("refused")
            [] OTHER ->
                 /\ Goto("client", IF s # "OK" THEN "lf"
                                   ELSE IF op = "OPA" THEN "aid"
                                   ELSE "varargs")
                 /\ UNCHANGED <<status, outcome, committed, dbFailed>>
        PROVE AssetInv'
    <3>1. CASE op \notin {"SAS", "OPA"}
      <4>1. /\ UNCHANGED <<status, committed, dbFailed>>
            /\ outcome' = "success" => pc'["client"] = "closed"
            /\ pc'["server"] = pc["server"]
            /\ pc'["client"] \in {"closed", "lf"}
        BY <1>4, <2>2, <2>5, <3>1 DEF Tell, ShapeInv, Given, Ops
      <4> QED BY <1>2, <1>3, <2>1, <3>1, <4>1
    <3>2. CASE op \in {"SAS", "OPA"}
      <4>1. /\ Goto("client", IF s # "OK" THEN "lf"
                              ELSE IF op = "OPA" THEN "aid"
                              ELSE "varargs")
            /\ UNCHANGED <<status, outcome, committed, dbFailed>>
        BY <2>5, <3>2
      <4>2. /\ pc'["client"] = (IF s # "OK" THEN "lf"
                                ELSE IF op = "OPA" THEN "aid"
                                ELSE "varargs")
            /\ pc'["server"] = pc["server"]
        BY <1>4, <4>1
      <4>3. op = "SAS" /\ s = "OK" => status = "OK"
        BY <1>5, <2>1, <2>5
      <4>4. op = "SAS" => \/ pc'["client"] = "varargs" /\ status = "OK"
                          \/ pc'["client"] = "lf" /\ told' # "OK"
        BY <2>5, <4>2, <4>3
      <4>5. pc'["client"] \in {"lf", "aid", "varargs"}
        BY <4>2
      <4> QED BY <1>2, <1>3, <2>1, <2>2, <2>3, <4>1, <4>2, <4>4, <4>5
    <3> QED BY <3>1, <3>2
  <2> QED BY <1>7, <2>4, <2>5 DEF ReadStatus
<1>8. CASE ReadAid
  <2>1. /\ UNCHANGED <<rigid, sent, file, short, status, committed, told>>
        /\ pc["client"] = "aid" /\ Recv("client", 2 - got["client"])
        /\ \/ pc'["client"] = "closed" /\ outcome' = "error"
           \/ pc'["client"] = "lf" /\ UNCHANGED outcome
        /\ pc'["server"] = pc["server"]
    BY <1>4, <1>8 DEF ReadAid, ReadField, UnknownAnswer, Tell, transfer
  <2>2. outcome # "success" /\ op # "SAS"
    BY <2>1 DEF AssetInv, Ended
  <2> QED BY <1>2, <1>3, <2>1, <2>2
<1>9. CASE ReadLF
  <2>1. /\ UNCHANGED <<rigid, sent, file, short, status, committed, told>>
        /\ pc["client"] = "lf" /\ Recv("client", 1)
        /\ \/ outcome' = "error"
           \/ outcome' = IF told = "OK" THEN "success" ELSE "refused"
        /\ pc'["client"] = "closed" /\ pc'["server"] = pc["server"]
    BY <1>4, <1>9 DEF ReadLF, UnknownAnswer, Tell, transfer
  <2>2. op = "SAS" => told # "OK"
    BY <2>1 DEF AssetInv, Ended
  <2> QED BY <1>2, <2>1, <2>2
<1>10. CASE ReadAssetInfo
  <2>1. /\ UNCHANGED <<rigid, sent, short, status, committed>>
        /\ pc["client"] = "varargs" /\ Recv("client", 1) /\ op = "SAS"
        /\ \/ /\ pc'["client"] = "as_recv_asset_file" /\ file' = <<>>
              /\ UNCHANGED outcome
           \/ pc'["client"] = "closed" /\ outcome' = "error"
        /\ pc'["server"] = pc["server"]
    BY <1>4, <1>10 DEF ReadAssetInfo, Tell, result, OrderInv, Places
  <2>2. status = "OK" /\ outcome # "success"
    BY <2>1 DEF AssetInv, Refused, Ended
  <2>3. pc'["client"] = "as_recv_asset_file" =>
          /\ Copied' /\ pc["client"] \in Expecting
          /\ Position("client")' = Position("client") + 1
    <3>1. Len(<<>>) = 0 /\ sent \in Nat
      BY PositionTyped
    <3> QED BY <2>1, <3>1 DEF Position, Expecting, Copied
  <2> QED BY <1>2, <2>1, <2>2, <2>3
<1> QED BY <1>6, <1>7, <1>8, <1>9, <1>10

LEMMA NothingSentYet ==
  ASSUME AssetInv, op = "SAS", pc["server"] \in Unanswered
  PROVE  /\ Len(inbox["client"]) = 0 /\ inbox["client"] = <<>>
         /\ pc["client"] \notin {"varargs", "as_recv_asset_file"}
<1>1. AssetFor("client") /\ ~Begun("client")
  BY DEF AssetInv, Carries, Ends, Begun
<1>2. Fresh("client")
  BY <1>1 DEF AssetFor
<1> QED BY <1>2 DEF Fresh, FreshPoints

\* A server that has not answered decides, closes or goes on, and a server that
\* has answered stays silent: the part of ServerKeepsRest about a refusal
LEMMA ServerStaysRefusing ==
  ASSUME AssetInv, UNCHANGED op, inbox'["client"] = inbox["client"],
         pc["server"] \in Unanswered \/ UNCHANGED status,
         op = "SAS" /\ status' # "OK" => pc'["server"] # "as_send_asset_file"
  PROVE  op = "SAS" /\ status' # "OK" =>
           /\ pc'["server"] # "as_send_asset_file"
           /\ pc["client"] \notin {"varargs", "as_recv_asset_file"}
           /\ \A i \in 1..Len(inbox'["client"]) : inbox'["client"][i][2] # "OK"
<1> SUFFICES ASSUME op = "SAS", status' # "OK"
             PROVE  /\ pc["client"] \notin {"varargs", "as_recv_asset_file"}
                    /\ \A i \in 1..Len(inbox["client"]) : inbox["client"][i][2] # "OK"
  OBVIOUS
<1>1. CASE pc["server"] \in Unanswered
  <2>1. \A i \in 1..0 : FALSE
    OBVIOUS
  <2> QED BY <1>1, <2>1, NothingSentYet
<1>2. CASE UNCHANGED status
  BY <1>2 DEF AssetInv, Refused
<1> QED BY <1>1, <1>2

\* What the network has done, when e fails or has read
ReadsOnly(e) ==
  /\ UNCHANGED silent /\ Shrinks(e)
  /\ inbox'[Peer(e)] = inbox[Peer(e)] /\ got'[Peer(e)] = got[Peer(e)]
  /\ inbox[e] = <<>> => inbox'[e] = inbox[e] /\ got'[e] = got[e]

LEMMA GivingUpKeepsAsset ==
  ASSUME ShapeInv, OrderInv, AssetInv, NEW e \in Ends, GiveUp(e), ReadsOnly(e)
  PROVE  AssetInv'
<1> USE DEF Ends
<1>1. Peer("client") = "server" /\ Peer("server") = "client"
  BY DEF Peer
<1>2. UNCHANGED <<rigid, sent, short>>
  BY DEF GiveUp
<1>3. CASE e = "client"
  <2>1. /\ UNCHANGED <<file, told, status, committed>>
        /\ outcome' = "error" /\ pc'["client"] = "closed"
        /\ pc'["server"] = pc["server"]
    BY <1>3 DEF GiveUp, Tell, Goto, ShapeInv
  <2>2. Carries("server")' => AssetFor("server")'
    BY <1>1, <1>2, <1>3, <2>1, ClientLeavesServer DEF ReadsOnly
  <2>3. ASSUME Carries("client")' PROVE AssetFor("client")'
    <3>1. AssetFor("client")
      BY <1>2, <2>3 DEF AssetInv, Carries, rigid
    <3>2. ~Begun("client") => Untouched("client")
      BY <1>2, <1>3, <2>1, <3>1 DEF AssetFor, Fresh, Untouched, ReadsOnly
    <3> QED BY <1>1, <2>1, <3>1, <3>2, Stops
  <2>4. Refused' /\ Ended' /\ AssetIntact'
    BY <1>2, <1>3, <2>1, ClientKeepsRest DEF ReadsOnly
  <2> QED BY <2>2, <2>3, <2>4 DEF AssetInv
<1>4. CASE e = "server"
  <2>1. /\ UNCHANGED <<told, outcome, committed>>
        /\ pc["server"] # "as_recv_asset_file" => UNCHANGED file
        /\ \/ /\ pc'["server"] = "closed" /\ UNCHANGED status
              /\ pc["server"] \in Sending \cup {"args", "varargs"}
           \/ /\ pc'["server"] = "answer"
              /\ pc["server"] \in {"command", "args", "varargs", "as_recv_asset_file"}
        /\ pc'["client"] = pc["client"]
    BY <1>4 DEF GiveUp, Hangup, Decide, Goto, ShapeInv, result
  <2>2. /\ pc["server"] \in {"answer", "as_send_asset_file"} \cup Undecided
        /\ pc["server"] = "as_recv_asset_file" => op = "OPA" /\ ~committed
    BY <2>1 DEF OrderInv, Places, Decision, Sending, Undecided, Unanswered
  <2>3. ASSUME Carries("server")' PROVE AssetFor("server")'
    <3>1. AssetFor("server")
      BY <1>2, <2>3 DEF AssetInv, Carries, rigid
    <3>2. ~Begun("server") => Untouched("server")
      BY <1>2, <1>4, <2>1, <3>1 DEF AssetFor, Fresh, FreshPoints, Untouched, ReadsOnly
    <3> QED BY <1>1, <2>1, <3>1, <3>2, Stops
  <2>4. op = "SAS" => UNCHANGED file
    BY <2>1, <2>2
  <2>5. pc["server"] \notin Unanswered =>
          pc'["server"] \notin Unanswered /\ UNCHANGED status
    BY <2>1, <2>2 DEF Unanswered, Undecided
  <2>6. Carries("client")' => AssetFor("client")'
    BY <1>1, <1>2, <1>4, <2>1, <2>4, <2>5, ServerLeavesClient DEF ReadsOnly
  <2>7. op = "OPA" /\ committed' => AssetIntact'
    BY <1>2, <2>1, <2>2 DEF AssetInv, AssetIntact, rigid
  <2>8. op = "SAS" /\ status' # "OK" =>
          /\ pc'["server"] # "as_send_asset_file"
          /\ pc["client"] \notin {"varargs", "as_recv_asset_file"}
          /\ \A i \in 1..Len(inbox'["client"]) : inbox'["client"][i][2] # "OK"
    BY <1>1, <1>2, <1>4, <2>1, <2>5, ServerStaysRefusing DEF ReadsOnly, rigid
  <2>9. Refused' /\ Ended' /\ AssetIntact'
    BY <1>2, <2>1, <2>4, <2>7, <2>8, ServerKeepsRest
  <2> QED BY <2>3, <2>6, <2>9 DEF AssetInv
<1> QED BY <1>3, <1>4

LEMMA SendingKeepsAsset ==
  ASSUME ShapeInv, OrderInv, AssetInv, NEW e \in Ends, SendBytes(e) \/ SendLF(e)
  PROVE  AssetInv'
<1> USE DEF Ends
<1>1. Peer("client") = "server" /\ Peer("server") = "client"
  BY DEF Peer
<1>2. /\ UNCHANGED <<rigid, file, short, result>> /\ pc[e] = "as_send_asset_file"
      /\ \/ UNCHANGED pc
         \/ Goto(e, IF e = "client" THEN "command" ELSE "closed")
  BY DEF SendBytes, SendLF, transfer
<1>3. op = (IF e = "client" THEN "OPA" ELSE "SAS")
  BY <1>2 DEF AssetInv, Ended, OrderInv, Places
<1>4. ASSUME NEW d \in Ends, Carries(d)' PROVE AssetFor(d)'
  <2>1. Carries(d) /\ d = Peer(e)
    BY <1>2, <1>3, <1>4 DEF Carries, rigid, Peer
  <2>2. AssetFor(d) /\ (SendBytes(Peer(d)) \/ SendLF(Peer(d)))
    BY <1>1, <2>1 DEF AssetInv
  <2> QED BY <2>2, SendsAsset, SendsEnd
<1>5. Refused'
  BY <1>2, <1>3 DEF AssetInv, Refused, rigid, result
<1>6. Ended'
  <2>1. CASE UNCHANGED pc
    BY <1>2, <2>1 DEF AssetInv, Ended, rigid, result
  <2>2. CASE e = "client" /\ Goto(e, "command")
    <3>1. pc["client"] # "closed" /\ pc'["client"] = "command"
      BY <1>2, <2>2 DEF Goto, ShapeInv
    <3> QED BY <1>2, <3>1 DEF AssetInv, Ended, rigid, result
  <2>3. CASE e = "server" /\ Goto(e, "closed")
    <3>1. pc'["client"] = pc["client"]
      BY <2>3 DEF Goto, ShapeInv
    <3> QED BY <1>2, <3>1 DEF AssetInv, Ended, rigid, result
  <2> QED BY <1>2, <2>1, <2>2, <2>3
<1>7. AssetIntact'
  BY <1>2 DEF AssetInv, AssetIntact, rigid, result
<1> QED BY <1>4, <1>5, <1>6, <1>7 DEF AssetInv

LEMMA ReceivingKeepsAsset ==
  ASSUME ShapeInv, OrderInv, AssetInv, NEW e \in Ends, ReceiveBytes(e)
  PROVE  AssetInv'
<1> USE DEF Ends
<1>1. Peer("client") = "server" /\ Peer("server") = "client"
  BY DEF Peer
<1>2. UNCHANGED <<rigid, pc, sent, result>> /\ pc[e] = "as_recv_asset_file"
  BY DEF ReceiveBytes
<1>3. /\ op = (IF e = "client" THEN "SAS" ELSE "OPA")
      /\ e = "server" => ~committed
      /\ e = "client" => outcome # "success"
  BY <1>2 DEF AssetInv, Ended, OrderInv, Places, Decision, Undecided
<1>4. ASSUME NEW d \in Ends, Carries(d)' PROVE AssetFor(d)'
  <2>1. Carries(d) /\ d = e
    BY <1>2, <1>3, <1>4 DEF Carries, rigid
  <2>2. AssetFor(d)
    BY <2>1 DEF AssetInv
  <2> QED BY <2>1, <2>2, ReceivesAsset
<1>5. Refused'
  BY <1>2, <1>3 DEF AssetInv, Refused, rigid, result
<1>6. Ended'
  BY <1>2 DEF AssetInv, Ended, rigid, result
<1>7. AssetIntact'
  BY <1>2, <1>3 DEF AssetIntact, rigid, result
<1> QED BY <1>4, <1>5, <1>6, <1>7 DEF AssetInv

LEMMA ReceivingLastKeepsAsset ==
  ASSUME ShapeInv, OrderInv, AssetInv, NEW e \in Ends, ReceiveLast(e)
  PROVE  AssetInv'
<1> USE DEF Ends
<1>1. Peer("client") = "server" /\ Peer("server") = "client"
  BY DEF Peer
<1>2. /\ UNCHANGED <<rigid, sent>> /\ pc[e] = "as_recv_asset_file"
      /\ e = "client" =>
           /\ UNCHANGED <<status, told, committed>>
           /\ pc'["client"] = "closed" /\ pc'["server"] = pc["server"]
      /\ e = "server" =>
           /\ UNCHANGED <<told, outcome>>
           /\ pc'["server"] = "answer" /\ pc'["client"] = pc["client"]
  BY DEF ReceiveLast, Tell, Decide, Goto, ShapeInv
<1>3. /\ op = (IF e = "client" THEN "SAS" ELSE "OPA")
      /\ op = "SAS" => status = "OK"
  BY <1>2 DEF AssetInv, Refused, OrderInv, Places
<1>4. Carries(e) /\ AssetFor(e) /\ Granted
  BY <1>3 DEF AssetInv, Carries, Granted
<1>5. Begun(e)
  BY <1>2, <1>4 DEF AssetFor, Fresh, FreshPoints
<1>6. ASSUME NEW d \in Ends, Carries(d)' PROVE AssetFor(d)'
  <2>1. d = e
    BY <1>2, <1>3, <1>6 DEF Carries, rigid
  <2>2. pc'[e] \in {"answer", "closed"} /\ pc'[Peer(e)] = pc[Peer(e)]
    BY <1>1, <1>2
  <2> QED BY <1>4, <1>5, <2>1, <2>2, Stops
<1>7. AssetIntact'
  BY <1>4, AcceptedIntact DEF AssetIntact
<1>8. Refused'
  BY <1>2, <1>3 DEF Refused, rigid
<1>9. Ended'
  <2>1. e = "server" => pc["client"] = "closed" \/ outcome # "success"
    BY DEF AssetInv, Ended
  <2> QED BY <1>2, <1>3, <2>1 DEF AssetInv, Ended, rigid
<1> QED BY <1>6, <1>7, <1>8, <1>9 DEF AssetInv

\* An end that has read a piece in vain
LEMMA PieceReadsOnly ==
  ASSUME ShapeInv, UNCHANGED rigid, NEW e \in Ends,
         NEW piece \in Pieces(e), Recv(e, Len(piece))
  PROVE  ReadsOnly(e)
<1>1. Len(piece) \in Nat \ {0} /\ Len(piece) <= Len(inbox[e])
  BY PieceTaken
<1> DEFINE k == Len(piece)
<1> HIDE DEF k
<1>2. k \in Nat /\ Recv(e, k)
  BY <1>1 DEF k
<1>3. /\ UNCHANGED silent
      /\ inbox'[Peer(e)] = inbox[Peer(e)] /\ got'[Peer(e)] = got[Peer(e)]
  BY <1>2, RecvTakes
<1>4. Shrinks(e)
  BY <1>2, RecvShrinks
<1>5. inbox[e] # <<>>
  BY <1>1
<1> QED BY <1>3, <1>4, <1>5 DEF ReadsOnly

LEMMA TransferKeepsAsset ==
  ASSUME ShapeInv, OrderInv, AssetInv, NEW e \in Ends, Transfer(e)
  PROVE  AssetInv'
<1>1. ASSUME GiveUp(e), UNCHANGED network PROVE AssetInv'
  <2>1. ReadsOnly(e)
    BY <1>1, SameShrinks DEF ReadsOnly, network
  <2> QED BY <1>1, <2>1, GivingUpKeepsAsset
<1>2. ASSUME GiveUp(e), NEW piece \in Pieces(e), Recv(e, Len(piece))
      PROVE  AssetInv'
  <2>1. UNCHANGED rigid
    BY <1>2 DEF GiveUp
  <2>2. ReadsOnly(e)
    BY <1>2, <2>1, PieceReadsOnly
  <2> QED BY <1>2, <2>2, GivingUpKeepsAsset
<1>3. CASE SendBytes(e) \/ SendLF(e)
  BY <1>3, SendingKeepsAsset
<1>4. CASE FileTooShort(e)
  BY <1>1, <1>4 DEF FileTooShort
<1>5. CASE ReceiveBytes(e)
  BY <1>5, ReceivingKeepsAsset
<1>6. CASE ReceiveLast(e)
  BY <1>6, ReceivingLastKeepsAsset
<1>7. CASE ReceiveBad(e)
  BY <1>2, <1>7 DEF ReceiveBad
<1>8. CASE ReceiveFails(e)
  BY <1>2, <1>8 DEF ReceiveFails
<1> QED BY <1>3, <1>4, <1>5, <1>6, <1>7, <1>8 DEF Transfer

LEMMA FailKeepsAsset ==
  ASSUME ShapeInv, OrderInv, AssetInv, NEW e \in Ends, Fail(e)
  PROVE  AssetInv'
<1>1. GiveUp(e) /\ UNCHANGED network
  BY DEF Fail
<1>2. ReadsOnly(e)
  BY <1>1, SameShrinks DEF ReadsOnly, network
<1> QED BY <1>1, <1>2, GivingUpKeepsAsset

\* A step of the network that leaves e where it is
LEMMA Remains ==
  ASSUME NEW e \in Ends, AssetFor(e), Untouched(e), UNCHANGED <<pc, result>>
  PROVE  AssetFor(e)'
<1>1. Begun(e)' = Begun(e) /\ Granted' = Granted
  BY DEF Begun, Granted, Untouched, rigid, result
<1>2. Fresh(e) => Fresh(e)'
  BY DEF Fresh, Untouched
<1>3. Position(e)' = Position(e) /\ Reach(e)' = Reach(e)
  BY DEF Position, Reach, Untouched
<1>4. Aligned(e) => Aligned(e)'
  BY <1>3 DEF Aligned, Bounded, InPlace, Copied, Untouched, rigid
<1> QED BY <1>1, <1>2, <1>4 DEF AssetFor

LEMMA NetworkKeepsAsset ==
  ASSUME ShapeInv, OrderInv, AssetInv, Network
  PROVE  AssetInv'
<1> USE DEF Ends
<1>1. ASSUME UNCHANGED <<rigid, pc, transfer, result>>,
             \A e \in Ends : Shrinks(e),
             \A e \in Ends : AssetFor(e) => AssetFor(e)'
      PROVE  AssetInv'
  <2>1. \A e \in Ends : Carries(e)' => AssetFor(e)'
    BY <1>1 DEF AssetInv, Carries, rigid
  <2>2. Refused'
    BY <1>1 DEF AssetInv, Refused, Shrinks, rigid, result
  <2>3. Ended' /\ AssetIntact'
    BY <1>1 DEF AssetInv, Ended, AssetIntact, rigid, result, transfer
  <2> QED BY <2>1, <2>2, <2>3 DEF AssetInv
<1>2. CASE FallSilent
  <2>1. UNCHANGED <<rigid, pc, inbox, got, transfer, result>> /\ silent'
    BY <1>2 DEF FallSilent
  <2>2. \A e \in Ends : Untouched(e) /\ Shrinks(e)
    BY <2>1, SameShrinks DEF Untouched, transfer
  <2>3. \A e \in Ends : AssetFor(e) => AssetFor(e)'
    BY <2>1, <2>2, Remains
  <2> QED BY <1>1, <2>1, <2>2, <2>3
<1>3. ASSUME NEW e \in Ends, Discard(e) \/ SplitRead(e) PROVE AssetInv'
  <2>1. /\ UNCHANGED <<rigid, pc, silent, transfer, result>>
        /\ \A d \in Ends : d # e => inbox'[d] = inbox[d] /\ got'[d] = got[d]
        /\ inbox'[e] = <<>> \/ (inbox[e] # <<>> /\ inbox'[e] = Tail(inbox[e]))
    BY <1>3 DEF Discard, SplitRead, ShapeInv, OnTheWay
  <2>2. Shrinks(e)
    <3>1. CASE inbox'[e] = <<>>
      <4>1. \A i \in 1..0 : FALSE
        OBVIOUS
      <4> QED BY <3>1, <4>1 DEF Shrinks
    <3>2. CASE inbox[e] # <<>> /\ inbox'[e] = Tail(inbox[e])
      <4>1. inbox[e] \in Seq(Units)
        BY DEF ShapeInv, OnTheWay
      <4>2. \A s \in Seq(Units) : s # <<>> =>
              \A i \in 1..Len(Tail(s)) : i + 1 \in 1..Len(s) /\ Tail(s)[i] = s[i + 1]
        <5> TAKE s \in Seq(Units)
        <5> HAVE s # <<>>
        <5>1. Len(s) \in Nat \ {0} /\ Len(Tail(s)) = Len(s) - 1
          BY EmptySeq, HeadTailProperties, LenProperties
        <5>2. \A i \in 1..Len(Tail(s)) : Tail(s)[i] = s[i + 1]
          BY HeadTailProperties
        <5> QED BY <5>1, <5>2
      <4> QED BY <3>2, <4>1, <4>2 DEF Shrinks
    <3> QED BY <2>1, <3>1, <3>2
  <2>3. \A d \in Ends : Shrinks(d)
    BY <2>1, <2>2, SameShrinks
  <2>4. ASSUME NEW d \in Ends, AssetFor(d) PROVE AssetFor(d)'
    <3>1. CASE d = e
      BY <1>3, <2>4, <3>1, DiscardKeepsAsset, SplitKeepsAsset
    <3>2. CASE d # e
      BY <2>1, <2>4, <3>2, Remains DEF Untouched, transfer
    <3> QED BY <3>1, <3>2
  <2> QED BY <1>1, <2>1, <2>3, <2>4
<1> QED BY <1>2, <1>3 DEF Network

-----------------------------------------------------------------------------
\* A step of the server other than those of Transfer and Fail: it goes to p, and
\* sends nothing.
LEMMA ServerStepKeepsAsset ==
  ASSUME ShapeInv, OrderInv, AssetInv,
         UNCHANGED <<rigid, sent, short, silent, told, outcome>>,
         inbox'["client"] = inbox["client"], got'["client"] = got["client"],
         pc'["client"] = pc["client"], pc'["server"] # "as_send_asset_file",
         op = "SAS" => UNCHANGED file,
         op = "OPA" => UNCHANGED committed /\ (committed => UNCHANGED file),
         pc["server"] \notin Unanswered =>
           pc'["server"] \notin Unanswered /\ UNCHANGED status,
         op = "OPA" => AssetFor("server")'
  PROVE  AssetInv'
<1>1. Carries("server")' => AssetFor("server")'
  BY DEF Carries, rigid
<1>2. Carries("client")' => AssetFor("client")'
  BY ServerLeavesClient
<1>3. op = "SAS" /\ status' # "OK" =>
        /\ pc'["server"] # "as_send_asset_file"
        /\ pc["client"] \notin {"varargs", "as_recv_asset_file"}
        /\ \A i \in 1..Len(inbox'["client"]) : inbox'["client"][i][2] # "OK"
  BY ServerStaysRefusing DEF rigid
<1>4. op = "OPA" /\ committed' => AssetIntact'
  BY DEF AssetInv, AssetIntact, rigid
<1>5. Refused' /\ Ended' /\ AssetIntact'
  BY <1>3, <1>4, ServerKeepsRest
<1> QED BY <1>1, <1>2, <1>5 DEF AssetInv, Ends

LEMMA ServerReadsKeepAsset ==
  ASSUME ShapeInv, OrderInv, AssetInv, ReadCommand \/ ReadArgs \/ ReadVarargs
  PROVE  AssetInv'
<1> USE DEF Ends
<1>1. /\ Peer("client") = "server" /\ Peer("server") = "client"
      /\ got["server"] \in {0, 1}
  BY DEF Peer, ShapeInv, OnTheWay
\* The server reads k units and goes to p, or decides.
<1>2. ASSUME UNCHANGED <<rigid, sent, file, short, told, outcome, committed>>,
             pc["server"] \in {"command", "args", "varargs"},
             NEW k \in Nat \ {0}, Recv("server", k),
             NEW p, pc'["server"] = p, pc'["client"] = pc["client"],
             p \in {"answer", "args", "varargs", "database"},
             p # "answer" => UNCHANGED status,
             op = "OPA" /\ p # "answer" =>
               Position("server")' = Position("server") + k
      PROVE  AssetInv'
  <2>1. /\ UNCHANGED silent
        /\ inbox'["client"] = inbox["client"] /\ got'["client"] = got["client"]
    BY <1>1, <1>2, RecvTakes
  <2>2. ASSUME op = "OPA" PROVE AssetFor("server")'
    <3>1. AssetFor("server")
      BY <2>2 DEF AssetInv, Carries
    <3>2. CASE p = "answer"
      <4>1. Begun("server")
        BY <1>2, <3>1, ReadMeansBegun
      <4> QED BY <1>1, <1>2, <3>1, <3>2, <4>1, Stops
    <3>3. CASE p # "answer"
      <4>1. pc["server"] \in Expecting /\ p # "as_recv_asset_file"
        BY <1>2 DEF Expecting
      <4>2. Granted' = Granted
        BY <1>2, <3>3 DEF Granted, rigid
      <4> QED BY <1>1, <1>2, <2>2, <3>1, <3>3, <4>1, <4>2, TakesBefore
    <3> QED BY <3>2, <3>3
  <2>3. pc["server"] \in Unanswered /\ p # "as_send_asset_file"
    BY <1>2 DEF Unanswered, Undecided
  <2> QED BY <1>2, <2>1, <2>2, <2>3, ServerStepKeepsAsset
<1>3. 2 - got["server"] \in Nat \ {0}
  BY <1>1
<1>4. ASSUME NEW p, Goto("server", p)
      PROVE  pc'["server"] = p /\ pc'["client"] = pc["client"]
  BY <1>4 DEF ShapeInv, Goto
<1>5. op \in Ops
  BY DEF ShapeInv, Given
<1>6. CASE ReadCommand
  <2>1. /\ UNCHANGED <<rigid, sent, file, short, told, outcome, committed>>
        /\ pc["server"] = "command" /\ Recv("server", 2 - got["server"])
        /\ \/ pc'["server"] = "args" /\ UNCHANGED status
           \/ pc'["server"] = "answer"
        /\ pc'["client"] = pc["client"]
    BY <1>4, <1>6 DEF ReadCommand, ReadField, Decide, transfer, result
  <2>2. got'["server"] = 0
    BY <1>3, <2>1, RecvTakes
  <2>3. pc'["server"] = "args" =>
          Position("server")' = Position("server") + (2 - got["server"])
    BY <1>1, <2>1, <2>2 DEF Position
  <2> QED BY <1>2, <1>3, <2>1, <2>3
<1>7. CASE ReadArgs
  <2>1. /\ UNCHANGED <<rigid, sent, file, short, told, outcome, committed>>
        /\ pc["server"] = "args" /\ Recv("server", 2 - got["server"])
        /\ \/ /\ pc'["server"] = IF op \in {"OPA", "BID"} THEN "varargs" ELSE "database"
              /\ UNCHANGED status
           \/ pc'["server"] = "answer"
        /\ pc'["client"] = pc["client"]
    BY <1>4, <1>7 DEF ReadArgs, ReadField, Decide, transfer, result
  <2>2. op = "OPA" /\ pc'["server"] # "answer" =>
          Position("server")' = Position("server") + (2 - got["server"])
    BY <1>1, <2>1 DEF Position
  <2> QED BY <1>2, <1>3, <2>1, <2>2
<1>8. CASE ReadVarargs
  <2>1. /\ UNCHANGED <<rigid, sent, file, short, told, outcome, committed>>
        /\ pc["server"] = "varargs"
        /\ \/ pc'["server"] = "database" /\ UNCHANGED status
           \/ pc'["server"] = "answer"
        /\ pc'["client"] = pc["client"]
    BY <1>4, <1>8 DEF ReadVarargs, Decide, transfer, result
  <2>2. PICK k \in IF op = "BID" THEN {1, 2} ELSE {1} : Recv("server", k)
    BY <1>8 DEF ReadVarargs
  <2>3. k \in Nat \ {0} /\ (op = "OPA" => k = 1)
    BY <2>2
  <2>4. op = "OPA" /\ pc'["server"] # "answer" =>
          Position("server")' = Position("server") + k
    BY <2>1, <2>3 DEF Position
  <2> QED BY <1>2, <2>1, <2>2, <2>3, <2>4
<1> QED BY <1>6, <1>7, <1>8

LEMMA SendAnswerKeepsAsset ==
  ASSUME ShapeInv, OrderInv, AssetInv, SendAnswer
  PROVE  AssetInv'
<1> USE DEF Ends
<1>1. Peer("client") = "server" /\ Peer("server") = "client"
  BY DEF Peer
<1> DEFINE p == IF op = "SAS" /\ status = "OK" THEN "as_send_asset_file" ELSE "closed"
<1>2. /\ UNCHANGED <<rigid, sent, file, short, result>>
      /\ pc["server"] = "answer" /\ Send("server", Answer)
      /\ pc'["server"] = p /\ pc'["client"] = pc["client"]
      /\ status \in Statuses
  BY DEF SendAnswer, Goto, transfer, ShapeInv, OrderInv, Decision
<1>3. Answer \in Seq(Units)
  BY <1>2, MessagesTyped
<1>4. inbox'["server"] = inbox["server"] /\ UNCHANGED <<got, silent>>
  BY <1>1, <1>2, <1>3, SendAppends
<1>5. ASSUME Carries("server")' PROVE AssetFor("server")'
  <2>1. op = "OPA" /\ AssetFor("server")
    BY <1>2, <1>5 DEF AssetInv, Carries, rigid
  <2>2. Untouched("server") /\ p = "closed"
    BY <1>2, <1>4, <2>1 DEF Untouched
  <2> QED BY <1>1, <1>2, <2>1, <2>2, Stops
<1>6. ASSUME Carries("client")' PROVE AssetFor("client")'
  <2>1. op = "SAS" /\ AssetFor("client")
    BY <1>2, <1>6 DEF AssetInv, Carries, rigid
  <2>2. ~Begun("client") /\ Begun("client")'
    BY <1>2 DEF Begun, Unanswered, Undecided
  <2>3. Granted' => Len(Answer) = 5
    BY <1>2, <2>1, MessageLengths DEF Granted, rigid, result
  <2> QED BY <1>1, <1>2, <1>3, <2>1, <2>2, <2>3, Begins
<1>7. ASSUME op = "SAS", status' # "OK"
      PROVE  /\ pc'["server"] # "as_send_asset_file"
             /\ pc["client"] \notin {"varargs", "as_recv_asset_file"}
             /\ \A i \in 1..Len(inbox'["client"]) : inbox'["client"][i][2] # "OK"
  <2>1. status \in Statuses \ {"OK"} /\ p = "closed"
    BY <1>2, <1>7 DEF result
  <2>2. /\ inbox["client"] = <<>>
        /\ pc["client"] \notin {"varargs", "as_recv_asset_file"}
    BY <1>2, <1>7, NothingSentYet DEF Unanswered
  <2>3. inbox'["client"] \in {<<>>, Answer}
    <3>1. inbox \in [Ends -> Seq(Units)]
      BY DEF ShapeInv, OnTheWay
    <3>2. <<>> \o Answer = Answer
      BY <1>3
    <3> QED BY <1>1, <1>2, <2>2, <3>1, <3>2 DEF Send
  <2>4. \A i \in 1..Len(inbox'["client"]) : inbox'["client"][i][2] # "OK"
    <3>1. \A i \in 1..Len(Answer) : Answer[i][2] # "OK"
      BY <1>7, <2>1, MessageLengths
    <3>2. \A i \in 1..Len(<<>>) : FALSE
      OBVIOUS
    <3> QED BY <2>3, <3>1, <3>2
  <2> QED BY <1>2, <2>1, <2>2, <2>4
<1>8. op = "OPA" /\ committed' => AssetIntact'
  BY <1>2 DEF AssetInv, AssetIntact, rigid, result
<1>9. Refused' /\ Ended' /\ AssetIntact'
  <2>1. UNCHANGED <<rigid, told, outcome>>
    BY <1>2 DEF result
  <2> HIDE DEF p
  <2> QED BY <1>2, <1>7, <1>8, <2>1, ServerKeepsRest
<1> QED BY <1>5, <1>6, <1>9 DEF AssetInv

LEMMA WorkerKeepsAsset ==
  ASSUME ShapeInv, OrderInv, AssetInv, Worker \/ Kill
  PROVE  AssetInv'
<1> USE DEF Ends
<1>1. Peer("client") = "server" /\ Peer("server") = "client"
  BY DEF Peer
<1>2. op = "OPA" => AssetFor("server")
  BY DEF AssetInv, Carries
<1>3. ASSUME NEW p, Goto("server", p)
      PROVE  pc'["server"] = p /\ pc'["client"] = pc["client"]
  BY <1>3 DEF ShapeInv, Goto
<1>4. CASE Dequeue
  <2>1. /\ UNCHANGED <<rigid, inbox, got, silent, sent, file, short, result>>
        /\ pc["server"] = "queued" /\ pc'["server"] = "command"
        /\ pc'["client"] = pc["client"]
    BY <1>3, <1>4 DEF Dequeue, network, transfer
  <2>2. Untouched("server") /\ Granted' = Granted
    BY <2>1 DEF Untouched, Granted, rigid, result
  <2>3. op = "OPA" => AssetFor("server")'
    BY <1>1, <1>2, <2>1, <2>2, Waits
  <2>4. pc["server"] \in Unanswered
    BY <2>1 DEF Unanswered, Undecided
  <2> QED BY <2>1, <2>3, <2>4, ServerStepKeepsAsset DEF result
<1>5. CASE ReadCommand \/ ReadArgs \/ ReadVarargs
  BY <1>5, ServerReadsKeepAsset
<1>6. CASE UseDatabase
  <2>1. /\ UNCHANGED <<rigid, inbox, got, silent, sent, short, told, outcome>>
        /\ pc["server"] = "database" /\ pc'["client"] = pc["client"]
        /\ op = "SAS" => UNCHANGED file
        /\ op = "OPA" => UNCHANGED committed
        /\ \/ pc'["server"] = "answer" /\ UNCHANGED file
           \/ op = "OPA" /\ file' = <<>> /\ pc'["server"] = "as_recv_asset_file"
    BY <1>3, <1>6 DEF UseDatabase, WriteFails, Decide, network, result
  <2>2. pc["server"] \in Unanswered /\ ~committed
    BY <2>1 DEF OrderInv, Decision, Unanswered, Undecided
  <2>3. ASSUME op = "OPA" PROVE AssetFor("server")'
    <3>1. AssetFor("server")
      BY <1>2, <2>3
    <3>2. Begun("server")
      BY <2>1, <3>1 DEF AssetFor, Fresh, FreshPoints
    <3>3. CASE pc'["server"] = "answer"
      BY <1>1, <2>1, <3>1, <3>2, <3>3, Stops
    <3>4. CASE file' = <<>> /\ pc'["server"] = "as_recv_asset_file"
      <4>1. Len(<<>>) = 0 /\ sent \in Nat /\ Len(inbox["server"]) \in Nat
        BY PositionTyped
      <4>2. Copied'
        BY <2>1, <3>4, <4>1 DEF Copied
      <4>3. Position("server")' = Position("server") + 0
        BY <2>1, <3>4, <4>1 DEF Position
      <4>4. /\ 0 <= Len(inbox["server"])
            /\ Len(inbox'["server"]) = Len(inbox["server"]) - 0
        BY <2>1, <4>1
      <4>5. \A i \in 1..Len(inbox'["server"]) : inbox'["server"][i] = inbox["server"][0 + i]
        <5>1. \A i \in Int : 0 + i = i
          OBVIOUS
        <5> QED BY <2>1, <5>1
      <4>6. pc["server"] \in Expecting /\ Granted' = Granted
        BY <2>1, <2>3 DEF Expecting, Granted, rigid
      <4> QED BY <1>1, <2>1, <3>1, <3>2, <4>2, <4>3, <4>4, <4>5, <4>6, Takes
    <3> QED BY <2>1, <3>3, <3>4
  <2>4. pc'["server"] # "as_send_asset_file"
    BY <2>1
  <2> QED BY <2>1, <2>2, <2>3, <2>4, ServerStepKeepsAsset
<1>7. CASE SendAnswer
  BY <1>7, SendAnswerKeepsAsset
<1>8. CASE Transfer("server") \/ Fail("server")
  BY <1>8, TransferKeepsAsset, FailKeepsAsset
<1>9. CASE Kill
  <2>1. /\ UNCHANGED <<rigid, inbox, got, silent, sent, file, short, result>>
        /\ pc'["server"] = "closed" /\ pc'["client"] = pc["client"]
    BY <1>3, <1>9 DEF Kill, network, transfer
  <2>2. op = "OPA" => AssetFor("server")'
    BY <1>1, <1>2, <2>1, Stops DEF Untouched
  <2>3. pc'["server"] \notin Unanswered
    BY <2>1 DEF Unanswered, Undecided
  <2> QED BY <2>1, <2>2, <2>3, ServerStepKeepsAsset DEF result
<1> QED BY <1>4, <1>5, <1>6, <1>7, <1>8, <1>9 DEF Worker

LEMMA InitAsset == Init => AssetInv
<1> SUFFICES ASSUME Init PROVE AssetInv
  OBVIOUS
<1> USE DEF Ends
<1>1. /\ pc["client"] = "connect" /\ pc["server"] = "listening"
      /\ sent = 0 /\ outcome = None /\ ~committed
      /\ \A e \in Ends : inbox[e] = <<>> /\ got[e] = 0
  BY DEF Init
<1>2. ASSUME NEW e \in Ends PROVE AssetFor(e)
  <2>1. ~Begun(e) /\ Fresh(e)
    BY <1>1 DEF Begun, Unanswered, Undecided, Fresh, FreshPoints, Peer
  <2> QED BY <2>1 DEF AssetFor
<1>3. Refused
  <2>1. \A i \in 1..Len(<<>>) : FALSE
    OBVIOUS
  <2> QED BY <1>1, <2>1 DEF Refused
<1>4. Ended /\ AssetIntact
  BY <1>1, ExchangeAssumption DEF Ended, AssetIntact, ExchangeAssumption
<1> QED BY <1>2, <1>3, <1>4 DEF AssetInv

LEMMA NextAsset ==
  ShapeInv /\ OrderInv /\ AssetInv /\ [Next]_vars => AssetInv'
<1> SUFFICES ASSUME ShapeInv, OrderInv, AssetInv, [Next]_vars PROVE AssetInv'
  OBVIOUS
<1>1. CASE Client
  BY <1>1, ClientStartKeepsAsset, ClientReadsKeepAsset, TransferKeepsAsset,
    FailKeepsAsset DEF Client, Ends
<1>2. CASE Worker \/ Kill
  BY <1>2, WorkerKeepsAsset
<1>3. CASE Network
  BY <1>3, NetworkKeepsAsset
<1>4. CASE UNCHANGED vars
  <2>1. UNCHANGED <<rigid, pc, inbox, got, silent, sent, file, short, result>>
    BY <1>4 DEF vars, network, transfer
  <2>2. \A e \in Ends : AssetFor(e) => AssetFor(e)'
    BY <2>1, Remains DEF Untouched
  <2>3. \A e \in Ends : Carries(e)' => AssetFor(e)'
    BY <2>1, <2>2 DEF AssetInv, Carries, rigid
  <2>4. Refused' /\ Ended' /\ AssetIntact'
    BY <2>1 DEF AssetInv, Refused, Ended, AssetIntact, rigid, result
  <2> QED BY <2>3, <2>4 DEF AssetInv
<1> QED BY <1>1, <1>2, <1>3, <1>4 DEF Next

\* An asset that an end accepts is as long as announced and byte for byte what
\* the other had on disk, unless a write was short, however the asset was cut up
\* on its way and wherever the connection broke.
THEOREM AssetIntactHolds == Spec => []AssetIntact
<1>1. AssetInv => AssetIntact
  BY DEF AssetInv
<1> QED BY <1>1, InitOrder, NextOrder, InitShape, NextShape, InitAsset, NextAsset,
  PTL DEF Spec

-----------------------------------------------------------------------------
(* Client and server understand each other.  While nothing has disturbed   *)
(* them, what each reads is what the other means, and an end that waits is *)
(* never left with nothing on its way.                                     *)

Calm == ~disturbed /\ announced = Len(asset)

\* The asset for showasset follows the answer.
AssetFollows == op = "SAS" /\ status = "OK"

\* The length of the answer, for an asset that of its two fields only
AnswerLength ==
  CASE op = "BID" \/ (op = "CLS" /\ status = "OK") \/ AssetFollows -> 4
    [] op = "OPA" /\ status = "OK" -> 7
    [] OTHER -> 5

\* How much of it the client has read
AnswerRead ==
  CASE pc["client"] = "status" -> 2
    [] pc["client"] = "aid" -> 4
    [] pc["client"] = "lf" -> AnswerLength - 1
    [] OTHER -> 0

\* u is the i-th unit of the answer.
InAnswer(i, u) ==
  /\ i = 1 => u[2] = op
  /\ i = 3 => u[2] = status
  /\ i = 5 /\ op = "OPA" /\ status = "OK" => u[2] = op
  /\ i = AnswerLength /\ AnswerLength # 4 => u = LF

Asking ==
  /\ pc["client"] \in {"connect", "request"} =>
       inbox["server"] = <<>> /\ pc["server"] \in {"listening", "queued", "command"}
  /\ pc["client"] \notin {"connect", "request"} /\ pc["server"] \in {"queued", "command"} =>
       Len(inbox["server"]) > 0 /\ inbox["server"][1][2] = op

Waiting ==
  pc["server"] \in Unanswered =>
    /\ pc["client"] \in {"connect", "request", "as_send_asset_file", "command"}
    /\ inbox["client"] = <<>>

\* The client has not read all of the answer.
ReadsAnswer == {"as_send_asset_file", "command", "status", "aid", "lf"}

Answering ==
  pc["server"] \notin Unanswered =>
    /\ pc["client"] \notin {"connect", "request", "args"}
    /\ pc["client"] \in ReadsAnswer =>
         /\ Len(inbox["client"]) >= AnswerLength - AnswerRead
         /\ \A i \in 1..Len(inbox["client"]) : InAnswer(AnswerRead + i, inbox["client"][i])
    /\ pc["client"] = "aid" => op = "OPA" /\ status = "OK"
    /\ pc["client"] = "lf" => AnswerLength # 4

\* All of the asset is on its way, or in the file.
Delivering ==
  AssetFollows /\ pc["server"] = "closed" /\ pc["client"] \in Expecting =>
    Reach("client") = announced + 1

Understood ==
  /\ ~silent /\ got["client"] = 0 /\ got["server"] = 0
  /\ outcome # "error"
  /\ pc["server"] \notin Undecided => status \in {"OK", "NOK", "ERR"}
  /\ Asking /\ Waiting /\ Answering /\ Delivering

CalmInv == Calm => Understood

LEMMA CalmBefore ==
  ASSUME [Next]_vars, Calm' PROVE Calm /\ UNCHANGED rigid
<1>1. UNCHANGED rigid
  BY DEF Next, vars, Client, Worker, Network, Connect, ConnectFails, SendRequest,
    ReadCommandOfAnswer, ReadStatus, ReadAid, ReadLF, ReadAssetInfo, Transfer, Fail,
    GiveUp, SendBytes, FileTooShort, SendLF, ReceiveBytes, ReceiveLast, ReceiveBad,
    ReceiveFails, Dequeue, ReadCommand, ReadArgs, ReadVarargs, UseDatabase,
    SendAnswer, Kill, FallSilent, Discard, SplitRead
<1>2. disturbed => disturbed'
  BY DEF Next, vars, Client, Worker, Network, Connect, ConnectFails, SendRequest,
    ReadCommandOfAnswer, ReadStatus, ReadAid, ReadLF, ReadAssetInfo, Transfer, Fail,
    SendBytes, FileTooShort, SendLF, ReceiveBytes, ReceiveLast, ReceiveBad,
    ReceiveFails, Dequeue, ReadCommand, ReadArgs, ReadVarargs, UseDatabase,
    SendAnswer, Kill, FallSilent, Discard, SplitRead
<1> QED BY <1>1, <1>2 DEF Calm, rigid

\* The client has read k units of the answer and goes on.
LEMMA ClientUnderstands ==
  ASSUME ShapeInv, Understood, UNCHANGED <<rigid, status>>,
         NEW k \in Nat \ {0}, Recv("client", k),
         NEW p, pc'["client"] = p, pc'["server"] = pc["server"],
         p \notin {"connect", "request", "as_send_asset_file", "command", "args"},
         p \in {"status", "aid", "lf"} =>
           AnswerRead' = AnswerRead + k /\ pc["client"] \in ReadsAnswer,
         p = "aid" => op = "OPA" /\ status = "OK",
         p = "lf" => AnswerLength # 4,
         AssetFollows /\ p \in Expecting =>
           /\ pc["client"] \in Expecting
           /\ Position("client")' = Position("client") + k,
         outcome' # "error"
  PROVE  Understood'
<1>1. "client" \in Ends /\ Peer("client") = "server"
  BY DEF Ends, Peer
<1> DEFINE n == Len(inbox["client"])
<1>2. /\ UNCHANGED silent /\ got'["client"] = 0
      /\ inbox'["server"] = inbox["server"] /\ got'["server"] = got["server"]
      /\ k <= n /\ n \in Nat /\ Len(inbox'["client"]) = n - k
      /\ \A i \in 1..Len(inbox'["client"]) : inbox'["client"][i] = inbox["client"][k + i]
  BY <1>1, RecvTakes
<1>3. pc["server"] \notin Unanswered
  <2>1. Len(<<>>) = 0
    OBVIOUS
  <2> QED BY <1>2, <2>1 DEF Understood, Waiting
<1>4. Asking'
  BY <1>2, <1>3 DEF Asking, Unanswered, Undecided
<1>5. Waiting'
  BY <1>3 DEF Waiting
<1>6. AnswerLength' = AnswerLength
  BY DEF AnswerLength, AssetFollows, rigid
<1>7. Answering'
  <2>1. CASE p \notin {"status", "aid", "lf"}
    BY <2>1, <1>3 DEF Answering, ReadsAnswer
  <2>2. CASE p \in {"status", "aid", "lf"}
    <3>1. /\ AnswerRead' = AnswerRead + k /\ AnswerRead \in Nat /\ AnswerLength \in Nat
          /\ n >= AnswerLength - AnswerRead
          /\ \A i \in 1..n : InAnswer(AnswerRead + i, inbox["client"][i])
      <4>1. AnswerRead' = AnswerRead + k /\ pc["client"] \in ReadsAnswer
        BY <2>2
      <4>2. AnswerLength \in {4, 5, 7}
        BY DEF AnswerLength
      <4>3. AnswerRead \in Nat
        BY <4>2 DEF AnswerRead
      <4> QED BY <1>3, <4>1, <4>2, <4>3 DEF Understood, Answering
    <3> DEFINE r == AnswerRead
               m == AnswerLength
    <3> HIDE DEF r, m, n
    <3>2. n - k >= m - (r + k)
      BY <1>2, <3>1 DEF r, m
    <3>3. \A i \in 1..(n - k) : k + i \in 1..n /\ r + (k + i) = (r + k) + i
      BY <1>2, <3>1 DEF r
    <3>4. AnswerRead' = r + k /\ Len(inbox'["client"]) = n - k /\ AnswerLength' = m
      BY <1>2, <1>6, <3>1 DEF r, m
    <3>5. \A i \in 1..(n - k) : InAnswer((r + k) + i, inbox'["client"][i])
      <4> TAKE i \in 1..(n - k)
      <4>1. InAnswer(r + (k + i), inbox["client"][k + i])
        BY <3>1, <3>3 DEF r
      <4> QED BY <1>2, <3>3, <3>4, <4>1
    <3>6. \A i \in 1..(n - k) : InAnswer(AnswerRead + i, inbox["client"][i])'
      BY <3>4, <3>5 DEF InAnswer, AnswerLength, AssetFollows, rigid
    <3>7. /\ Len(inbox'["client"]) >= AnswerLength' - AnswerRead'
          /\ \A i \in 1..Len(inbox'["client"]) :
               InAnswer(AnswerRead + i, inbox["client"][i])'
      BY <3>2, <3>4, <3>6
    <3>8. /\ p = "aid" => (op = "OPA" /\ status = "OK")'
          /\ p = "lf" => AnswerLength' # 4
      BY <1>6 DEF rigid
    <3> QED BY <3>7, <3>8 DEF Answering
  <2> QED BY <2>1, <2>2
<1>8. Delivering'
  <2> SUFFICES ASSUME AssetFollows, pc["server"] = "closed", p \in Expecting
               PROVE  Reach("client")' = announced + 1
    BY DEF Delivering, AssetFollows, rigid
  <2>1. Reach("client") = announced + 1 /\ Position("client")' = Position("client") + k
    BY DEF Understood, Delivering
  <2>2. Position("client") \in Int
    BY <1>1, PositionTyped
  <2> DEFINE q == Position("client")
  <2> HIDE DEF q, n
  <2>3. q \in Int /\ (q + k) + (n - k) = q + n
    BY <1>2, <2>2 DEF q
  <2> QED BY <1>2, <2>1, <2>3 DEF Reach, q, n
<1> QED BY <1>2, <1>3, <1>4, <1>5, <1>7, <1>8 DEF Understood

LEMMA ClientReadsUnderstand ==
  ASSUME ShapeInv, Understood, ~disturbed',
         \/ ReadCommandOfAnswer \/ ReadStatus \/ ReadAid \/ ReadLF \/ ReadAssetInfo
  PROVE  Understood'
<1>1. inbox["client"] \in Seq(Units) /\ op \in Ops
  BY DEF ShapeInv, OnTheWay, Given, Ends
<1>2. ASSUME NEW p, Goto("client", p)
      PROVE  pc'["client"] = p /\ pc'["server"] = pc["server"]
  BY <1>2 DEF ShapeInv, Goto, Ends
\* The next unit of the answer is the one that the client expects.
<1>3. ASSUME NEW k \in {1, 2}, Recv("client", k), UNCHANGED rigid
      PROVE  /\ k \in Nat \ {0} /\ pc["server"] \notin Unanswered
             /\ pc["client"] \in ReadsAnswer =>
                  InAnswer(AnswerRead + 1, Head(inbox["client"]))
             /\ got'["client"] = 0
  <2>1. k <= Len(inbox["client"])
    BY <1>3 DEF Recv
  <2>2. Head(inbox["client"]) = inbox["client"][1] /\ 1 \in 1..Len(inbox["client"])
    BY <1>1, <1>3, <2>1
  <2>3. pc["server"] \notin Unanswered
    BY <1>1, <2>2 DEF Understood, Waiting
  <2>4. got'["client"] = 0
    BY <1>3, RecvTakes DEF Ends
  <2> QED BY <2>2, <2>3, <2>4 DEF Understood, Answering
<1>4. got["client"] = 0 /\ 2 - 0 = 2
  BY DEF Understood
<1>5. CASE ReadCommandOfAnswer
  <2>1. UNCHANGED <<rigid, status>> /\ pc["client"] = "command" /\ Recv("client", 2)
    BY <1>4, <1>5 DEF ReadCommandOfAnswer, ReadField, UnknownAnswer, Tell
  <2>2. InAnswer(0 + 1, Head(inbox["client"])) /\ got'["client"] = 0
    BY <1>3, <2>1 DEF ReadsAnswer, AnswerRead
  <2>3. Reads("client", op)
    BY <1>4, <2>2 DEF InAnswer, Reads
  <2>4. pc'["client"] = "status" /\ pc'["server"] = pc["server"] /\ UNCHANGED outcome
    BY <1>2, <1>5, <2>3 DEF ReadCommandOfAnswer
  <2>5. /\ AnswerRead' = AnswerRead + 2 /\ pc["client"] \in ReadsAnswer
        /\ pc["client"] \in Expecting
        /\ Position("client")' = Position("client") + 2
    BY <1>4, <2>1, <2>2, <2>4 DEF AnswerRead, ReadsAnswer, Expecting, Position
  <2>6. outcome' # "error"
    BY <2>4 DEF Understood
  <2> QED BY <2>1, <2>4, <2>5, <2>6, ClientUnderstands
<1>6. CASE ReadStatus
  <2>1. UNCHANGED <<rigid, status>> /\ pc["client"] = "status" /\ Recv("client", 2)
    BY <1>4, <1>6 DEF ReadStatus, ReadField, UnknownAnswer, Tell
  <2>2. /\ InAnswer(2 + 1, Head(inbox["client"])) /\ got'["client"] = 0
        /\ pc["server"] \notin Unanswered
    BY <1>3, <2>1 DEF ReadsAnswer, AnswerRead
  <2>3. /\ Says(status) /\ status \in Statuses /\ status \in {"OK", "NOK", "ERR"}
        /\ \A s : Says(s) => s = status
    <3>1. Head(inbox["client"])[2] = status
      BY <2>2 DEF InAnswer
    <3>2. status \in {"OK", "NOK", "ERR"}
      BY <2>2 DEF Understood, Unanswered
    <3> QED BY <1>4, <3>1, <3>2 DEF Reads, Says, Statuses
  <2>4. (CASE status = "OK" /\ op \in {"CLS", "BID"} -> Tell("success")
           [] status # "OK" /\ op = "BID" -> Tell("refused")
           [] OTHER ->
                /\ Goto("client", IF status # "OK" THEN "lf"
                                  ELSE IF op = "OPA" THEN "aid"
                                  ELSE "varargs")
                /\ UNCHANGED <<status, outcome, committed, dbFailed>>)
    BY <1>6, <2>3 DEF ReadStatus
  <2>5. CASE op = "BID" \/ (op = "CLS" /\ status = "OK")
    <3>1. pc'["client"] = "closed" /\ pc'["server"] = pc["server"] /\ outcome' # "error"
      BY <1>2, <2>4, <2>5 DEF Tell
    <3> QED BY <2>1, <3>1, ClientUnderstands DEF Expecting
  <2>6. CASE ~(op = "BID" \/ (op = "CLS" /\ status = "OK"))
    <3>1. Goto("client", IF status # "OK" THEN "lf"
                         ELSE IF op = "OPA" THEN "aid" ELSE "varargs")
          /\ UNCHANGED outcome
      BY <2>4, <2>6
    <3>2. pc'["client"] = (IF status # "OK" THEN "lf"
                           ELSE IF op = "OPA" THEN "aid" ELSE "varargs")
          /\ pc'["server"] = pc["server"]
      BY <1>2, <3>1
    <3>3. outcome' # "error"
      BY <3>1 DEF Understood
    <3>4. CASE status # "OK"
      <4>1. AnswerLength = 5 /\ UNCHANGED <<op, status>>
        BY <2>1, <2>6, <3>4 DEF AnswerLength, AssetFollows, rigid
      <4>2. AnswerLength' = 5
        BY <4>1 DEF AnswerLength, AssetFollows
      <4>3. AnswerRead' = AnswerRead + 2 /\ pc["client"] \in ReadsAnswer
        BY <2>1, <3>2, <3>4, <4>2 DEF AnswerRead, ReadsAnswer
      <4>4. ~AssetFollows
        BY <3>4 DEF AssetFollows
      <4> QED BY <2>1, <3>2, <3>3, <3>4, <4>1, <4>3, <4>4, ClientUnderstands
    <3>5. CASE status = "OK" /\ op = "OPA"
      <4>1. AnswerRead' = AnswerRead + 2 /\ pc["client"] \in ReadsAnswer
        BY <2>1, <3>2, <3>5 DEF AnswerRead, ReadsAnswer
      <4> QED BY <2>1, <3>2, <3>3, <3>5, <4>1, ClientUnderstands DEF Expecting
    <3>6. CASE status = "OK" /\ op # "OPA"
      <4>1. Position("client")' = Position("client") + 2 /\ pc["client"] \in Expecting
        BY <1>4, <2>1, <3>2, <3>6 DEF Position, Expecting
      <4> QED BY <2>1, <3>2, <3>3, <3>6, <4>1, ClientUnderstands
    <3> QED BY <3>4, <3>5, <3>6
  <2> QED BY <2>5, <2>6
<1>7. CASE ReadAid
  <2>1. UNCHANGED <<rigid, status>> /\ pc["client"] = "aid" /\ Recv("client", 2)
    BY <1>4, <1>7 DEF ReadAid, ReadField, UnknownAnswer, Tell
  <2>2. /\ InAnswer(4 + 1, Head(inbox["client"]))
        /\ pc["server"] \notin Unanswered
    BY <1>3, <2>1 DEF ReadsAnswer, AnswerRead
  <2>3. op = "OPA" /\ status = "OK"
    BY <2>1, <2>2 DEF Understood, Answering
  <2>4. Reads("client", op)
    BY <1>4, <2>2, <2>3 DEF InAnswer, Reads
  <2>5. pc'["client"] = "lf" /\ pc'["server"] = pc["server"] /\ UNCHANGED outcome
    BY <1>2, <1>7, <2>4 DEF ReadAid
  <2>6. AnswerLength = 7 /\ UNCHANGED <<op, status>>
    BY <2>1, <2>3 DEF AnswerLength, AssetFollows, rigid
  <2>7. AnswerLength' = 7
    BY <2>6 DEF AnswerLength, AssetFollows
  <2>8. AnswerRead' = AnswerRead + 2 /\ pc["client"] \in ReadsAnswer
    BY <2>1, <2>5, <2>7 DEF AnswerRead, ReadsAnswer
  <2>9. outcome' # "error"
    BY <2>5 DEF Understood
  <2> QED BY <2>1, <2>3, <2>5, <2>6, <2>8, <2>9, ClientUnderstands DEF Expecting
<1>8. CASE ReadLF
  <2>1. UNCHANGED <<rigid, status>> /\ pc["client"] = "lf" /\ Recv("client", 1)
    BY <1>8 DEF ReadLF, UnknownAnswer, Tell
  <2>2. /\ InAnswer((AnswerLength - 1) + 1, Head(inbox["client"]))
        /\ pc["server"] \notin Unanswered
    BY <1>3, <2>1 DEF ReadsAnswer, AnswerRead
  <2>3. AnswerLength # 4 /\ AnswerLength \in Nat
    BY <2>1, <2>2 DEF Understood, Answering, AnswerLength
  <2>4. (AnswerLength - 1) + 1 = AnswerLength
    BY <2>3
  <2>5. Head(inbox["client"]) = LF
    BY <2>2, <2>3, <2>4 DEF InAnswer
  <2>6. pc'["client"] = "closed" /\ pc'["server"] = pc["server"] /\ outcome' # "error"
    BY <1>2, <1>8, <2>5 DEF ReadLF, Tell
  <2> QED BY <2>1, <2>6, ClientUnderstands DEF Expecting
<1>9. CASE ReadAssetInfo
  <2>1. /\ UNCHANGED <<rigid, status, outcome>>
        /\ pc["client"] = "varargs" /\ Recv("client", 1)
        /\ pc'["client"] = "as_recv_asset_file" /\ file' = <<>>
        /\ pc'["server"] = pc["server"]
    BY <1>2, <1>9 DEF ReadAssetInfo, result
  <2>2. pc["client"] \in Expecting /\ Position("client")' = Position("client") + 1
    BY <2>1 DEF Position, Expecting
  <2>3. outcome' # "error"
    BY <2>1 DEF Understood
  <2> QED BY <2>1, <2>2, <2>3, ClientUnderstands
<1> QED BY <1>5, <1>6, <1>7, <1>8, <1>9

\* The client sends its request, or of the asset.
LEMMA ClientSendUnderstood ==
  ASSUME ShapeInv, AssetInv, Understood, UNCHANGED <<rigid, status, outcome>>,
         pc["client"] \in {"request", "as_send_asset_file"},
         pc'["client"] \in {"as_send_asset_file", "command"},
         pc'["server"] = pc["server"],
         NEW s \in Seq(Units), Send("client", s), Len(s) > 0,
         pc["client"] = "request" => s[1][2] = op
  PROVE  Understood'
<1>1. "client" \in Ends /\ "server" \in Ends /\ Peer("client") = "server"
  BY DEF Ends, Peer
<1>2. /\ UNCHANGED <<got, silent>> /\ inbox'["client"] = inbox["client"] /\ ~silent
      /\ Len(inbox'["server"]) = Len(inbox["server"]) + Len(s)
      /\ \A i \in 1..Len(inbox["server"]) : inbox'["server"][i] = inbox["server"][i]
      /\ \A i \in 1..Len(s) : inbox'["server"][Len(inbox["server"]) + i] = s[i]
  <2>1. ~silent
    BY DEF Understood
  <2>2. UNCHANGED rigid
    OBVIOUS
  <2>3. UNCHANGED <<got, silent>> /\ inbox'["client"] = inbox["client"]
    BY <1>1, <2>2, SendAppends
  <2>4. /\ Len(inbox'[Peer("client")]) = Len(inbox[Peer("client")]) + Len(s)
        /\ \A i \in 1..Len(inbox[Peer("client")]) :
             inbox'[Peer("client")][i] = inbox[Peer("client")][i]
        /\ \A i \in 1..Len(s) :
             inbox'[Peer("client")][Len(inbox[Peer("client")]) + i] = s[i]
    BY <1>1, <2>1, <2>2, SendAppends, Zenon
  <2> QED BY <1>1, <2>1, <2>3, <2>4
<1>3. Len(s) \in Nat /\ Len(inbox["server"]) \in Nat
  <2>1. Len(s) \in Nat
    BY LenProperties
  <2>2. Len(inbox["server"]) \in Nat
    BY <1>1, PositionTyped
  <2> QED BY <2>1, <2>2
<1>4. Asking'
  <2> SUFFICES ASSUME pc["server"] \in {"queued", "command"}
               PROVE  Len(inbox'["server"]) > 0 /\ inbox'["server"][1][2] = op
    BY DEF Asking, rigid
  <2>1. Len(inbox'["server"]) > 0
    BY <1>2, <1>3
  <2>2. CASE pc["client"] = "request"
    <3>1. Len(inbox["server"]) = 0
      BY <2>2 DEF Understood, Asking
    <3>2. 1 \in 1..Len(s) /\ 0 + 1 = 1
      BY <1>3
    <3> QED BY <1>2, <2>1, <2>2, <3>1, <3>2
  <2>3. CASE pc["client"] = "as_send_asset_file"
    <3>1. Len(inbox["server"]) > 0 /\ inbox["server"][1][2] = op
      BY <2>3 DEF Understood, Asking
    <3>2. 1 \in 1..Len(inbox["server"])
      BY <1>3, <3>1
    <3> QED BY <1>2, <2>1, <3>1, <3>2
  <2> QED BY <2>2, <2>3
<1>5. Waiting'
  BY <1>2 DEF Understood, Waiting
<1>6. Answering'
  <2> SUFFICES ASSUME pc["server"] \notin Unanswered
               PROVE  /\ Len(inbox'["client"]) >= AnswerLength' - AnswerRead'
                      /\ \A i \in 1..Len(inbox'["client"]) :
                           InAnswer(AnswerRead + i, inbox["client"][i])'
    BY DEF Answering
  <2>1. AnswerLength' = AnswerLength /\ AnswerRead = 0 /\ AnswerRead' = 0
    BY DEF AnswerLength, AnswerRead, AssetFollows, rigid
  <2>2. /\ Len(inbox["client"]) >= AnswerLength - 0
        /\ \A i \in 1..Len(inbox["client"]) : InAnswer(0 + i, inbox["client"][i])
    BY <2>1 DEF Understood, Answering, ReadsAnswer
  <2> QED BY <1>2, <2>1, <2>2 DEF InAnswer, AssetFollows, rigid
<1>7. Delivering'
  <2> SUFFICES ASSUME op = "SAS", pc["server"] = "closed" PROVE FALSE
    BY DEF Delivering, AssetFollows, rigid
  <2>1. pc["client"] = "as_send_asset_file"
    BY DEF Understood, Answering, Unanswered, Undecided
  <2> QED BY <2>1 DEF AssetInv, Ended
<1> QED BY <1>2, <1>4, <1>5, <1>6, <1>7 DEF Understood

\* A step of the server before it answers
LEMMA ServerUnderstands ==
  ASSUME Understood, UNCHANGED <<rigid, silent, outcome>>,
         inbox'["client"] = inbox["client"],
         got'["client"] = got["client"], got'["server"] = 0,
         pc'["client"] = pc["client"], pc["client"] \notin {"connect", "request"},
         pc["server"] \in Unanswered,
         pc'["server"] \in Unanswered \ {"queued", "command"},
         pc'["server"] = "answer" => status' \in {"OK", "NOK", "ERR"}
  PROVE  Understood'
<1>1. Asking'
  BY DEF Asking
<1>2. Waiting'
  BY DEF Understood, Waiting
<1>3. Answering' /\ Delivering'
  BY DEF Answering, Delivering, Unanswered, Undecided
<1>4. pc'["server"] \notin Undecided => status' \in {"OK", "NOK", "ERR"}
  BY DEF Unanswered
<1> QED BY <1>1, <1>2, <1>3, <1>4 DEF Understood

\* The server sends of the asset, or the LF behind it.
LEMMA ServerSendUnderstood ==
  ASSUME ShapeInv, OrderInv, AssetInv, Understood, Calm, SendBytes("server") \/ SendLF("server")
  PROVE  Understood'
<1> USE DEF Ends
<1>1. Peer("client") = "server" /\ Peer("server") = "client"
  BY DEF Peer
<1>2. /\ UNCHANGED <<rigid, status, outcome>> /\ pc["server"] = "as_send_asset_file"
      /\ pc'["client"] = pc["client"]
      /\ \/ SendBytes("server") /\ pc'["server"] = "as_send_asset_file"
         \/ SendLF("server") /\ pc'["server"] = "closed"
  BY DEF SendBytes, SendLF, Goto, ShapeInv, result
<1>3. op = "SAS" /\ status = "OK"
  BY <1>2 DEF AssetInv, Refused, OrderInv, Places
<1>4. PICK s \in Seq(Units) : Send("server", s) /\ (SendLF("server") => s = <<LF>>)
  <2>1. CASE SendBytes("server")
    <3> DEFINE s == SubSeq(Bytes(asset), sent + 1, sent')
    <3>1. s \in Seq(Units) /\ Send("server", s)
      BY <2>1, SendingKeepsShape
    <3>2. ~SendLF("server")
      BY <2>1 DEF SendBytes, SendLF, BetweenBlocks
    <3> HIDE DEF s
    <3> QED BY <3>1, <3>2
  <2>2. CASE SendLF("server")
    <3> DEFINE s == <<LF>>
    <3>1. s \in Seq(Units) /\ Send("server", s) /\ s = <<LF>>
      BY <2>2, SpecialUnits DEF SendLF
    <3> HIDE DEF s
    <3> QED BY <3>1
  <2> QED BY <2>1, <2>2
<1>5. /\ UNCHANGED <<got, silent>> /\ inbox'["server"] = inbox["server"] /\ ~silent
      /\ Len(inbox'["client"]) = Len(inbox["client"]) + Len(s)
      /\ \A i \in 1..Len(inbox["client"]) : inbox'["client"][i] = inbox["client"][i]
  BY <1>1, <1>2, <1>4, SendAppends DEF Understood
<1>6. Len(s) \in Nat /\ Len(inbox["client"]) \in Nat
  BY PositionTyped, LenProperties
<1>7. pc["server"] \notin Unanswered /\ pc'["server"] \notin Unanswered
  BY <1>2 DEF Unanswered, Undecided
<1>8. Asking' /\ Waiting'
  BY <1>2, <1>5, <1>7 DEF Understood, Asking, Waiting, Answering
<1>9. Answering'
  <2>1. AnswerLength = 4 /\ AnswerLength' = 4 /\ AnswerRead' = AnswerRead
    BY <1>2, <1>3 DEF AnswerLength, AssetFollows, AnswerRead, rigid
  <2>2. pc["client"] \notin {"connect", "request", "args", "aid", "lf"}
    BY <1>3, <1>7, <2>1 DEF Understood, Answering
  <2>3. ASSUME pc["client"] \in ReadsAnswer
        PROVE  /\ Len(inbox'["client"]) >= 4 - AnswerRead
               /\ \A i \in 1..Len(inbox'["client"]) :
                    InAnswer(AnswerRead + i, inbox["client"][i])'
    <3>1. /\ Len(inbox["client"]) >= 4 - AnswerRead /\ AnswerRead \in {0, 2}
          /\ \A i \in 1..Len(inbox["client"]) : InAnswer(AnswerRead + i, inbox["client"][i])
      BY <1>7, <2>1, <2>2, <2>3 DEF Understood, Answering, AnswerRead
    <3>2. Len(inbox'["client"]) >= 4 - AnswerRead
      BY <1>5, <1>6, <3>1
    <3>3. ASSUME NEW i \in 1..Len(inbox'["client"])
          PROVE  InAnswer(AnswerRead + i, inbox["client"][i])'
      <4>1. CASE i \in 1..Len(inbox["client"])
        <5>1. InAnswer(AnswerRead + i, inbox["client"][i])
          BY <3>1, <4>1
        <5> QED BY <1>2, <1>5, <2>1, <4>1, <5>1 DEF InAnswer, rigid
      <4>2. CASE i \notin 1..Len(inbox["client"])
        <5>1. AnswerRead + i > 4
          BY <1>6, <3>1, <4>2
        <5>2. AnswerRead + i \notin {1, 3}
          BY <3>1, <5>1
        <5> QED BY <1>2, <1>3, <2>1, <5>2 DEF InAnswer, rigid
      <4> QED BY <4>1, <4>2
    <3> QED BY <3>2, <3>3
  <2> QED BY <1>2, <2>1, <2>2, <2>3 DEF Answering
<1>10. Delivering'
  <2> SUFFICES ASSUME SendLF("server"), pc["client"] \in Expecting
               PROVE  Reach("client")' = announced + 1
    BY <1>2 DEF Delivering, rigid
  <2>1. Begun("client") /\ Granted /\ AssetFor("client")
    BY <1>3, <1>7 DEF Begun, Granted, AssetInv, Carries
  <2>2. Reach("client") = sent
    BY <1>1, <1>2, <1>5, <2>1 DEF AssetFor, Aligned, Bounded
  <2>3. sent \in Nat /\ sent <= Len(asset) /\ sent >= announced /\ announced = Len(asset)
        /\ Position("client") \in Int
    BY PositionTyped DEF Calm, SendLF
  <2>4. Position("client")' = Position("client")
    BY <1>2, <1>5 DEF Position, SendLF, transfer
  <2>5. Len(inbox'["client"]) = Len(inbox["client"]) + 1
    BY <1>4, <1>5
  <2> QED BY <1>6, <2>2, <2>3, <2>4, <2>5 DEF Reach
<1> QED BY <1>2, <1>3, <1>5, <1>8, <1>9, <1>10 DEF Understood

LEMMA AnswerUnderstood ==
  ASSUME ShapeInv, status \in {"OK", "NOK", "ERR"}
  PROVE  /\ Len(Answer) >= AnswerLength
         /\ \A i \in 1..Len(Answer) : InAnswer(i, Answer[i])
<1> DEFINE s == <<Unit("command", op), Unit("command", op)>>
                  \o <<Unit("status", status), Unit("status", status)>>
<1>1. op \in Ops
  BY DEF ShapeInv, Given
<1>2. CASE op = "BID" \/ (op = "CLS" /\ status = "OK")
  <2>1. Answer = s \o <<>> /\ AnswerLength = 4
    BY <1>2 DEF Answer, AnswerLength, Field
  <2> QED BY <1>2, <2>1 DEF InAnswer, Unit
<1>3. CASE op = "OPA" /\ status = "OK"
  <2>1. /\ Answer = s \o (<<Unit("aid", op), Unit("aid", op)>> \o <<LF>>)
        /\ AnswerLength = 7
    BY <1>3 DEF Answer, AnswerLength, AssetFollows, Field
  <2> QED BY <1>3, <2>1 DEF InAnswer, Unit
<1>4. CASE op = "SAS" /\ status = "OK"
  <2>1. Answer = s \o <<Unit("varargs", op)>> /\ AnswerLength = 4
    BY <1>4 DEF Answer, AnswerLength, AssetFollows, Field
  <2> QED BY <1>4, <2>1 DEF InAnswer, Unit
<1>5. CASE op # "BID" /\ status # "OK"
  <2>1. Answer = s \o <<LF>> /\ AnswerLength = 5
    BY <1>5 DEF Answer, AnswerLength, AssetFollows, Field
  <2> QED BY <1>5, <2>1 DEF InAnswer, Unit
<1> QED BY <1>1, <1>2, <1>3, <1>4, <1>5 DEF Ops

LEMMA SendAnswerUnderstood ==
  ASSUME ShapeInv, Understood, SendAnswer
  PROVE  Understood'
<1>1. "client" \in Ends /\ "server" \in Ends /\ Peer("server") = "client"
  BY DEF Ends, Peer
<1>2. /\ UNCHANGED <<rigid, status, outcome>>
      /\ pc["server"] = "answer" /\ Send("server", Answer)
      /\ pc'["server"] = (IF AssetFollows THEN "as_send_asset_file" ELSE "closed")
      /\ pc'["client"] = pc["client"]
  BY DEF SendAnswer, Goto, ShapeInv, AssetFollows, result, Ends
<1>3. status \in {"OK", "NOK", "ERR"} /\ status \in Statuses
  BY <1>2 DEF Understood, Undecided, Statuses
<1>4. /\ inbox["client"] = <<>>
      /\ pc["client"] \in {"connect", "request", "as_send_asset_file", "command"}
      /\ pc["client"] \notin {"connect", "request"}
  BY <1>2 DEF Understood, Waiting, Asking, Unanswered
<1>5. /\ UNCHANGED <<got, silent>> /\ inbox'["server"] = inbox["server"]
      /\ inbox'["client"] = Answer
  <2>1. Answer \in Seq(Units)
    BY <1>3, MessagesTyped
  <2>2. UNCHANGED <<got, silent>> /\ inbox'["server"] = inbox["server"]
    BY <1>2, <2>1, SendAppends DEF Ends
  <2>3. inbox'["client"] = <<>> \o Answer
    BY <1>1, <1>2, <1>4 DEF Send, Understood, ShapeInv, OnTheWay
  <2> QED BY <2>1, <2>2, <2>3
<1>6. Asking' /\ Waiting' /\ Delivering'
  BY <1>2, <1>4 DEF Asking, Waiting, Delivering, AssetFollows, Unanswered, Undecided, rigid
<1>7. Answering'
  <2>1. AnswerRead' = 0 /\ AnswerLength' = AnswerLength
    BY <1>2, <1>4 DEF AnswerRead, AnswerLength, AssetFollows, rigid
  <2>2. AnswerLength \in Nat
    BY DEF AnswerLength
  <2>3. Len(inbox'["client"]) >= AnswerLength' - AnswerRead'
    BY <1>3, <1>5, <2>1, <2>2, AnswerUnderstood
  <2>4. \A i \in 1..Len(inbox'["client"]) : InAnswer(AnswerRead + i, inbox["client"][i])'
    <3>1. \A i \in 1..Len(Answer) : 0 + i = i
      OBVIOUS
    <3>2. \A i \in 1..Len(Answer) : InAnswer(i, Answer[i])
      BY <1>3, AnswerUnderstood
    <3> QED BY <1>2, <1>5, <2>1, <3>1, <3>2 DEF InAnswer, rigid
  <2> QED BY <1>2, <1>4, <2>3, <2>4 DEF Answering
<1> QED BY <1>2, <1>3, <1>5, <1>6, <1>7 DEF Understood

\* When nothing has changed the asset, what goes beyond the announced size is LF.
LEMMA OnlyCompletePieces ==
  ASSUME ShapeInv, OrderInv, AssetInv, Calm, NEW e \in Ends,
         pc[e] = "as_recv_asset_file",
         NEW piece \in Pieces(e), Len(file) + Len(piece) > announced
  PROVE  Complete(piece)
<1>1. Carries(e) /\ Granted
  BY DEF AssetInv, Refused, OrderInv, Places, Carries, Granted, Ends
<1>2. AssetFor(e)
  BY <1>1 DEF AssetInv
<1> DEFINE k == Len(piece)
           n == Len(file)
<1>3. /\ k \in Nat \ {0} /\ k <= Len(inbox[e])
      /\ \A i \in 1..k : piece[i] = inbox[e][i]
  BY PieceTaken
<1>4. /\ Begun(e) /\ n \in Nat /\ sent \in Nat /\ announced \in Nat
      /\ n + k <= sent \/ (n + k = sent + 1 /\ sent >= announced)
  BY <1>1, <1>2, <1>3, NextPiece
<1>5. sent <= Len(asset) /\ Len(asset) = announced /\ Len(inbox[e]) \in Nat
  BY PositionTyped DEF Calm
<1>6. InPlace(e) /\ Position(e) = n
  BY <1>1, <1>2, <1>4 DEF AssetFor, Aligned, Expecting, Position
<1> HIDE DEF k, n
<1>7. n + k = sent + 1 /\ sent = announced
  BY <1>3, <1>4, <1>5 DEF k, n
<1>8. k \in 1..k /\ k \in 1..Len(inbox[e])
  BY <1>3, <1>5
<1>9. inbox[e][k] = LF
  BY <1>6, <1>7, <1>8 DEF InPlace
<1> QED BY <1>3, <1>7, <1>8, <1>9 DEF Complete, k, n

LEMMA ClientTransferUnderstood ==
  ASSUME ShapeInv, OrderInv, AssetInv, Understood, Calm, ~disturbed', Transfer("client")
  PROVE  Understood'
<1>1. "client" \in Ends /\ pc \in [Ends -> Points]
  BY DEF Ends, ShapeInv
<1>2. /\ sent \in Nat /\ Len(asset) \in Nat /\ sent <= Len(asset)
      /\ announced = Len(asset)
  BY <1>1, PositionTyped DEF Calm
<1>3. CASE SendBytes("client")
  <2> DEFINE s == SubSeq(Bytes(asset), sent + 1, sent')
  <2>1. s \in Seq(Units) /\ Send("client", s) /\ Len(s) > 0
    <3>1. /\ s \in Seq(Units) /\ Send("client", s) /\ Len(s) = sent' - sent
          /\ sent' \in (sent + 1)..Len(asset)
      BY <1>1, <1>3, SendingKeepsShape
    <3> HIDE DEF s
    <3>2. \A x, y \in Nat : \A z \in (x + 1)..y : z - x > 0
      OBVIOUS
    <3>3. sent' - sent > 0
      BY <1>2, <3>1, <3>2
    <3> QED BY <3>1, <3>3
  <2>2. /\ UNCHANGED <<rigid, status, outcome>> /\ UNCHANGED pc
        /\ pc["client"] = "as_send_asset_file"
    BY <1>3 DEF SendBytes, result
  <2> HIDE DEF s
  <2> QED BY <2>1, <2>2, ClientSendUnderstood
<1>4. CASE SendLF("client")
  <2> DEFINE s == <<LF>>
  <2>1. s \in Seq(Units) /\ Send("client", s) /\ Len(s) > 0
    BY <1>4, SpecialUnits DEF SendLF
  <2>2. /\ UNCHANGED <<rigid, status, outcome>> /\ pc["client"] = "as_send_asset_file"
        /\ pc'["client"] = "command" /\ pc'["server"] = pc["server"]
    BY <1>1, <1>4 DEF SendLF, Goto, result, Ends
  <2> HIDE DEF s
  <2> QED BY <2>1, <2>2, ClientSendUnderstood
<1>5. ~FileTooShort("client")
  BY <1>2 DEF FileTooShort
<1>6. CASE ReceiveBytes("client")
  <2>1. /\ UNCHANGED <<rigid, pc, status, outcome>>
        /\ pc["client"] = "as_recv_asset_file"
    BY <1>6 DEF ReceiveBytes, result
  <2>2. PICK piece \in Pieces("client") : Recv("client", Len(piece)) /\ Write(piece)
    BY <1>6 DEF ReceiveBytes
  <2> DEFINE k == Len(piece)
  <2>3. k \in Nat \ {0} /\ piece \in Seq(Units)
    BY <1>1, PieceTaken
  <2>4. Len(file') = Len(file) + k
    <3>1. file \in Seq(Units)
      BY <1>1, <2>1 DEF ShapeInv, Stored
    <3> QED BY <2>1, <2>2, <2>3, <3>1, WriteAppends
  <2> HIDE DEF k
  <2>5. Recv("client", k)
    BY <2>2 DEF k
  <2>6. pc["client"] \in Expecting /\ Position("client")' = Position("client") + k
    BY <2>1, <2>4 DEF Expecting, Position
  <2>7. outcome' # "error"
    BY <2>1 DEF Understood
  <2> QED BY <2>1, <2>3, <2>5, <2>6, <2>7, ClientUnderstands
<1>7. CASE ReceiveLast("client")
  <2>1. /\ UNCHANGED <<rigid, status>> /\ outcome' # "error"
        /\ pc'["client"] = "closed" /\ pc'["server"] = pc["server"]
    BY <1>1, <1>7 DEF ReceiveLast, Tell, Goto, Ends
  <2>2. PICK piece \in Pieces("client") : Recv("client", Len(piece))
    BY <1>7 DEF ReceiveLast
  <2> DEFINE k == Len(piece)
  <2>3. k \in Nat \ {0}
    BY <1>1, PieceTaken
  <2> HIDE DEF k
  <2>4. Recv("client", k) /\ "closed" \notin Expecting
    BY <2>2 DEF k, Expecting
  <2> QED BY <2>1, <2>3, <2>4, ClientUnderstands
<1>8. ~ReceiveBad("client")
  BY <1>1, OnlyCompletePieces DEF ReceiveBad
<1>9. ~ReceiveFails("client")
  BY DEF ReceiveFails
<1> QED BY <1>3, <1>4, <1>5, <1>6, <1>7, <1>8, <1>9 DEF Transfer

LEMMA ServerTransferUnderstood ==
  ASSUME ShapeInv, OrderInv, AssetInv, Understood, Calm, ~disturbed', Transfer("server")
  PROVE  Understood'
<1>1. "server" \in Ends /\ "client" \in Ends /\ Peer("server") = "client"
  BY DEF Ends, Peer
<1>2. CASE SendBytes("server") \/ SendLF("server")
  BY <1>2, ServerSendUnderstood
<1>3. ~FileTooShort("server")
  <2>1. /\ sent \in Nat /\ Len(asset) \in Nat /\ sent <= Len(asset)
        /\ announced = Len(asset)
    BY <1>1, PositionTyped DEF Calm
  <2> QED BY <2>1 DEF FileTooShort
<1>4. ASSUME pc["server"] = "as_recv_asset_file",
             UNCHANGED <<rigid, outcome>>, pc'["client"] = pc["client"],
             \E piece \in Pieces("server") : Recv("server", Len(piece)),
             \/ pc'["server"] = "as_recv_asset_file"
             \/ pc'["server"] = "answer" /\ status' \in {"OK", "NOK", "ERR"}
      PROVE  Understood'
  <2>1. PICK piece \in Pieces("server") : Recv("server", Len(piece))
    BY <1>4
  <2> DEFINE k == Len(piece)
  <2>2. k \in Nat
    BY <1>1, PieceTaken
  <2>3. Recv("server", k)
    BY <2>1
  <2> HIDE DEF k
  <2>4. /\ UNCHANGED silent /\ got'["server"] = 0
        /\ inbox'["client"] = inbox["client"] /\ got'["client"] = got["client"]
    BY <1>1, <1>4, <2>2, <2>3, RecvTakes
  <2>5. pc["client"] \notin {"connect", "request"}
    BY <1>4 DEF Understood, Asking
  <2> QED BY <1>4, <2>4, <2>5, ServerUnderstands DEF Unanswered, Undecided
<1>5. CASE ReceiveBytes("server")
  <2>1. /\ pc["server"] = "as_recv_asset_file" /\ UNCHANGED <<rigid, pc, outcome>>
        /\ \E piece \in Pieces("server") : Recv("server", Len(piece))
    BY <1>5 DEF ReceiveBytes, result
  <2> QED BY <1>4, <2>1
<1>6. CASE ReceiveLast("server")
  <2>1. /\ pc["server"] = "as_recv_asset_file" /\ UNCHANGED <<rigid, outcome>>
        /\ pc'["client"] = pc["client"] /\ pc'["server"] = "answer" /\ status' = "OK"
        /\ \E piece \in Pieces("server") : Recv("server", Len(piece))
    BY <1>1, <1>6 DEF ReceiveLast, Decide, Goto, ShapeInv
  <2> QED BY <1>4, <2>1
<1>7. CASE ReceiveBad("server")
  BY <1>1, <1>7, OnlyCompletePieces DEF ReceiveBad
<1>8. ~ReceiveFails("server")
  BY DEF ReceiveFails
<1> QED BY <1>2, <1>3, <1>5, <1>6, <1>7, <1>8 DEF Transfer

\* An end that waits finds the other still there, or what it waits for.
LEMMA NobodyFails ==
  ASSUME ShapeInv, OrderInv, AssetInv, Understood, ~disturbed',
         NEW e \in Ends, Fail(e)
  PROVE  FALSE
<1> USE DEF Ends
<1>1. Peer("client") = "server" /\ Peer("server") = "client"
  BY DEF Peer
<1>2. /\ pc[e] \in Receiving /\ pc[Peer(e)] = "closed"
      /\ inbox[e] = <<>>
  BY DEF Fail, AtEnd, Fails, Receiving, Fixed, Sending
<1>3. Len(inbox[e]) = 0
  BY <1>2
<1>4. CASE e = "server"
  <2>1. pc["server"] \in Unanswered
    BY <1>2, <1>4 DEF OrderInv, Places, Receiving, Fixed, Unanswered, Undecided
  <2> QED BY <1>1, <1>2, <1>4, <2>1 DEF Understood, Waiting
<1>5. CASE e = "client"
  <2>1. pc["server"] = "closed" /\ pc["server"] \notin Unanswered
    BY <1>1, <1>2, <1>5 DEF Unanswered, Undecided
  <2>2. CASE pc["client"] \in ReadsAnswer
    <3>1. /\ 0 >= AnswerLength - AnswerRead
          /\ pc["client"] = "aid" => AnswerLength = 7
      BY <1>3, <1>5, <2>1, <2>2 DEF Understood, Answering, AnswerLength, AssetFollows
    <3>2. AnswerLength \in {4, 5, 7}
      BY DEF AnswerLength
    <3> QED BY <3>1, <3>2 DEF AnswerRead
  <2>3. CASE pc["client"] \in {"varargs", "as_recv_asset_file"}
    <3>1. AssetFollows
      BY <2>3 DEF OrderInv, Places, AssetInv, Refused, AssetFollows
    <3>2. Reach("client") = announced + 1
      BY <2>1, <2>3, <3>1 DEF Understood, Delivering, Expecting
    <3>3. Position("client") + 0 = announced + 1
      BY <1>3, <1>5, <3>2 DEF Reach
    <3>4. announced \in Nat
      BY PositionTyped
    <3>5. Position("client") = -1 \/ Position("client") \in 0..announced
      BY <2>3 DEF Position, ShapeInv, Stored
    <3> QED BY <3>3, <3>4, <3>5
  <2> QED BY <1>2, <1>5, <2>1, <2>2, <2>3 DEF Receiving, Fixed, ReadsAnswer,
    Understood, Answering
<1> QED BY <1>4, <1>5

LEMMA ServerReadsUnderstand ==
  ASSUME ShapeInv, Understood, ReadCommand \/ ReadArgs \/ ReadVarargs
  PROVE  Understood'
<1>1. "server" \in Ends /\ "client" \in Ends /\ Peer("server") = "client"
  BY DEF Ends, Peer
<1>2. inbox["server"] \in Seq(Units)
  BY <1>1 DEF ShapeInv, OnTheWay
<1>3. ASSUME UNCHANGED <<rigid, outcome>>, pc'["client"] = pc["client"],
             NEW k \in {1, 2}, Recv("server", k),
             pc["server"] \in {"command", "args", "varargs"},
             \/ pc'["server"] \in {"args", "varargs", "database"}
             \/ pc'["server"] = "answer" /\ status' = "ERR"
      PROVE  Understood'
  <2>1. /\ UNCHANGED silent /\ got'["server"] = 0 /\ k <= Len(inbox["server"])
        /\ inbox'["client"] = inbox["client"] /\ got'["client"] = got["client"]
    BY <1>1, <1>3, RecvTakes
  <2>2. pc["client"] \notin {"connect", "request"}
    BY <1>2, <1>3, <2>1 DEF Understood, Asking
  <2> QED BY <1>3, <2>1, <2>2, ServerUnderstands DEF Unanswered, Undecided
<1>4. ASSUME NEW p, Goto("server", p)
      PROVE  pc'["server"] = p /\ pc'["client"] = pc["client"]
  BY <1>4 DEF ShapeInv, Goto, Ends
<1>5. got["server"] = 0 /\ 2 - 0 = 2
  BY DEF Understood
<1>6. CASE ReadCommand
  <2>1. UNCHANGED rigid /\ pc["server"] = "command" /\ Recv("server", 2)
    BY <1>5, <1>6 DEF ReadCommand, ReadField
  <2>2. 2 <= Len(inbox["server"])
    BY <2>1 DEF Recv
  <2>3. pc["client"] \notin {"connect", "request"}
    BY <1>2, <2>1, <2>2 DEF Understood, Asking
  <2>4. inbox["server"][1][2] = op /\ Head(inbox["server"]) = inbox["server"][1]
    BY <1>2, <2>1, <2>2, <2>3 DEF Understood, Asking
  <2>5. Reads("server", op)
    BY <1>5, <2>4 DEF Reads
  <2>6. Goto("server", "args") /\ UNCHANGED outcome
    BY <1>6, <2>5 DEF ReadCommand, result
  <2>7. pc'["server"] = "args" /\ pc'["client"] = pc["client"]
    BY <1>4, <2>6
  <2> QED BY <1>3, <2>1, <2>6, <2>7
<1>7. CASE ReadArgs
  <2>1. /\ UNCHANGED <<rigid, outcome>> /\ pc["server"] = "args" /\ Recv("server", 2)
        /\ \/ pc'["server"] = IF op \in {"OPA", "BID"} THEN "varargs" ELSE "database"
           \/ pc'["server"] = "answer" /\ status' = "ERR"
        /\ pc'["client"] = pc["client"]
    BY <1>4, <1>5, <1>7 DEF ReadArgs, ReadField, Decide, result
  <2> QED BY <1>3, <2>1
<1>8. CASE ReadVarargs
  <2>1. /\ UNCHANGED <<rigid, outcome>> /\ pc["server"] = "varargs"
        /\ \/ pc'["server"] = "database"
           \/ pc'["server"] = "answer" /\ status' = "ERR"
        /\ pc'["client"] = pc["client"]
    BY <1>4, <1>8 DEF ReadVarargs, Decide, result
  <2>2. PICK k \in IF op = "BID" THEN {1, 2} ELSE {1} : Recv("server", k)
    BY <1>8 DEF ReadVarargs
  <2>3. k \in {1, 2}
    BY <2>2
  <2> QED BY <1>3, <2>1, <2>2, <2>3
<1> QED BY <1>6, <1>7, <1>8

LEMMA StartUnderstood ==
  ASSUME ShapeInv, OrderInv, AssetInv, Understood, Connect \/ SendRequest
  PROVE  Understood'
<1>1. CASE Connect
  <2>1. /\ UNCHANGED <<rigid, inbox, got, silent, result>>
        /\ pc["client"] = "connect" /\ pc["server"] = "listening"
        /\ pc'["client"] = "request" /\ pc'["server"] = "queued"
    BY <1>1 DEF Connect, network, OrderInv, Places
  <2>2. pc["server"] \in Unanswered /\ pc'["server"] \in Undecided
        /\ pc'["server"] \in Unanswered
    BY <2>1 DEF Unanswered, Undecided
  <2> QED BY <2>1, <2>2 DEF Understood, Asking, Waiting, Answering, Delivering, result
<1>2. CASE SendRequest
  <2>1. /\ UNCHANGED <<rigid, status, outcome>> /\ Send("client", Request)
        /\ pc["client"] = "request"
        /\ pc'["client"] \in {"as_send_asset_file", "command"}
        /\ pc'["server"] = pc["server"]
    BY <1>2 DEF SendRequest, Goto, ShapeInv, Ends, result
  <2>2. Request \in Seq(Units)
    BY MessagesTyped
  <2>3. Len(Request) > 0 /\ Request[1][2] = op
    <3>1. op \in Ops
      BY DEF ShapeInv, Given
    <3> DEFINE s == <<Unit("command", op), Unit("command", op)>>
                      \o <<Unit("args", op), Unit("args", op)>>
    <3>2. CASE op = "OPA"
      <4>1. Request = s \o <<Unit("varargs", op)>>
        BY <3>2 DEF Request, Field
      <4> QED BY <4>1 DEF Unit
    <3>3. CASE op = "BID"
      <4>1. Request = s \o <<Unit("varargs", op), LF>>
        BY <3>3 DEF Request, Field
      <4> QED BY <4>1 DEF Unit
    <3>4. CASE op \in {"CLS", "SAS"}
      <4>1. Request = s \o <<>>
        BY <3>4 DEF Request, Field
      <4> QED BY <4>1 DEF Unit
    <3> QED BY <3>1, <3>2, <3>3, <3>4 DEF Ops
  <2> QED BY <2>1, <2>2, <2>3, ClientSendUnderstood
<1> QED BY <1>1, <1>2

LEMMA WorkerUnderstands ==
  ASSUME ShapeInv, OrderInv, AssetInv, Understood, Calm, ~disturbed', Worker
  PROVE  Understood'
<1>1. ASSUME NEW p, Goto("server", p)
      PROVE  pc'["server"] = p /\ pc'["client"] = pc["client"]
  BY <1>1 DEF ShapeInv, Goto, Ends
<1>2. CASE Dequeue
  <2>1. /\ UNCHANGED <<rigid, inbox, got, silent, result>>
        /\ pc["server"] = "queued" /\ pc'["server"] = "command"
        /\ pc'["client"] = pc["client"]
    BY <1>1, <1>2 DEF Dequeue, network
  <2>2. pc["server"] \in Unanswered /\ pc'["server"] \in Undecided
        /\ pc'["server"] \in Unanswered
    BY <2>1 DEF Unanswered, Undecided
  <2> QED BY <2>1, <2>2 DEF Understood, Asking, Waiting, Answering, Delivering, result,
    rigid
<1>3. CASE ReadCommand \/ ReadArgs \/ ReadVarargs
  BY <1>3, ServerReadsUnderstand
<1>4. CASE UseDatabase
  <2>1. /\ UNCHANGED <<rigid, inbox, got, silent, outcome>>
        /\ pc["server"] = "database" /\ pc'["client"] = pc["client"]
        /\ \/ pc'["server"] = "answer" /\ status' \in {"OK", "NOK", "ERR"}
           \/ pc'["server"] = "as_recv_asset_file"
    BY <1>1, <1>4 DEF UseDatabase, WriteFails, Refusals, Decide, network, result
  <2>2. pc["client"] \notin {"connect", "request"}
    BY <2>1 DEF Understood, Asking
  <2>3. got'["server"] = 0
    BY <2>1 DEF Understood
  <2> QED BY <2>1, <2>2, <2>3, ServerUnderstands DEF Unanswered, Undecided
<1>5. CASE SendAnswer
  BY <1>5, SendAnswerUnderstood
<1>6. CASE Transfer("server")
  BY <1>6, ServerTransferUnderstood
<1>7. ~Fail("server")
  BY NobodyFails DEF Ends
<1> QED BY <1>2, <1>3, <1>4, <1>5, <1>6, <1>7 DEF Worker

LEMMA InitCalm == Init => CalmInv
<1> SUFFICES ASSUME Init PROVE Understood
  BY DEF CalmInv
<1>1. /\ pc["client"] = "connect" /\ pc["server"] = "listening"
      /\ inbox["client"] = <<>> /\ inbox["server"] = <<>>
      /\ got["client"] = 0 /\ got["server"] = 0 /\ ~silent /\ outcome = None
  BY DEF Init, Ends
<1>2. None # "error"
  BY ExchangeAssumption DEF ExchangeAssumption
<1> QED BY <1>1, <1>2 DEF Understood, Asking, Waiting, Answering, Delivering,
  Unanswered, Undecided

LEMMA NextCalm ==
  ShapeInv /\ OrderInv /\ AssetInv /\ CalmInv /\ [Next]_vars => CalmInv'
<1> SUFFICES ASSUME ShapeInv, OrderInv, AssetInv, CalmInv, [Next]_vars, Calm'
             PROVE  Understood'
  BY DEF CalmInv
<1>1. Calm /\ Understood /\ ~disturbed'
  BY CalmBefore DEF CalmInv, Calm
<1>2. CASE Client
  <2>1. ~ConnectFails
    BY <1>1 DEF ConnectFails
  <2>2. ~Fail("client")
    BY <1>1, NobodyFails DEF Ends
  <2> QED BY <1>1, <1>2, <2>1, <2>2, StartUnderstood, ClientReadsUnderstand,
    ClientTransferUnderstood DEF Client
<1>3. CASE Worker
  BY <1>1, <1>3, WorkerUnderstands
<1>4. CASE Network \/ Kill
  BY <1>1, <1>4 DEF Network, FallSilent, Discard, SplitRead, Kill
<1>5. CASE UNCHANGED vars
  <2>1. UNCHANGED <<rigid, pc, inbox, got, silent, file, result>>
    BY <1>5 DEF vars, network, transfer
  <2>2. AnswerLength' = AnswerLength /\ AnswerRead' = AnswerRead
    BY <2>1 DEF AnswerLength, AnswerRead, AssetFollows, rigid, result
  <2>3. Reach("client")' = Reach("client")
    BY <2>1 DEF Reach, Position
  <2>4. Answering'
    BY <1>1, <2>1, <2>2 DEF Understood, Answering, InAnswer, rigid, result
  <2> QED BY <1>1, <2>1, <2>3, <2>4 DEF Understood, Asking, Waiting, Delivering,
    AssetFollows, rigid, result
<1> QED BY <1>2, <1>3, <1>4, <1>5 DEF Next

\* When no call fails, no field is split and the file stays as it was announced,
\* no client is told of an error: the two ends never wait for each other in vain,
\* and neither says what the other does not understand.
THEOREM CompatibleHolds == Spec => []Compatible
<1>1. ShapeInv /\ CalmInv => Compatible
  BY DEF ShapeInv, Flags, CalmInv, Calm, Understood, Compatible
<1> QED BY <1>1, InitOrder, NextOrder, InitShape, NextShape, InitAsset, NextAsset,
  InitCalm, NextCalm, PTL DEF Spec
=============================================================================
