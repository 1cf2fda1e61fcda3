---------------------------- MODULE ClientSession ----------------------------
(***************************************************************************)
(* Clients (src/client/client.c, udp.c) that talk to the server over UDP.  *)
(* A client is one thread: it reads a command, sends one datagram, waits   *)
(* five seconds for one datagram, and prints what became of the command.   *)
(* Who is logged in is kept twice, in the client's memory and in the       *)
(* server's files, and only these answers bring the two together.          *)
(*                                                                         *)
(* The network loses, delays and reorders datagrams; it does not duplicate *)
(* them.  Datagrams carry no number: a client takes the first that arrives *)
(* for the answer to its last command.  The server serves one request at a *)
(* time, in a single step: Sessions says why that is enough.  Commands     *)
(* that are refused in the client or cannot be sent only print a message   *)
(* and are left out.                                                       *)
(***************************************************************************)
EXTENDS Integers, FiniteSets, Accounts

CONSTANTS
  Clients,
  Queries,   \* Queries[c]: the queries made at c, some of LST, SRC, LMA and LMB
  MaxFlight  \* how many datagrams the network holds, a bound for TLC

UserOps == {"LIN", "LOU", "UNR"}
MyOps == {"LMA", "LMB"}
QueryOps == MyOps \cup {"LST", "SRC"}

Account == [uid : Users, passwd : Passwords]

\* The number of an exchange is the model's own: no client or server looks at it.
Slots == 1..MaxFlight

Datagram ==
  [from : Clients, slot : Slots, op : UserOps, uid : Users, passwd : Passwords]
    \cup [from : Clients, slot : Slots, op : MyOps, uid : Users]
    \cup [from : Clients, slot : Slots, op : {"LST", "SRC"}]

Statuses == {"OK", "REG", "NOK", "UNR", "NLG"}
ReplyDatagram ==
  [to : Clients, slot : Slots, op : UserOps \cup QueryOps, status : Statuses]

ASSUME ClientAssumption ==
  /\ MaxFlight \in Nat
  /\ Queries \in [Clients -> SUBSET QueryOps]
  /\ None \notin Account
  /\ None \notin Datagram
  /\ None \notin Passwords

VARIABLES
  requests,  \* datagrams on their way to the server, or with the UDP thread
  replies,   \* datagrams on their way to the clients, or in their sockets
  session,   \* session[c]: the uid and passwd of a client with logged_in set
  command,   \* command[c]: the datagram of the command it waits for
  gone,      \* the clients that have exited, or were never started
  knows,     \* knows[c]: what the user of c may type after login; never changes
  late,      \* the clients whose recvfrom has ever timed out (history)
  unsure,    \* the pairs <<c, u>> for which an answer went missing (history)
  clean,     \* the clients whose last command found no other exchange (history)
  senders    \* senders[u]: the clients that have sent a request for u (history)

server == <<pass, login>>
network == <<requests, replies>>
history == <<knows, late, unsure, clean, senders>>
vars == <<server, network, session, command, gone, history>>

TypeOK ==
  /\ pass \in [Users -> Passwords \cup {None}]
  /\ login \subseteq Users
  /\ requests \subseteq Datagram
  /\ replies \subseteq ReplyDatagram
  /\ session \in [Clients -> Account \cup {None}]
  /\ command \in [Clients -> Datagram \cup {None}]
  /\ gone \subseteq Clients
  /\ knows \in [Clients -> SUBSET Account]
  /\ late \subseteq Clients
  /\ unsure \subseteq Clients \X Users
  /\ clean \subseteq Clients
  /\ senders \in [Users -> SUBSET Clients]

Init ==
  /\ AccountsInit
  /\ requests = {} /\ replies = {}
  /\ session = [c \in Clients |-> None]
  /\ command = [c \in Clients |-> None]
  /\ gone \in SUBSET Clients
  /\ knows \in [Clients -> SUBSET Account]
  /\ late = {} /\ unsure = {} /\ clean = {}
  /\ senders = [u \in Users |-> {}]

-----------------------------------------------------------------------------
(* Commands                                                                *)

AtPrompt(c) == command[c] = None /\ c \notin gone
logged_in(c) == session[c] # None

\* The exchanges of c that have a datagram somewhere
Exchanges(c) ==
  {d.slot : d \in {r \in requests : r.from = c}}
    \cup {m.slot : m \in {r \in replies : r.to = c}}

\* send_udp_request sends d, and the client waits.
send_udp_request(c, d) ==
  /\ Cardinality(requests) + Cardinality(replies) < MaxFlight
  /\ requests' = requests \cup {d}
  /\ command' = [command EXCEPT ![c] = d]
  /\ senders' = [u \in Users |->
       IF d.op \in UserOps /\ d.uid = u THEN senders[u] \cup {c}
       ELSE senders[u]]
  /\ clean' = IF Exchanges(c) = {} THEN clean \cup {c} ELSE clean \ {c}
  /\ UNCHANGED <<server, replies, session, gone, knows, late, unsure>>

\* Sends one of the requests LIN, LOU and UNR about the account a.
Ask(c, o, a) ==
  \E n \in Slots \ Exchanges(c) :
    send_udp_request(c, [from |-> c, slot |-> n, op |-> o,
                         uid |-> a.uid, passwd |-> a.passwd])

handle_login(c) ==
  /\ AtPrompt(c) /\ ~logged_in(c)
  /\ \E a \in knows[c] : Ask(c, "LIN", a)

handle_logout(c) ==
  /\ AtPrompt(c) /\ logged_in(c)
  /\ Ask(c, "LOU", session[c])

handle_unregister(c) ==
  /\ AtPrompt(c) /\ logged_in(c)
  /\ Ask(c, "UNR", session[c])

\* Mutant of handle_exit: one may leave without logging out.
handle_exit_anyway(c) ==
  /\ AtPrompt(c)
  /\ gone' = gone \cup {c}
  /\ session' = [session EXCEPT ![c] = None]
  /\ UNCHANGED <<server, network, command, history>>

handle_exit(c) ==
  /\ AtPrompt(c) /\ ~logged_in(c)
  /\ gone' = gone \cup {c}
  /\ UNCHANGED <<server, network, session, command, history>>

\* list and showrecord may be asked by anyone.
AskPublic(c, o) ==
  /\ AtPrompt(c)
  /\ o \in Queries[c]
  /\ \E n \in Slots \ Exchanges(c) :
       send_udp_request(c, [from |-> c, slot |-> n, op |-> o])

handle_list(c) == AskPublic(c, "LST")
handle_show_record(c) == AskPublic(c, "SRC")

\* myauctions and mybids ask for the lists of the user who is logged in.
AskMine(c, o) ==
  /\ AtPrompt(c) /\ logged_in(c)
  /\ o \in Queries[c]
  /\ \E n \in Slots \ Exchanges(c) :
       send_udp_request(c, [from |-> c, slot |-> n, op |-> o,
                            uid |-> session[c].uid])

handle_my_auctions(c) == AskMine(c, "LMA")
handle_my_bids(c) == AskMine(c, "LMB")

-----------------------------------------------------------------------------
(* Answers                                                                 *)

\* Mutant of Understands: logout and unregister do not expect UNR.
UnderstandsLess(o) ==
  CASE o = "LIN" -> {"OK", "NOK"}
    [] o = "LMA" -> {"OK", "NOK", "NLG"}
    [] OTHER -> {"OK", "NOK"}

\* The statuses that the handler of a command knows.  The server may also answer
\* RMB NLG, which handle_my_bids does not know.
Understands(o) ==
  CASE o = "LIN" -> {"OK", "REG", "NOK"}
    [] o \in {"LOU", "UNR"} -> {"OK", "NOK", "UNR"}
    [] o = "LMA" -> {"OK", "NOK", "NLG"}
    [] o \in {"LMB", "LST", "SRC"} -> {"OK", "NOK"}

\* Anything else is ERR_UNKNOWN_ANSWER.
Understood(c, m) ==
  m.op = command[c].op /\ m.status \in Understands(command[c].op)

\* Mutant of SessionAfter: the password is not kept when the answer is REG.
SessionAfterForgetful(c, m) ==
  CASE ~Understood(c, m) -> session[c]
    [] Understood(c, m) /\ m.op = "LIN" /\ m.status \in {"OK", "REG"} ->
         [uid |-> command[c].uid,
          passwd |-> IF m.status = "REG" THEN None ELSE command[c].passwd]
    [] Understood(c, m) /\ m.op \in {"LOU", "UNR"} /\ m.status = "OK" -> None
    [] OTHER -> session[c]

\* The session of c after the answer m: the uid and the password that login was
\* typed with, whichever exchange the OK belongs to.
SessionAfter(c, m) ==
  CASE ~Understood(c, m) -> session[c]
    [] Understood(c, m) /\ m.op = "LIN" /\ m.status \in {"OK", "REG"} ->
         [uid |-> command[c].uid, passwd |-> command[c].passwd]
    [] Understood(c, m) /\ m.op \in {"LOU", "UNR"} /\ m.status = "OK" -> None
    [] OTHER -> session[c]

\* The pair of c and the user its command is about
About(c) ==
  IF command[c].op \in UserOps THEN {<<c, command[c].uid>>} ELSE {}

\* With the answer m, c can no longer be sure of its user when m belongs to an
\* earlier exchange, and is sure again when m grants a command that was sent
\* while nothing else of c was under way.
UnsureAfter(c, m) ==
  IF m.slot # command[c].slot THEN unsure \cup About(c)
  ELSE IF c \in clean /\ m.status \in {"OK", "REG"}
  THEN unsure \ About(c)
  ELSE unsure

\* receive_udp_response gives the client the first datagram that has arrived.
receive_udp_response(c) ==
  /\ command[c] # None
  /\ \E m \in {r \in replies : r.to = c} :
       /\ replies' = replies \ {m}
       /\ session' = [session EXCEPT ![c] = SessionAfter(c, m)]
       /\ unsure' = UnsureAfter(c, m)
  /\ command' = [command EXCEPT ![c] = None]
  /\ UNCHANGED <<server, requests, gone, knows, late, clean, senders>>

\* Mutant of TimeOut: the socket has no SO_RCVTIMEO.
NoTimeOut(c) == FALSE /\ UNCHANGED vars

\* SO_RCVTIMEO: nothing arrived for five seconds.
TimeOut(c) ==
  /\ command[c] # None
  /\ command' = [command EXCEPT ![c] = None]
  /\ late' = late \cup {c}
  /\ unsure' = unsure \cup About(c)
  /\ UNCHANGED <<server, network, session, gone, knows, clean, senders>>

-----------------------------------------------------------------------------
(* The server and the network                                              *)

\* The request d is answered with the status s.
ReplyTo(d, s) ==
  /\ requests' = requests \ {d}
  /\ replies' = replies \cup
       {[to |-> d.from, slot |-> d.slot, op |-> d.op, status |-> s]}
  /\ UNCHANGED <<session, command, gone, history>>

\* Mutant of ServeUser: the request is left in the queue and served again.
ServeUserTwice ==
  \E d \in requests :
    /\ d.op \in UserOps
    /\ Effect(d)
    /\ replies' = replies \cup
         {[to |-> d.from, slot |-> d.slot, op |-> d.op, status |-> Answer(d)]}
    /\ UNCHANGED <<requests, session, command, gone, history>>

ServeUser ==
  \E d \in requests :
    d.op \in UserOps /\ Effect(d) /\ ReplyTo(d, Answer(d))

\* What the handlers of LST, SRC, LMA and LMB answer to d, as far as sessions
\* decide it
QueryStatuses(d) ==
  IF d.op \in {"LST", "SRC"} THEN {"OK", "NOK"}
  ELSE IF ~Registered(d.uid) THEN {"NOK"}
  ELSE IF d.uid \notin login THEN {"NLG"}
  ELSE {"OK", "NOK"}

ServeQuery ==
  /\ \E d \in requests :
       /\ d.op \in QueryOps
       /\ \E s \in QueryStatuses(d) : ReplyTo(d, s)
  /\ UNCHANGED server

\* A datagram is lost, or the server is killed while it serves it.
Lose ==
  /\ \/ \E d \in requests : requests' = requests \ {d} /\ UNCHANGED replies
     \/ \E m \in replies : replies' = replies \ {m} /\ UNCHANGED requests
  /\ UNCHANGED <<server, session, command, gone, history>>

-----------------------------------------------------------------------------
Command(c) ==
  \/ handle_login(c) \/ handle_logout(c) \/ handle_unregister(c)
  \/ handle_exit(c)
  \/ handle_list(c) \/ handle_show_record(c)
  \/ handle_my_auctions(c) \/ handle_my_bids(c)

Next ==
  \/ \E c \in Clients : Command(c) \/ receive_udp_response(c) \/ TimeOut(c)
  \/ ServeUser \/ ServeQuery \/ Lose

Spec == Init /\ [][Next]_vars

\* A client that waits reads a datagram or its five seconds run out.  Nothing is
\* assumed of the network, the server or the user at the keyboard.
Fairness ==
  \A c \in Clients : WF_vars(receive_udp_response(c) \/ TimeOut(c))

FairSpec == Spec /\ Fairness

-----------------------------------------------------------------------------
(* Properties                                                              *)

\* The client c is the only one that has ever sent LIN, LOU or UNR for u.
Alone(c, u) == senders[u] \subseteq {c}

\* As long as recvfrom has never timed out in a client, the datagrams of the
\* client belong to the command it waits for: the answer it takes is the answer
\* to that command, although nothing in a datagram says so.
InStep ==
  \A c \in Clients \ late :
    Exchanges(c) \subseteq (IF command[c] = None THEN {} ELSE {command[c].slot})

\* At its prompt, or after it has exited, a client agrees with the server about
\* the users that no other client uses: what it keeps in memory and what the
\* server keeps in files match after any sequence of commands, refused ones
\* included.  The exceptions are users for which an answer came late or was
\* lost; one command for such a user that is granted, sent while nothing else of
\* the client was under way, puts things right.
SessionsAgree ==
  \A c \in Clients, u \in Users :
    command[c] = None /\ Alone(c, u) /\ <<c, u>> \notin unsure =>
      /\ u \in login <=> session[c] # None /\ session[c].uid = u
      /\ session[c] # None /\ session[c].uid = u => Admitted(session[c])

\* A client that has never timed out and shares its user with nobody understands
\* every answer.  (With company, mybids may be answered RMB NLG.)
AnswersUnderstood ==
  \A c \in Clients \ late, m \in replies :
    m.to = c /\ (\A u \in Users : Alone(c, u)) => Understood(c, m)

\* Every command ends and the user gets the prompt back, whatever is lost.
PromptReturns == \A c \in Clients : command[c] # None ~> command[c] = None
=============================================================================
