------------------------- MODULE ClientSessionProofs -------------------------
(***************************************************************************)
(* Proofs about ClientSession, for any clients, users, passwords, queries  *)
(* and number of datagrams under way: the variables keep their types, a    *)
(* client that has never timed out takes no answer for another's, and      *)
(* client and server agree about sessions.                                 *)
(*                                                                         *)
(* InStep is not inductive: when a client reads an answer and returns to   *)
(* its prompt, nothing else of that exchange may be left.  That is Single: *)
(* an exchange has one datagram, first the request and then the reply,     *)
(* because the server answers once and the network does not duplicate.     *)
(*                                                                         *)
(* SessionsAgree speaks of clients at their prompt.  Its invariant follows *)
(* the agreement through a command: it lasts until the server takes the    *)
(* request (Asked), is what the reply says while the reply is under way    *)
(* (Answered), and is there again when the client has read it (Settled).   *)
(* That nothing else interferes is Requested and Undisturbed.              *)
(***************************************************************************)
EXTENDS ClientSession, TLAPS

SameExchange(d, m) == d.from = m.to /\ d.slot = m.slot

Single ==
  /\ \A d, e \in requests : d.from = e.from /\ d.slot = e.slot => d = e
  /\ \A m, n \in replies : m.to = n.to /\ m.slot = n.slot => m = n
  /\ \A d \in requests, m \in replies : ~SameExchange(d, m)

\* The datagrams of c that are under way belong to the command c waits for.
Current(c) ==
  /\ \A d \in requests :
       d.from = c => command[c] # None /\ d.slot = command[c].slot
  /\ \A m \in replies :
       m.to = c => command[c] # None /\ m.slot = command[c].slot

StepInv ==
  /\ TypeOK
  /\ Single
  /\ \A c \in Clients \ late : Current(c)

-----------------------------------------------------------------------------
(* The number of an exchange                                               *)

LEMMA NewExchange ==
  ASSUME NEW c, NEW n, n \notin Exchanges(c)
  PROVE  /\ \A d \in requests : d.from = c => d.slot # n
         /\ \A m \in replies : m.to = c => m.slot # n
BY DEF Exchanges

LEMMA CurrentIsInStep ==
  ASSUME \A c \in Clients \ late : Current(c) PROVE InStep
<1> SUFFICES ASSUME NEW c \in Clients \ late, NEW n \in Exchanges(c)
             PROVE  n \in IF command[c] = None THEN {} ELSE {command[c].slot}
  BY DEF InStep
<1>1. \/ \E d \in requests : d.from = c /\ d.slot = n
      \/ \E m \in replies : m.to = c /\ m.slot = n
  BY DEF Exchanges
<1> QED BY <1>1 DEF Current

-----------------------------------------------------------------------------
(* The client                                                              *)

LEMMA SendKeeps ==
  ASSUME StepInv, NEW c \in Clients, AtPrompt(c), NEW d \in Datagram,
         d.from = c, d.slot \notin Exchanges(c), send_udp_request(c, d)
  PROVE  StepInv'
<1>1. /\ requests' = requests \cup {d} /\ replies' = replies
      /\ command' = [command EXCEPT ![c] = d] /\ late' = late
      /\ UNCHANGED <<pass, login, session, gone, knows, unsure>>
  BY DEF send_udp_request, server
<1>2. /\ \A e \in requests : e.from = c => e.slot # d.slot
      /\ \A m \in replies : m.to = c => m.slot # d.slot
  BY NewExchange
<1>3. d # None
  BY ClientAssumption
<1>4. TypeOK'
  <2>1. senders' \in [Users -> SUBSET Clients]
    BY DEF StepInv, TypeOK, send_udp_request
  <2>2. clean' \subseteq Clients
    BY DEF StepInv, TypeOK, send_udp_request
  <2> QED BY <1>1, <2>1, <2>2 DEF StepInv, TypeOK
<1>5. Single'
  BY <1>1, <1>2 DEF StepInv, Single, SameExchange
<1>6. ASSUME NEW e \in Clients \ late PROVE Current(e)'
  <2>1. CASE e = c
    <3>1. \A r \in requests : r.from # c
      BY <2>1, <1>6 DEF StepInv, Current, AtPrompt
    <3>2. \A m \in replies : m.to # c
      BY <2>1, <1>6 DEF StepInv, Current, AtPrompt
    <3>3. command'[c] = d
      BY <1>1 DEF StepInv, TypeOK
    <3> QED BY <1>1, <1>3, <2>1, <3>1, <3>2, <3>3 DEF Current
  <2>2. CASE e # c
    BY <1>1, <2>2, <1>6 DEF StepInv, TypeOK, Current
  <2> QED BY <2>1, <2>2
<1> QED BY <1>1, <1>4, <1>5, <1>6 DEF StepInv

LEMMA AskKeeps ==
  ASSUME StepInv, NEW c \in Clients, AtPrompt(c), NEW o \in UserOps,
         NEW a \in Account, Ask(c, o, a)
  PROVE  StepInv'
<1>1. PICK n \in Slots \ Exchanges(c) :
        send_udp_request(c, [from |-> c, slot |-> n, op |-> o,
                             uid |-> a.uid, passwd |-> a.passwd])
  BY DEF Ask
<1>2. [from |-> c, slot |-> n, op |-> o, uid |-> a.uid, passwd |-> a.passwd]
        \in Datagram
  BY DEF Datagram, Account
<1> QED BY <1>1, <1>2, SendKeeps

LEMMA QueryKeeps ==
  ASSUME StepInv, NEW c \in Clients,
         \/ handle_list(c) \/ handle_show_record(c)
         \/ handle_my_auctions(c) \/ handle_my_bids(c)
  PROVE  StepInv'
<1>1. ASSUME NEW o \in {"LST", "SRC"}, AskPublic(c, o) PROVE StepInv'
  <2>1. PICK n \in Slots \ Exchanges(c) :
          send_udp_request(c, [from |-> c, slot |-> n, op |-> o])
    BY <1>1 DEF AskPublic
  <2>2. [from |-> c, slot |-> n, op |-> o] \in Datagram
    BY DEF Datagram
  <2> QED BY <1>1, <2>1, <2>2, SendKeeps DEF AskPublic
<1>2. ASSUME NEW o \in MyOps, AskMine(c, o) PROVE StepInv'
  <2>1. PICK n \in Slots \ Exchanges(c) :
          send_udp_request(c, [from |-> c, slot |-> n, op |-> o,
                               uid |-> session[c].uid])
    BY <1>2 DEF AskMine
  <2>2. session[c] \in Account
    BY <1>2 DEF AskMine, logged_in, StepInv, TypeOK
  <2>3. [from |-> c, slot |-> n, op |-> o, uid |-> session[c].uid] \in Datagram
    BY <2>2 DEF Datagram, Account
  <2> QED BY <1>2, <2>1, <2>3, SendKeeps DEF AskMine
<1> QED BY <1>1, <1>2 DEF handle_list, handle_show_record, handle_my_auctions,
                          handle_my_bids, MyOps

LEMMA CommandKeeps ==
  ASSUME StepInv, NEW c \in Clients, Command(c) PROVE StepInv'
<1>1. CASE handle_login(c)
  <2>1. PICK a \in knows[c] : Ask(c, "LIN", a)
    BY <1>1 DEF handle_login
  <2>2. a \in Account /\ AtPrompt(c)
    BY <1>1 DEF StepInv, TypeOK, handle_login
  <2> QED BY <2>1, <2>2, AskKeeps DEF UserOps
<1>2. CASE handle_logout(c) \/ handle_unregister(c)
  <2>1. session[c] \in Account /\ AtPrompt(c)
    BY <1>2 DEF handle_logout, handle_unregister, logged_in, StepInv, TypeOK
  <2>2. Ask(c, "LOU", session[c]) \/ Ask(c, "UNR", session[c])
    BY <1>2 DEF handle_logout, handle_unregister
  <2> QED BY <2>1, <2>2, AskKeeps DEF UserOps
<1>3. CASE handle_exit(c)
  <2>1. gone' = gone \cup {c} /\ UNCHANGED <<server, network, session, command, history>>
    BY <1>3 DEF handle_exit
  <2>2. TypeOK'
    BY <2>1 DEF StepInv, TypeOK, server, network, history
  <2>3. Single' /\ (\A e \in Clients \ late : Current(e))'
    BY <2>1 DEF StepInv, Single, Current, network, history
  <2> QED BY <2>2, <2>3 DEF StepInv
<1> QED BY <1>1, <1>2, <1>3, QueryKeeps DEF Command

-----------------------------------------------------------------------------
(* Answers                                                                 *)

\* The session after any answer is an account, or none.
LEMMA SessionType ==
  ASSUME TypeOK, NEW c \in Clients, command[c] # None, NEW m \in ReplyDatagram
  PROVE  SessionAfter(c, m) \in Account \cup {None}
<1>1. session[c] \in Account \cup {None} /\ command[c] \in Datagram
  BY DEF TypeOK
<1>2. CASE Understood(c, m) /\ m.op = "LIN"
  <2>1. command[c].op = "LIN"
    BY <1>2 DEF Understood
  <2>2. command[c].uid \in Users /\ command[c].passwd \in Passwords
    BY <1>1, <2>1 DEF Datagram, MyOps
  <2>3. [uid |-> command[c].uid, passwd |-> command[c].passwd] \in Account
    BY <2>2 DEF Account
  <2> QED BY <1>1, <1>2, <2>3 DEF SessionAfter
<1>3. CASE ~(Understood(c, m) /\ m.op = "LIN")
  BY <1>1, <1>3 DEF SessionAfter
<1> QED BY <1>2, <1>3

LEMMA AboutType ==
  ASSUME TypeOK, NEW c \in Clients, command[c] # None
  PROVE  About(c) \subseteq Clients \X Users
<1>1. command[c] \in Datagram
  BY DEF TypeOK
<1>2. command[c].op \in UserOps => command[c].uid \in Users
  BY <1>1 DEF Datagram, UserOps, MyOps
<1> QED BY <1>2 DEF About

LEMMA ReceiveKeeps ==
  ASSUME StepInv, NEW c \in Clients, receive_udp_response(c) PROVE StepInv'
<1>1. PICK m \in replies :
        /\ m.to = c /\ replies' = replies \ {m}
        /\ session' = [session EXCEPT ![c] = SessionAfter(c, m)]
        /\ unsure' = UnsureAfter(c, m)
  BY DEF receive_udp_response
<1>2. /\ command[c] # None /\ command' = [command EXCEPT ![c] = None]
      /\ UNCHANGED <<pass, login, requests, gone, knows, late, clean, senders>>
  BY DEF receive_udp_response, server
<1>3. TypeOK'
  <2>1. SessionAfter(c, m) \in Account \cup {None}
    BY <1>1, <1>2, SessionType DEF StepInv, TypeOK
  <2>2. unsure' \subseteq Clients \X Users
    BY <1>1, <1>2, AboutType DEF UnsureAfter, StepInv, TypeOK
  <2> QED BY <1>1, <1>2, <2>1, <2>2 DEF StepInv, TypeOK
<1>4. Single'
  BY <1>1, <1>2 DEF StepInv, Single, SameExchange
<1>5. ASSUME NEW e \in Clients \ late PROVE Current(e)'
  <2>1. CASE e = c
    <3>1. \A d \in requests : d.from # c
      BY <1>1, <1>5, <2>1 DEF StepInv, Current, Single, SameExchange
    <3>2. \A n \in replies \ {m} : n.to # c
      BY <1>1, <1>5, <2>1 DEF StepInv, Current, Single
    <3> QED BY <1>1, <1>2, <2>1, <3>1, <3>2 DEF Current
  <2>2. CASE e # c
    BY <1>1, <1>2, <1>5, <2>2 DEF StepInv, TypeOK, Current
  <2> QED BY <2>1, <2>2
<1> QED BY <1>2, <1>3, <1>4, <1>5 DEF StepInv

LEMMA TimeOutKeeps ==
  ASSUME StepInv, NEW c \in Clients, TimeOut(c) PROVE StepInv'
<1>1. /\ command[c] # None /\ command' = [command EXCEPT ![c] = None]
      /\ late' = late \cup {c} /\ unsure' = unsure \cup About(c)
      /\ UNCHANGED <<pass, login, requests, replies, session, gone, knows,
                     clean, senders>>
  BY DEF TimeOut, server, network
<1>2. TypeOK'
  BY <1>1, AboutType DEF StepInv, TypeOK
<1>3. Single'
  BY <1>1 DEF StepInv, Single, SameExchange
<1>4. ASSUME NEW e \in Clients \ late' PROVE Current(e)'
  <2>1. e \in Clients \ late /\ e # c
    BY <1>1, <1>4
  <2> QED BY <1>1, <2>1 DEF StepInv, TypeOK, Current
<1> QED BY <1>2, <1>3, <1>4 DEF StepInv

-----------------------------------------------------------------------------
(* The server and the network                                              *)

\* An answer takes the place of its request.
LEMMA ReplyKeeps ==
  ASSUME StepInv, NEW d \in requests, NEW s \in Statuses, ReplyTo(d, s),
         pass' \in [Users -> Passwords \cup {None}], login' \subseteq Users
  PROVE  StepInv'
<1> DEFINE r == [to |-> d.from, slot |-> d.slot, op |-> d.op, status |-> s]
<1>1. /\ requests' = requests \ {d} /\ replies' = replies \cup {r}
      /\ UNCHANGED <<session, command, gone, knows, late, unsure, clean, senders>>
  BY DEF ReplyTo, history
<1>2. d \in Datagram
  BY DEF StepInv, TypeOK
<1>3. r \in ReplyDatagram
  BY <1>2 DEF Datagram, ReplyDatagram, QueryOps
<1>4. r.to = d.from /\ r.slot = d.slot
  OBVIOUS
<1> HIDE DEF r
<1>5. TypeOK'
  BY <1>1, <1>3 DEF StepInv, TypeOK
<1>6. Single'
  BY <1>1, <1>4 DEF StepInv, Single, SameExchange
<1>7. \A c \in Clients \ late : Current(c)'
  BY <1>1, <1>4 DEF StepInv, Current
<1> QED BY <1>1, <1>5, <1>6, <1>7 DEF StepInv

LEMMA ServeUserKeeps == ASSUME StepInv, ServeUser PROVE StepInv'
<1>1. PICK d \in requests : d.op \in UserOps /\ Effect(d) /\ ReplyTo(d, Answer(d))
  BY DEF ServeUser
<1>2. d.uid \in Users /\ d.passwd \in Passwords
  BY <1>1 DEF StepInv, TypeOK, Datagram, UserOps, MyOps
<1>3. Answer(d) \in {"REG", "OK", "NOK", "UNR"}
  BY DEF Answer
<1>4. login' \subseteq Users
  BY <1>1, <1>2 DEF Effect, StepInv, TypeOK
<1>5. pass' \in [Users -> Passwords \cup {None}]
  BY <1>1, <1>2 DEF Effect, StepInv, TypeOK
<1> QED BY <1>1, <1>3, <1>4, <1>5, ReplyKeeps DEF Statuses

LEMMA ServeQueryKeeps == ASSUME StepInv, ServeQuery PROVE StepInv'
<1>1. PICK d \in requests : \E s \in QueryStatuses(d) : ReplyTo(d, s)
  BY DEF ServeQuery
<1>2. QueryStatuses(d) \subseteq Statuses
  BY DEF QueryStatuses, Statuses
<1>3. pass' \in [Users -> Passwords \cup {None}] /\ login' \subseteq Users
  BY DEF ServeQuery, server, StepInv, TypeOK
<1> QED BY <1>1, <1>2, <1>3, ReplyKeeps

LEMMA LoseKeeps == ASSUME StepInv, Lose PROVE StepInv'
<1>1. /\ requests' \subseteq requests /\ replies' \subseteq replies
      /\ UNCHANGED <<pass, login, session, command, gone, knows, late, unsure,
                     clean, senders>>
  BY DEF Lose, server, history
<1>2. TypeOK'
  BY <1>1 DEF StepInv, TypeOK
<1>3. Single' /\ \A c \in Clients \ late : Current(c)'
  BY <1>1 DEF StepInv, Single, SameExchange, Current
<1> QED BY <1>1, <1>2, <1>3 DEF StepInv

-----------------------------------------------------------------------------
LEMMA InitSteps == Init => StepInv
<1> SUFFICES ASSUME Init PROVE StepInv
  OBVIOUS
<1>1. TypeOK
  BY DEF Init, AccountsInit, TypeOK
<1> QED BY <1>1 DEF Init, StepInv, Single, Current

LEMMA NextKeepsStep == StepInv /\ [Next]_vars => StepInv'
<1> SUFFICES ASSUME StepInv, [Next]_vars PROVE StepInv'
  OBVIOUS
<1>1. CASE UNCHANGED vars
  <2>1. TypeOK'
    BY <1>1 DEF StepInv, TypeOK, vars, server, network, history
  <2>2. Single' /\ (\A c \in Clients \ late : Current(c))'
    BY <1>1 DEF StepInv, Single, SameExchange, Current, vars, network, history
  <2> QED BY <2>1, <2>2 DEF StepInv
<1>2. CASE \E c \in Clients : Command(c) \/ receive_udp_response(c) \/ TimeOut(c)
  BY <1>2, CommandKeeps, ReceiveKeeps, TimeOutKeeps
<1>3. CASE ServeUser \/ ServeQuery \/ Lose
  BY <1>3, ServeUserKeeps, ServeQueryKeeps, LoseKeeps
<1> QED BY <1>1, <1>2, <1>3 DEF Next

\* An exchange has one datagram under way at most, and the datagrams of a client
\* that has never timed out belong to its command.
THEOREM StepInvHolds == Spec => []StepInv
BY InitSteps, NextKeepsStep, PTL DEF Spec

\* The variables of ClientSession keep their types: above all, the session that a
\* client makes up from an answer is one account, uid and password of one user,
\* whichever exchange the answer belongs to.
THEOREM TypeOKHolds == Spec => []TypeOK
<1>1. StepInv => TypeOK
  BY DEF StepInv
<1> QED BY <1>1, StepInvHolds, PTL

\* The first datagram that reaches a client that has never timed out answers the
\* command it waits for, for any number of clients, users and datagrams.
THEOREM InStepHolds == Spec => []InStep
<1>1. StepInv => InStep
  BY CurrentIsInStep DEF StepInv
<1> QED BY <1>1, StepInvHolds, PTL
-----------------------------------------------------------------------------
(* SessionsAgree and AnswersUnderstood                                     *)


Granted == {"OK", "REG"}

\* The command of c is about the session of u.
Concerns(c, u) ==
  command[c] # None /\ command[c].op \in UserOps /\ command[c].uid = u

\* The client c believes that u is logged in.
Believes(c, u) == session[c] # None /\ session[c].uid = u

Agrees(c, u) ==
  /\ u \in login <=> Believes(c, u)
  /\ Believes(c, u) => pass[u] = session[c].passwd

Sure(c, u) == Alone(c, u) /\ <<c, u>> \notin unsure

\* m answers the command of c.
Answers(c, m) == m.to = c /\ m.slot = command[c].slot

Recorded == \A d \in requests : d.op \in UserOps => d.from \in senders[d.uid]

\* What a client waits for fits its session, which does not change meanwhile.
Fitting ==
  \A c \in Clients : command[c] # None =>
    /\ command[c].op = "LIN" => session[c] = None
    /\ command[c].op \in {"LOU", "UNR"} =>
         /\ Believes(c, command[c].uid)
         /\ session[c].passwd = command[c].passwd
    /\ command[c].op \in MyOps => Believes(c, command[c].uid)

\* The exchange of a command has its request and its reply.
Own ==
  \A c \in Clients : command[c] # None =>
    /\ \A d \in requests :
         d.from = c /\ d.slot = command[c].slot => d = command[c]
    /\ \A m \in replies : Answers(c, m) =>
         /\ m.op = command[c].op
         /\ m.op # "LMB" => m.status \in Understands(m.op)

Undisturbed == \A c \in clean : command[c] # None => Current(c)

Requested ==
  \A c \in Clients, u \in Users : Sure(c, u) =>
    \A d \in requests :
      d.from = c /\ d.op \in UserOps /\ d.uid = u => d = command[c]

Settled ==
  \A c \in Clients, u \in Users :
    Sure(c, u) /\ ~Concerns(c, u) => Agrees(c, u)

Asked ==
  \A c \in Clients, u \in Users :
    Sure(c, u) /\ Concerns(c, u) /\ command[c] \in requests => Agrees(c, u)

\* What the server has done when it has granted the command of c
Done(c, u) ==
  IF command[c].op = "LIN" THEN u \in login /\ pass[u] = command[c].passwd
  ELSE u \notin login

Answered ==
  \A c \in Clients, u \in Users, m \in replies :
    Alone(c, u) /\ Concerns(c, u) /\ Answers(c, m) =>
      /\ m.status \in Granted /\ (Sure(c, u) \/ c \in clean) => Done(c, u)
      /\ m.status \notin Granted /\ Sure(c, u) => Agrees(c, u)

NeverUnsure == \A c \in Clients \ late, u \in Users : <<c, u>> \notin unsure

AgreeInv ==
  /\ StepInv
  /\ Recorded /\ Fitting /\ Own /\ Undisturbed /\ Requested
  /\ Settled /\ Asked /\ Answered
  /\ NeverUnsure /\ AnswersUnderstood

-----------------------------------------------------------------------------
(* The parts of the invariant, for one client and one user                 *)

LEMMA NoneIsNoRequest == ASSUME TypeOK, NEW d \in requests PROVE d # None
BY ClientAssumption DEF TypeOK

LEMMA AboutConcerns ==
  ASSUME NEW c \in Clients, command[c] # None, NEW e \in Clients, NEW u
  PROVE  <<e, u>> \in About(c) <=> e = c /\ Concerns(c, u)
BY DEF About, Concerns

-----------------------------------------------------------------------------
(* Commands                                                                *)

LEMMA SendAgrees ==
  ASSUME AgreeInv, NEW c \in Clients, AtPrompt(c), NEW d \in Datagram,
         d.from = c, d.slot \notin Exchanges(c), send_udp_request(c, d),
         d.op = "LIN" => session[c] = None,
         d.op \in {"LOU", "UNR"} =>
           Believes(c, d.uid) /\ session[c].passwd = d.passwd,
         d.op \in MyOps => Believes(c, d.uid)
  PROVE  AgreeInv'
<1>1. /\ requests' = requests \cup {d} /\ replies' = replies
      /\ command' = [command EXCEPT ![c] = d]
      /\ UNCHANGED <<pass, login, session, late, unsure>>
  BY DEF send_udp_request, server
<1>2. /\ \A e \in requests : e.from = c => e.slot # d.slot
      /\ \A m \in replies : m.to = c => m.slot # d.slot
  BY NewExchange
<1>3. StepInv' /\ d # None
  BY SendKeeps, ClientAssumption DEF AgreeInv
<1>4. command'[c] = d /\ \A e \in Clients \ {c} : command'[e] = command[e]
  BY <1>1 DEF AgreeInv, StepInv, TypeOK
<1>5. command[c] = None
  BY DEF AtPrompt
<1>6. \A u \in Users : senders[u] \subseteq senders'[u]
  BY DEF send_udp_request
<1>7. d.op \in UserOps => d.uid \in Users /\ c \in senders'[d.uid]
  BY DEF send_udp_request, Datagram, UserOps, MyOps
<1>8. \A e \in Clients, u \in Users : Sure(e, u)' => Sure(e, u)
  BY <1>1, <1>6 DEF Sure, Alone
<1>9. \A e \in Clients, u \in Users : Alone(e, u)' => Alone(e, u)
  BY <1>6 DEF Alone
<1>10. \A e \in Clients, u \in Users : Agrees(e, u)' <=> Agrees(e, u)
  BY <1>1 DEF Agrees, Believes
<1>11. \A e \in Clients \ {c}, u \in Users : Concerns(e, u)' <=> Concerns(e, u)
  BY <1>4 DEF Concerns
<1>12. Recorded'
  <2>1. \A r \in requests : r.op \in UserOps => r.uid \in Users
    BY DEF AgreeInv, StepInv, TypeOK, Datagram, UserOps, MyOps
  <2> QED BY <1>1, <1>6, <1>7, <2>1 DEF AgreeInv, Recorded
<1>13. Fitting'
  BY <1>1, <1>4 DEF AgreeInv, Fitting, Believes
<1>14. Own'
  BY <1>1, <1>2, <1>4 DEF AgreeInv, Own, Answers
<1>15. Undisturbed'
  <2>1. ASSUME NEW e \in clean', command'[e] # None PROVE Current(e)'
    <3>1. e \in Clients
      BY <1>3 DEF StepInv, TypeOK
    <3>2. CASE e = c
      <4>1. Exchanges(c) = {}
        BY <2>1, <3>2 DEF send_udp_request
      <4>2. (\A r \in requests : r.from # c) /\ (\A m \in replies : m.to # c)
        BY <4>1 DEF Exchanges
      <4> QED BY <1>1, <1>3, <1>4, <3>2, <4>2 DEF Current
    <3>3. CASE e # c
      <4>1. e \in clean /\ command[e] # None
        BY <1>4, <2>1, <3>1, <3>3 DEF send_udp_request
      <4>2. Current(e)
        BY <4>1 DEF AgreeInv, Undisturbed
      <4> QED BY <1>1, <1>4, <3>1, <3>3, <4>2 DEF Current
    <3> QED BY <3>2, <3>3
  <2> QED BY <2>1 DEF Undisturbed
<1>16. Requested'
  <2>1. ASSUME NEW e \in Clients, NEW u \in Users, Sure(e, u)', NEW r \in requests',
               r.from = e, r.op \in UserOps, r.uid = u
        PROVE  r = command'[e]
    <3>1. CASE r = d
      BY <1>4, <2>1, <3>1
    <3>2. CASE r \in requests
      <4>1. r = command[e] /\ r # None
        BY <1>8, <2>1, <3>2, NoneIsNoRequest DEF AgreeInv, StepInv, Requested
      <4> QED BY <1>4, <1>5, <4>1
    <3> QED BY <1>1, <3>1, <3>2
  <2> QED BY <2>1 DEF Requested
<1>17. Settled'
  <2>1. ASSUME NEW e \in Clients, NEW u \in Users, Sure(e, u)', ~Concerns(e, u)'
        PROVE  Agrees(e, u)
    <3>1. ~Concerns(e, u)
      BY <1>5, <1>11, <2>1 DEF Concerns
    <3> QED BY <1>8, <2>1, <3>1 DEF AgreeInv, Settled
  <2> QED BY <1>10, <2>1 DEF Settled
<1>18. Asked'
  <2>1. ASSUME NEW e \in Clients, NEW u \in Users, Sure(e, u)', Concerns(e, u)',
               command'[e] \in requests'
        PROVE  Agrees(e, u)
    <3>1. CASE e = c
      BY <1>5, <1>8, <2>1, <3>1 DEF Concerns, AgreeInv, Settled
    <3>2. CASE e # c
      <4>1. command[e] \in Datagram /\ Concerns(e, u) /\ command'[e] = command[e]
        BY <1>4, <1>11, <2>1, <3>2 DEF Concerns, AgreeInv, StepInv, TypeOK
      <4>2. command[e] \in requests
        <5>1. CASE command[e] = d
          <6>1. u = d.uid /\ c \in senders'[u] /\ e # c
            BY <1>7, <3>2, <4>1, <5>1 DEF Concerns
          <6> QED BY <2>1, <6>1 DEF Sure, Alone
        <5> QED BY <1>1, <2>1, <4>1, <5>1
      <4> QED BY <1>8, <2>1, <4>1, <4>2 DEF AgreeInv, Asked
    <3> QED BY <3>1, <3>2
  <2> QED BY <1>10, <2>1 DEF Asked
<1>19. Answered'
  <2>1. ASSUME NEW e \in Clients, NEW u \in Users, NEW m \in replies,
               Alone(e, u)', Concerns(e, u)', Answers(e, m)'
        PROVE  /\ m.status \in Granted /\ (Sure(e, u) \/ e \in clean) => Done(e, u)
               /\ m.status \notin Granted /\ Sure(e, u) => Agrees(e, u)
               /\ e # c
    <3>1. e # c
      BY <1>2, <1>4, <2>1 DEF Answers
    <3>2. Alone(e, u) /\ Concerns(e, u) /\ Answers(e, m)
      BY <1>4, <1>9, <1>11, <2>1, <3>1 DEF Answers
    <3> QED BY <3>1, <3>2 DEF AgreeInv, Answered
  <2>2. \A e \in Clients \ {c}, u \in Users : Done(e, u)' <=> Done(e, u)
    BY <1>1, <1>4 DEF Done
  <2>3. \A e \in Clients \ {c} : e \in clean' <=> e \in clean
    BY DEF send_udp_request
  <2> QED BY <1>1, <1>8, <1>10, <2>1, <2>2, <2>3 DEF Answered
<1>20. NeverUnsure'
  BY <1>1 DEF AgreeInv, NeverUnsure
<1>21. AnswersUnderstood'
  <2>1. ASSUME NEW e \in Clients \ late, NEW m \in replies, m.to = e,
               \A u \in Users : Alone(e, u)'
        PROVE  Understood(e, m)'
    <3>1. Understood(e, m)
      BY <1>9, <2>1 DEF AgreeInv, AnswersUnderstood
    <3>2. e # c
      BY <1>5, <2>1 DEF AgreeInv, StepInv, Current
    <3> QED BY <1>4, <3>1, <3>2 DEF Understood
  <2> QED BY <1>1, <2>1 DEF AnswersUnderstood
<1> QED BY <1>3, <1>12, <1>13, <1>14, <1>15, <1>16, <1>17, <1>18, <1>19, <1>20,
           <1>21 DEF AgreeInv
LEMMA AskAgrees ==
  ASSUME AgreeInv, NEW c \in Clients, AtPrompt(c), NEW o \in UserOps,
         NEW a \in Account, Ask(c, o, a),
         o = "LIN" => session[c] = None,
         o # "LIN" => session[c] # None /\ session[c] = a
  PROVE  AgreeInv'
<1>1. PICK n \in Slots \ Exchanges(c) :
        send_udp_request(c, [from |-> c, slot |-> n, op |-> o,
                             uid |-> a.uid, passwd |-> a.passwd])
  BY DEF Ask
<1>2. [from |-> c, slot |-> n, op |-> o, uid |-> a.uid, passwd |-> a.passwd]
        \in Datagram
  BY DEF Datagram, Account
<1> QED BY <1>1, <1>2, SendAgrees DEF UserOps, MyOps, Believes

LEMMA QueryAgrees ==
  ASSUME AgreeInv, NEW c \in Clients,
         \/ handle_list(c) \/ handle_show_record(c)
         \/ handle_my_auctions(c) \/ handle_my_bids(c)
  PROVE  AgreeInv'
<1>1. ASSUME NEW o \in {"LST", "SRC"}, AskPublic(c, o) PROVE AgreeInv'
  <2>1. PICK n \in Slots \ Exchanges(c) :
          send_udp_request(c, [from |-> c, slot |-> n, op |-> o])
    BY <1>1 DEF AskPublic
  <2>2. [from |-> c, slot |-> n, op |-> o] \in Datagram
    BY DEF Datagram
  <2> QED BY <1>1, <2>1, <2>2, SendAgrees DEF AskPublic, MyOps
<1>2. ASSUME NEW o \in MyOps, AskMine(c, o) PROVE AgreeInv'
  <2>1. PICK n \in Slots \ Exchanges(c) :
          send_udp_request(c, [from |-> c, slot |-> n, op |-> o,
                               uid |-> session[c].uid])
    BY <1>2 DEF AskMine
  <2>2. session[c] \in Account /\ session[c] # None
    BY <1>2 DEF AskMine, logged_in, AgreeInv, StepInv, TypeOK
  <2>3. [from |-> c, slot |-> n, op |-> o, uid |-> session[c].uid] \in Datagram
    BY <2>2 DEF Datagram, Account
  <2> QED BY <1>2, <2>1, <2>2, <2>3, SendAgrees DEF AskMine, MyOps, Believes
<1> QED BY <1>1, <1>2 DEF handle_list, handle_show_record, handle_my_auctions,
                          handle_my_bids, MyOps

\* Nothing but gone changes.
LEMMA ExitAgrees ==
  ASSUME AgreeInv, StepInv', UNCHANGED <<server, network, session, command, history>>
  PROVE  AgreeInv'
<1>1. UNCHANGED <<pass, login, requests, replies, session, command, late, unsure,
                  clean, senders>>
  BY DEF server, network, history
<1>2. Recorded' /\ Fitting' /\ Own' /\ Undisturbed' /\ Requested'
  BY <1>1 DEF AgreeInv, Recorded, Fitting, Own, Undisturbed, Requested, Believes,
              Answers, Current, Sure, Alone
<1>3. Settled' /\ Asked' /\ Answered'
  BY <1>1 DEF AgreeInv, Settled, Asked, Answered, Sure, Alone, Concerns, Agrees,
              Believes, Answers, Done
<1>4. NeverUnsure' /\ AnswersUnderstood'
  BY <1>1 DEF AgreeInv, NeverUnsure, AnswersUnderstood, Understood, Alone
<1> QED BY <1>2, <1>3, <1>4 DEF AgreeInv

LEMMA CommandAgrees ==
  ASSUME AgreeInv, NEW c \in Clients, Command(c) PROVE AgreeInv'
<1>1. CASE handle_login(c)
  <2>1. PICK a \in knows[c] : Ask(c, "LIN", a)
    BY <1>1 DEF handle_login
  <2>2. a \in Account /\ AtPrompt(c) /\ session[c] = None
    BY <1>1 DEF AgreeInv, StepInv, TypeOK, handle_login, logged_in
  <2> QED BY <2>1, <2>2, AskAgrees DEF UserOps
<1>2. CASE handle_logout(c) \/ handle_unregister(c)
  <2>1. session[c] \in Account /\ session[c] # None /\ AtPrompt(c)
    BY <1>2 DEF handle_logout, handle_unregister, logged_in, AgreeInv, StepInv, TypeOK
  <2>2. Ask(c, "LOU", session[c]) \/ Ask(c, "UNR", session[c])
    BY <1>2 DEF handle_logout, handle_unregister
  <2> QED BY <2>1, <2>2, AskAgrees DEF UserOps
<1>3. CASE handle_exit(c)
  <2>1. StepInv'
    BY <1>3, CommandKeeps DEF Command, AgreeInv
  <2> QED BY <1>3, <2>1, ExitAgrees DEF handle_exit
<1> QED BY <1>1, <1>2, <1>3, QueryAgrees DEF Command

-----------------------------------------------------------------------------
(* Answers                                                                 *)

\* What becomes of the parts that speak of other clients, and of requests, when
\* the command of c is over: reading an answer and timing out have this in common.
CommandEnds(c) ==
  /\ command[c] # None
  /\ command' = [command EXCEPT ![c] = None]
  /\ replies' \subseteq replies
  /\ \A e \in Clients \ {c} : session'[e] = session[e]
  /\ \A e \in Clients, u \in Users :
       <<e, u>> \in unsure => <<e, u>> \in unsure' \/ (e = c /\ Concerns(c, u))
  /\ UNCHANGED <<pass, login, requests, clean, senders>>

LEMMA EndKeepsOthers ==
  ASSUME AgreeInv, NEW c \in Clients, CommandEnds(c)
  PROVE  /\ Recorded' /\ Fitting' /\ Own' /\ Undisturbed'
         /\ Asked' /\ Answered'
<1>1. command'[c] = None /\ \A e \in Clients \ {c} : command'[e] = command[e]
  BY DEF CommandEnds, AgreeInv, StepInv, TypeOK
<1>2. \A e \in Clients \ {c}, u \in Users : Sure(e, u)' => Sure(e, u)
  BY DEF CommandEnds, Sure, Alone
<1>3. \A e \in Clients \ {c}, u \in Users :
        /\ Agrees(e, u)' <=> Agrees(e, u)
        /\ Concerns(e, u)' <=> Concerns(e, u)
        /\ Done(e, u)' <=> Done(e, u)
  BY <1>1 DEF CommandEnds, Agrees, Believes, Concerns, Done
<1>4. \A u \in Users : ~Concerns(c, u)'
  BY <1>1 DEF Concerns
<1>5. Recorded'
  BY DEF CommandEnds, AgreeInv, Recorded
<1>6. Fitting'
  BY <1>1 DEF CommandEnds, AgreeInv, Fitting, Believes
<1>7. Own'
  BY <1>1 DEF CommandEnds, AgreeInv, Own, Answers
<1>8. Undisturbed'
  <2>1. clean \subseteq Clients
    BY DEF AgreeInv, StepInv, TypeOK
  <2> QED BY <1>1, <2>1 DEF CommandEnds, AgreeInv, Undisturbed, Current
<1>9. Asked'
  BY <1>1, <1>2, <1>3, <1>4 DEF CommandEnds, AgreeInv, Asked
<1>10. Answered'
  <2>1. ASSUME NEW e \in Clients, NEW u \in Users, NEW m \in replies',
               Alone(e, u)', Concerns(e, u)', Answers(e, m)'
        PROVE  /\ m.status \in Granted /\ (Sure(e, u) \/ e \in clean) => Done(e, u)
               /\ m.status \notin Granted /\ Sure(e, u) => Agrees(e, u)
               /\ e # c
    <3>1. e # c
      BY <1>4, <2>1
    <3>2. Alone(e, u) /\ Concerns(e, u) /\ Answers(e, m) /\ m \in replies
      BY <1>1, <1>3, <2>1, <3>1 DEF CommandEnds, Alone, Answers
    <3> QED BY <3>1, <3>2 DEF AgreeInv, Answered
  <2>2. clean' = clean
    BY DEF CommandEnds
  <2> QED BY <1>2, <1>3, <2>1, <2>2 DEF Answered
<1> QED BY <1>5, <1>6, <1>7, <1>8, <1>9, <1>10

\* What other clients understand
LEMMA EndKeepsUnderstood ==
  ASSUME AgreeInv, NEW c \in Clients, CommandEnds(c), late \subseteq late',
         StepInv'
  PROVE  AnswersUnderstood'
<1>1. command'[c] = None /\ \A e \in Clients \ {c} : command'[e] = command[e]
  BY DEF CommandEnds, AgreeInv, StepInv, TypeOK
<1>2. ASSUME NEW e \in Clients \ late', NEW m \in replies', m.to = e,
             \A u \in Users : Alone(e, u)'
      PROVE  Understood(e, m)'
  <2>1. e # c
    BY <1>1, <1>2 DEF StepInv, Current
  <2>2. Understood(e, m)
    BY <1>2 DEF CommandEnds, Alone, AgreeInv, AnswersUnderstood
  <2> QED BY <1>1, <2>1, <2>2 DEF Understood
<1> QED BY <1>2 DEF AnswersUnderstood

LEMMA TimeOutAgrees ==
  ASSUME AgreeInv, NEW c \in Clients, TimeOut(c) PROVE AgreeInv'
<1>1. /\ command[c] # None /\ command' = [command EXCEPT ![c] = None]
      /\ late' = late \cup {c} /\ unsure' = unsure \cup About(c)
      /\ UNCHANGED <<pass, login, requests, replies, session, clean, senders>>
  BY DEF TimeOut, server, network
<1>2. CommandEnds(c)
  BY <1>1 DEF CommandEnds
<1>3. StepInv'
  BY TimeOutKeeps DEF AgreeInv
<1>4. command'[c] = None /\ \A e \in Clients \ {c} : command'[e] = command[e]
  BY <1>1 DEF AgreeInv, StepInv, TypeOK
<1>5. \A e \in Clients, u \in Users :
        Sure(e, u)' => Sure(e, u) /\ ~(e = c /\ Concerns(c, u))
  BY <1>1, AboutConcerns DEF Sure, Alone
<1>6. Requested'
  <2>1. ASSUME NEW e \in Clients, NEW u \in Users, Sure(e, u)', NEW d \in requests,
               d.from = e, d.op \in UserOps, d.uid = u
        PROVE  d = command'[e]
    <3>1. d = command[e] /\ d # None
      BY <1>5, <2>1, NoneIsNoRequest DEF AgreeInv, StepInv, Requested
    <3>2. e # c
      BY <1>5, <2>1, <3>1 DEF Concerns
    <3> QED BY <1>4, <3>1, <3>2
  <2> QED BY <1>1, <2>1 DEF Requested
<1>7. Settled'
  <2>1. ASSUME NEW e \in Clients, NEW u \in Users, Sure(e, u)', ~Concerns(e, u)'
        PROVE  Agrees(e, u)
    <3>1. Sure(e, u) /\ ~Concerns(e, u)
      BY <1>4, <1>5, <2>1 DEF Concerns
    <3> QED BY <3>1 DEF AgreeInv, Settled
  <2>2. \A e \in Clients, u \in Users : Agrees(e, u)' <=> Agrees(e, u)
    BY <1>1 DEF Agrees, Believes
  <2> QED BY <2>1, <2>2 DEF Settled
<1>8. NeverUnsure'
  BY <1>1, AboutConcerns DEF AgreeInv, NeverUnsure
<1> QED BY <1>1, <1>2, <1>3, <1>6, <1>7, <1>8, EndKeepsOthers, EndKeepsUnderstood
        DEF AgreeInv

\* An answer never makes a client believe anything about a user its command does
\* not concern.
LEMMA OthersStay ==
  ASSUME AgreeInv, NEW c \in Clients, command[c] # None, NEW m, NEW u \in Users,
         ~Concerns(c, u), Agrees(c, u),
         session' = [session EXCEPT ![c] = SessionAfter(c, m)],
         UNCHANGED <<pass, login>>
  PROVE  Agrees(c, u)'
<1>1. session'[c] = SessionAfter(c, m)
  BY DEF AgreeInv, StepInv, TypeOK
<1>2. CASE SessionAfter(c, m) = session[c]
  BY <1>1, <1>2 DEF Agrees, Believes
<1>3. CASE command[c].op = "LIN" /\
           SessionAfter(c, m) = [uid |-> command[c].uid, passwd |-> command[c].passwd]
  <2>1. session[c] = None /\ command[c].uid # u
    BY <1>3 DEF AgreeInv, Fitting, Concerns, UserOps
  <2> QED BY <1>1, <1>3, <2>1 DEF Agrees, Believes
<1>4. CASE command[c].op \in {"LOU", "UNR"} /\ SessionAfter(c, m) = None
  <2>1. Believes(c, command[c].uid) /\ command[c].uid # u
    BY <1>4 DEF AgreeInv, Fitting, Concerns, UserOps
  <2> QED BY <1>1, <1>4, <2>1 DEF Agrees, Believes
<1> QED BY <1>2, <1>3, <1>4 DEF SessionAfter, Understood

\* The answer to its command brings a client to agree with the server.
LEMMA AnswerSettles ==
  ASSUME AgreeInv, NEW c \in Clients, command[c] # None, NEW m \in replies,
         Answers(c, m), NEW u \in Users, Concerns(c, u), Alone(c, u),
         Sure(c, u) \/ (c \in clean /\ m.status \in Granted),
         session' = [session EXCEPT ![c] = SessionAfter(c, m)],
         UNCHANGED <<pass, login>>
  PROVE  Agrees(c, u)'
<1>1. session'[c] = SessionAfter(c, m)
  BY DEF AgreeInv, StepInv, TypeOK
<1>2. Understood(c, m) /\ m.op = command[c].op /\ m.op \in UserOps
  BY DEF AgreeInv, Own, Understood, Concerns, UserOps
<1>3. CASE m.status \in Granted
  <2>1. Done(c, u)
    BY <1>3 DEF AgreeInv, Answered
  <2>2. CASE m.op = "LIN"
    <3>1. session'[c] = [uid |-> command[c].uid, passwd |-> command[c].passwd]
      BY <1>1, <1>2, <1>3, <2>2 DEF SessionAfter, Granted
    <3>2. session'[c] # None
      <4>1. command[c] \in Datagram
        BY DEF AgreeInv, StepInv, TypeOK
      <4>2. command[c].uid \in Users /\ command[c].passwd \in Passwords
        BY <1>2, <2>2, <4>1 DEF Datagram, MyOps
      <4> QED BY <3>1, <4>2, ClientAssumption DEF Account
    <3> QED BY <1>2, <2>1, <2>2, <3>1, <3>2 DEF Done, Agrees, Believes, Concerns
  <2>3. CASE m.op # "LIN"
    <3>1. m.op \in {"LOU", "UNR"} /\ m.status = "OK"
      BY <1>2, <1>3, <2>3 DEF UserOps, Understood, Understands, Granted
    <3>2. session'[c] = None
      BY <1>1, <1>2, <3>1 DEF SessionAfter
    <3> QED BY <1>2, <2>1, <2>3, <3>2 DEF Done, Agrees, Believes
  <2> QED BY <2>2, <2>3
<1>4. CASE m.status \notin Granted
  <2>1. Agrees(c, u)
    BY <1>4 DEF AgreeInv, Answered
  <2>2. session'[c] = session[c]
    BY <1>1, <1>2, <1>4 DEF SessionAfter, Granted
  <2> QED BY <2>1, <2>2 DEF Agrees, Believes
<1> QED BY <1>3, <1>4

LEMMA ReceiveAgrees ==
  ASSUME AgreeInv, NEW c \in Clients, receive_udp_response(c) PROVE AgreeInv'
<1>1. PICK m \in replies :
        /\ m.to = c /\ replies' = replies \ {m}
        /\ session' = [session EXCEPT ![c] = SessionAfter(c, m)]
        /\ unsure' = UnsureAfter(c, m)
  BY DEF receive_udp_response
<1>2. /\ command[c] # None /\ command' = [command EXCEPT ![c] = None]
      /\ UNCHANGED <<pass, login, requests, late, clean, senders>>
  BY DEF receive_udp_response, server
<1>3. StepInv'
  BY ReceiveKeeps DEF AgreeInv
<1>4. command'[c] = None /\ \A e \in Clients \ {c} :
        command'[e] = command[e] /\ session'[e] = session[e]
  BY <1>1, <1>2 DEF AgreeInv, StepInv, TypeOK
<1>5. CommandEnds(c)
  BY <1>1, <1>2, <1>4, AboutConcerns DEF CommandEnds, UnsureAfter
<1>6. ASSUME NEW u \in Users, Sure(c, u)', Concerns(c, u)
      PROVE  /\ Answers(c, m) /\ Alone(c, u)
             /\ Sure(c, u) \/ (c \in clean /\ m.status \in Granted)
  BY <1>1, <1>2, <1>6, AboutConcerns
     DEF UnsureAfter, Sure, Alone, Answers, Granted
<1>7. \A u \in Users : Sure(c, u)' /\ ~Concerns(c, u) => Sure(c, u)
  BY <1>1, <1>2, AboutConcerns DEF UnsureAfter, Sure, Alone
<1>8. \A e \in Clients \ {c}, u \in Users : Sure(e, u)' => Sure(e, u)
  BY <1>5 DEF CommandEnds, Sure, Alone
<1>9. Requested'
  <2>1. ASSUME NEW e \in Clients \ {c}, NEW u \in Users, Sure(e, u)',
               NEW d \in requests, d.from = e, d.op \in UserOps, d.uid = u
        PROVE  d = command'[e]
    BY <1>4, <1>8, <2>1 DEF AgreeInv, Requested
  <2>2. ASSUME NEW u \in Users, Sure(c, u)',
               NEW d \in requests, d.from = c, d.op \in UserOps, d.uid = u
        PROVE  FALSE
    <3>1. d.slot # m.slot
      BY <1>1, <2>2 DEF AgreeInv, StepInv, Single, SameExchange
    <3>2. Sure(c, u) => d = command[c] /\ Concerns(c, u)
      BY <1>2, <2>2 DEF AgreeInv, Requested, Concerns
    <3>3. Concerns(c, u)
      BY <1>7, <2>2, <3>2
    <3>4. Answers(c, m) /\ (Sure(c, u) \/ c \in clean)
      BY <1>6, <2>2, <3>3
    <3>5. c \in clean => d.slot = command[c].slot
      BY <1>2, <2>2 DEF AgreeInv, Undisturbed, Current
    <3> QED BY <3>1, <3>2, <3>4, <3>5 DEF Answers
  <2> QED BY <1>2, <2>1, <2>2 DEF Requested
<1>10. Settled'
  <2>1. ASSUME NEW e \in Clients \ {c}, NEW u \in Users, Sure(e, u)', ~Concerns(e, u)'
        PROVE  Agrees(e, u)'
    <3>1. Sure(e, u) /\ ~Concerns(e, u)
      BY <1>4, <1>8, <2>1 DEF Concerns
    <3>2. Agrees(e, u)
      BY <3>1 DEF AgreeInv, Settled
    <3> QED BY <1>2, <1>4, <3>2 DEF Agrees, Believes
  <2>2. ASSUME NEW u \in Users, Sure(c, u)' PROVE Agrees(c, u)'
    <3>1. CASE Concerns(c, u)
      BY <1>1, <1>2, <1>6, <2>2, <3>1, AnswerSettles
    <3>2. CASE ~Concerns(c, u)
      <4>1. Agrees(c, u)
        BY <1>7, <2>2, <3>2 DEF AgreeInv, Settled
      <4> QED BY <1>1, <1>2, <3>2, <4>1, OthersStay
    <3> QED BY <3>1, <3>2
  <2> QED BY <2>1, <2>2 DEF Settled
<1>11. NeverUnsure'
  <2>1. c \notin late => m.slot = command[c].slot
    BY <1>1 DEF AgreeInv, StepInv, Current
  <2>2. \A e \in Clients, u \in Users :
          <<e, u>> \in unsure' => <<e, u>> \in unsure \/ (e = c /\ c \in late)
    BY <1>1, <1>2, <2>1, AboutConcerns DEF UnsureAfter
  <2> QED BY <1>2, <2>2 DEF AgreeInv, NeverUnsure
<1> QED BY <1>2, <1>3, <1>5, <1>9, <1>10, <1>11, EndKeepsOthers, EndKeepsUnderstood
        DEF AgreeInv

-----------------------------------------------------------------------------
(* The server and the network                                              *)

\* What a request does to the session of its user, and to no other
LEMMA EffectOf ==
  ASSUME TypeOK, NEW d \in requests, d.op \in UserOps, Effect(d)
  PROVE  /\ \A u \in Users : ~(d.uid = u /\ Answer(d) \in Granted) =>
              (u \in login' <=> u \in login) /\ pass'[u] = pass[u]
         /\ Answer(d) \in Granted =>
              IF d.op = "LIN" THEN d.uid \in login' /\ pass'[d.uid] = d.passwd
              ELSE d.uid \notin login'
         /\ Answer(d) \in Understands(d.op)
<1>1. d.uid \in Users /\ d.passwd \in Passwords
  BY DEF TypeOK, Datagram, UserOps, MyOps
<1>2. /\ d.op = "LIN" => Answer(d) \in {"OK", "REG", "NOK"}
      /\ d.op # "LIN" => Answer(d) \in {"OK", "NOK", "UNR"}
      /\ d.op = "LIN" /\ Answer(d) = "OK" => pass[d.uid] = d.passwd
  BY DEF Answer
<1>3. Answer(d) \in Understands(d.op)
  BY <1>2 DEF Understands, UserOps
<1>4. Answer(d) \notin Granted => login' = login /\ pass' = pass
  BY DEF Effect, Granted
<1>5. CASE Answer(d) \in Granted
  <2>1. login' = IF d.op = "LIN" THEN login \cup {d.uid} ELSE login \ {d.uid}
    BY <1>5 DEF Effect, Granted
  <2>2. /\ \A u \in Users \ {d.uid} : pass'[u] = pass[u]
        /\ d.op = "LIN" => pass'[d.uid] = d.passwd
    BY <1>1, <1>2, <1>5 DEF Effect, TypeOK, Granted
  <2> QED BY <1>3, <1>5, <2>1, <2>2
<1> QED BY <1>3, <1>4, <1>5

LEMMA ReplyAgrees ==
  ASSUME AgreeInv, StepInv', NEW d \in requests, NEW s \in Statuses, ReplyTo(d, s),
         \A u \in Users : ~(d.op \in UserOps /\ d.uid = u /\ s \in Granted) =>
           (u \in login' <=> u \in login) /\ pass'[u] = pass[u],
         d.op \in UserOps /\ s \in Granted =>
           IF d.op = "LIN" THEN d.uid \in login' /\ pass'[d.uid] = d.passwd
           ELSE d.uid \notin login',
         s \notin Understands(d.op) => d.op = "LMB" /\ d.uid \notin login
  PROVE  AgreeInv'
<1> DEFINE r == [to |-> d.from, slot |-> d.slot, op |-> d.op, status |-> s]
<1>1. /\ requests' = requests \ {d} /\ replies' = replies \cup {r}
      /\ UNCHANGED <<session, command, late, unsure, clean, senders>>
  BY DEF ReplyTo, history
<1>2. r.to = d.from /\ r.slot = d.slot /\ r.op = d.op /\ r.status = s
  OBVIOUS
<1> HIDE DEF r
<1>3. d \in Datagram /\ d.from \in Clients
  BY DEF AgreeInv, StepInv, TypeOK, Datagram
<1>4. \A c \in Clients : command[c] # None /\ Answers(c, r) => c = d.from /\ d = command[c]
  <2>1. Own
    BY DEF AgreeInv
  <2>2. ASSUME NEW c \in Clients, command[c] # None, Answers(c, r)
        PROVE  c = d.from /\ d = command[c]
    <3>1. c = d.from /\ d.slot = command[c].slot
      BY <1>2, <2>2 DEF Answers
    <3> QED BY <2>1, <2>2, <3>1 DEF Own
  <2> QED BY <2>2
<1>5. \A c \in Clients, u \in Users :
        /\ Sure(c, u)' <=> Sure(c, u)
        /\ Alone(c, u)' <=> Alone(c, u)
        /\ Concerns(c, u)' <=> Concerns(c, u)
  BY <1>1 DEF Sure, Alone, Concerns
<1>6. ASSUME NEW c \in Clients, NEW u \in Users, Agrees(c, u),
             ~(d.op \in UserOps /\ d.uid = u /\ s \in Granted)
      PROVE  Agrees(c, u)'
  BY <1>1, <1>6 DEF Agrees, Believes
<1>7. ASSUME NEW c \in Clients, NEW u \in Users, Sure(c, u), d.op \in UserOps, d.uid = u
      PROVE  d = command[c] /\ d.from = c /\ Concerns(c, u)
  <2>1. d.from = c
    BY <1>3, <1>7 DEF AgreeInv, Recorded, Sure, Alone
  <2>2. d = command[c] /\ d # None
    BY <1>7, <2>1, NoneIsNoRequest DEF AgreeInv, StepInv, Requested
  <2> QED BY <1>7, <2>1, <2>2 DEF Concerns
<1>8. Recorded' /\ Fitting'
  BY <1>1 DEF AgreeInv, Recorded, Fitting, Believes
<1>9. Own'
  <2>1. ASSUME NEW c \in Clients, command[c] # None, NEW m \in replies', Answers(c, m)
        PROVE  m.op = command[c].op /\ (m.op # "LMB" => m.status \in Understands(m.op))
    <3>1. CASE m \in replies
      BY <2>1, <3>1 DEF AgreeInv, Own
    <3>2. CASE m = r
      BY <1>2, <1>4, <2>1, <3>2
    <3> QED BY <1>1, <2>1, <3>1, <3>2
  <2> QED BY <1>1, <2>1 DEF AgreeInv, Own, Answers
<1>10. Undisturbed'
  BY <1>1, <1>2 DEF AgreeInv, Undisturbed, Current
<1>11. Requested'
  BY <1>1, <1>5 DEF AgreeInv, Requested
<1>12. Settled'
  <2>1. ASSUME NEW c \in Clients, NEW u \in Users, Sure(c, u), ~Concerns(c, u)
        PROVE  Agrees(c, u)'
    <3>1. Agrees(c, u)
      BY <2>1 DEF AgreeInv, Settled
    <3> QED BY <1>6, <1>7, <2>1, <3>1
  <2> QED BY <1>5, <2>1 DEF Settled
<1>13. Asked'
  <2>1. ASSUME NEW c \in Clients, NEW u \in Users, Sure(c, u), Concerns(c, u),
               command[c] \in requests'
        PROVE  Agrees(c, u)'
    <3>1. Agrees(c, u) /\ command[c] # d
      BY <1>1, <2>1 DEF AgreeInv, Asked
    <3> QED BY <1>6, <1>7, <2>1, <3>1
  <2> QED BY <1>1, <1>5, <2>1 DEF Asked
<1>14. Answered'
  <2>1. ASSUME NEW c \in Clients, NEW u \in Users, NEW m \in replies',
               Alone(c, u), Concerns(c, u), Answers(c, m)
        PROVE  /\ m.status \in Granted /\ (Sure(c, u) \/ c \in clean) => Done(c, u)'
               /\ m.status \notin Granted /\ Sure(c, u) => Agrees(c, u)'
    <3>1. CASE m = r
      <4>1. d = command[c] /\ d.op \in UserOps /\ d.uid = u
        BY <1>4, <2>1, <3>1 DEF Concerns
      <4>2. s \in Granted => Done(c, u)'
        BY <1>1, <4>1 DEF Done
      <4>3. Sure(c, u) => Agrees(c, u)
        BY <2>1, <4>1 DEF AgreeInv, Asked
      <4> QED BY <1>2, <1>6, <3>1, <4>2, <4>3
    <3>2. CASE m \in replies
      <4>1. ASSUME Sure(c, u) \/ c \in clean, d.op \in UserOps, d.uid = u
            PROVE  FALSE
        <5>1. d.from = c
          BY <1>3, <2>1, <4>1 DEF AgreeInv, Recorded, Alone
        <5>2. d.slot = command[c].slot
          <6>1. CASE Sure(c, u)
            BY <1>7, <4>1, <6>1
          <6>2. CASE c \in clean
            BY <2>1, <5>1, <6>2 DEF AgreeInv, Undisturbed, Current, Concerns
          <6> QED BY <4>1, <6>1, <6>2
        <5> QED BY <2>1, <3>2, <5>1, <5>2
                DEF AgreeInv, StepInv, Single, SameExchange, Answers
      <4>2. /\ m.status \in Granted /\ (Sure(c, u) \/ c \in clean) => Done(c, u)
            /\ m.status \notin Granted /\ Sure(c, u) => Agrees(c, u)
        BY <2>1, <3>2 DEF AgreeInv, Answered
      <4>3. ASSUME Sure(c, u) \/ c \in clean, Done(c, u) PROVE Done(c, u)'
        BY <1>1, <4>1, <4>3 DEF Done
      <4> QED BY <1>6, <4>1, <4>2, <4>3
    <3> QED BY <1>1, <2>1, <3>1, <3>2
  <2> QED BY <1>1, <1>5, <2>1 DEF Answered, Answers
<1>15. NeverUnsure'
  BY <1>1 DEF AgreeInv, NeverUnsure
<1>16. AnswersUnderstood'
  <2>1. ASSUME NEW c \in Clients \ late, NEW m \in replies', m.to = c,
               \A u \in Users : Alone(c, u)
        PROVE  Understood(c, m)
    <3>1. CASE m \in replies
      BY <2>1, <3>1 DEF AgreeInv, AnswersUnderstood
    <3>2. CASE m = r
      <4>1. d.from = c /\ d = command[c] /\ d # None
        BY <1>2, <2>1, <3>2, NoneIsNoRequest
           DEF AgreeInv, StepInv, Current, Own
      <4>2. CASE d.op # "LMB"
        BY <1>2, <3>2, <4>1, <4>2 DEF Understood
      <4>3. CASE d.op = "LMB"
        <5>1. d.uid \in Users
          BY <1>3, <4>3 DEF Datagram, MyOps, UserOps
        <5>2. Sure(c, d.uid) /\ ~Concerns(c, d.uid)
          BY <2>1, <4>1, <4>3, <5>1 DEF Sure, AgreeInv, NeverUnsure, Concerns, UserOps
        <5>3. Agrees(c, d.uid) /\ Believes(c, d.uid)
          BY <4>1, <4>3, <5>1, <5>2 DEF AgreeInv, Settled, Fitting, MyOps
        <5>4. s \in Understands(d.op)
          BY <5>3 DEF Agrees
        <5> QED BY <1>2, <3>2, <4>1, <5>4 DEF Understood
      <4> QED BY <4>2, <4>3
    <3> QED BY <1>1, <2>1, <3>1, <3>2
  <2>2. \A c \in Clients, m \in replies' : Understood(c, m)' <=> Understood(c, m)
    BY <1>1 DEF Understood
  <2> QED BY <1>1, <1>5, <2>1, <2>2 DEF AnswersUnderstood
<1> QED BY <1>8, <1>9, <1>10, <1>11, <1>12, <1>13, <1>14, <1>15, <1>16 DEF AgreeInv

LEMMA ServeUserAgrees == ASSUME AgreeInv, ServeUser PROVE AgreeInv'
<1>1. PICK d \in requests : d.op \in UserOps /\ Effect(d) /\ ReplyTo(d, Answer(d))
  BY DEF ServeUser
<1>2. StepInv'
  BY ServeUserKeeps DEF AgreeInv
<1>3. Answer(d) \in Statuses
  BY DEF Answer, Statuses
<1>4. TypeOK
  BY DEF AgreeInv, StepInv
<1> QED BY <1>1, <1>2, <1>3, <1>4, EffectOf, ReplyAgrees

LEMMA ServeQueryAgrees == ASSUME AgreeInv, ServeQuery PROVE AgreeInv'
<1>1. PICK d \in requests : d.op \in QueryOps /\ \E s \in QueryStatuses(d) : ReplyTo(d, s)
  BY DEF ServeQuery
<1>2. PICK s \in QueryStatuses(d) : ReplyTo(d, s)
  BY <1>1
<1>3. StepInv' /\ pass' = pass /\ login' = login
  BY ServeQueryKeeps DEF AgreeInv, ServeQuery, server
<1>4. s \in Statuses /\ d.op \notin UserOps
  BY <1>1 DEF QueryStatuses, Statuses, QueryOps, MyOps, UserOps
<1>5. s \notin Understands(d.op) => d.op = "LMB" /\ d.uid \notin login
  BY <1>1 DEF QueryStatuses, Understands, QueryOps, MyOps
<1> QED BY <1>2, <1>3, <1>4, <1>5, ReplyAgrees

LEMMA LoseAgrees == ASSUME AgreeInv, Lose PROVE AgreeInv'
<1>1. /\ requests' \subseteq requests /\ replies' \subseteq replies
      /\ UNCHANGED <<pass, login, session, command, late, unsure, clean, senders>>
  BY DEF Lose, server, history
<1>2. StepInv'
  BY LoseKeeps DEF AgreeInv
<1>3. Recorded' /\ Fitting' /\ Own' /\ Undisturbed' /\ Requested'
  BY <1>1 DEF AgreeInv, Recorded, Fitting, Own, Undisturbed, Requested, Believes,
              Answers, Current, Sure, Alone
<1>4. Settled' /\ Asked' /\ Answered'
  BY <1>1 DEF AgreeInv, Settled, Asked, Answered, Sure, Alone, Concerns, Agrees,
              Believes, Answers, Done
<1>5. NeverUnsure' /\ AnswersUnderstood'
  BY <1>1 DEF AgreeInv, NeverUnsure, AnswersUnderstood, Understood, Alone
<1> QED BY <1>2, <1>3, <1>4, <1>5 DEF AgreeInv

-----------------------------------------------------------------------------
LEMMA InitAgrees == Init => AgreeInv
<1> SUFFICES ASSUME Init PROVE AgreeInv
  OBVIOUS
<1>1. StepInv
  BY InitSteps
<1>2. /\ requests = {} /\ replies = {} /\ unsure = {} /\ clean = {} /\ login = {}
      /\ \A c \in Clients : session[c] = None /\ command[c] = None
  BY DEF Init, AccountsInit
<1>3. Settled /\ Asked
  BY <1>2 DEF Settled, Asked, Agrees, Believes, Concerns
<1>4. Answered /\ Requested /\ Recorded /\ AnswersUnderstood
  BY <1>2 DEF Answered, Requested, Recorded, AnswersUnderstood
<1>5. Fitting /\ Own /\ Undisturbed /\ NeverUnsure
  BY <1>2 DEF Fitting, Own, Undisturbed, NeverUnsure
<1> QED BY <1>1, <1>3, <1>4, <1>5 DEF AgreeInv

LEMMA NextAgrees == AgreeInv /\ [Next]_vars => AgreeInv'
<1> SUFFICES ASSUME AgreeInv, [Next]_vars PROVE AgreeInv'
  OBVIOUS
<1>1. CASE UNCHANGED vars
  <2>1. StepInv'
    BY <1>1, NextKeepsStep DEF AgreeInv
  <2> QED BY <1>1, <2>1, ExitAgrees DEF vars
<1>2. CASE \E c \in Clients : Command(c) \/ receive_udp_response(c) \/ TimeOut(c)
  BY <1>2, CommandAgrees, ReceiveAgrees, TimeOutAgrees
<1>3. CASE ServeUser \/ ServeQuery \/ Lose
  BY <1>3, ServeUserAgrees, ServeQueryAgrees, LoseAgrees
<1> QED BY <1>1, <1>2, <1>3 DEF Next

\* From before a command is sent until after its answer is read, what the client
\* believes, what is under way and what the server has belong together.
THEOREM AgreeInvHolds == Spec => []AgreeInv
BY InitAgrees, NextAgrees, PTL DEF Spec

\* At the prompt client and server agree about every user that no other client
\* uses and for which no answer went missing, for any number of clients and users
\* and whatever is lost, late or reordered.
THEOREM SessionsAgreeHolds == Spec => []SessionsAgree
<1>1. AgreeInv => SessionsAgree
  <2> SUFFICES ASSUME AgreeInv, NEW c \in Clients, NEW u \in Users,
                      command[c] = None, Sure(c, u)
               PROVE  /\ u \in login <=> session[c] # None /\ session[c].uid = u
                      /\ session[c] # None /\ session[c].uid = u => Admitted(session[c])
    BY DEF SessionsAgree, Sure
  <2>1. Agrees(c, u)
    BY DEF AgreeInv, Settled, Concerns
  <2> QED BY <2>1 DEF Agrees, Believes, Admitted
<1> QED BY <1>1, AgreeInvHolds, PTL

\* A client that has never timed out and shares its users with nobody understands
\* every answer; for mybids this rests on the agreement.
THEOREM AnswersUnderstoodHolds == Spec => []AnswersUnderstood
<1>1. AgreeInv => AnswersUnderstood
  BY DEF AgreeInv
<1> QED BY <1>1, AgreeInvHolds, PTL
=============================================================================
