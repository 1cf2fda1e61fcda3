------------------------------ MODULE TaskFifo ------------------------------
(***************************************************************************)
(* What the pool of workers promises to the thread that accepts TCP        *)
(* connections: every connection it hands over is served once, in the      *)
(* order of arrival, and at most Capacity wait for a worker.               *)
(***************************************************************************)
EXTENDS Naturals, Sequences

CONSTANTS Connections, Acceptors, Pool, Capacity, NoTask

VARIABLES
  offered,  \* offered[a]: the connection acceptor a wants to hand over
  queue,    \* the connections that wait for a worker
  serving   \* serving[w]: the connection worker w serves

fifoVars == <<offered, queue, serving>>

FifoInit ==
  /\ offered = [a \in Acceptors |-> NoTask]
  /\ queue = <<>>
  /\ serving = [w \in Pool |-> NoTask]

Accept(a, c) ==
  /\ offered[a] = NoTask
  /\ offered' = [offered EXCEPT ![a] = c]
  /\ UNCHANGED <<queue, serving>>

HandOver(a) ==
  /\ offered[a] # NoTask
  /\ Len(queue) < Capacity
  /\ queue' = Append(queue, offered[a])
  /\ offered' = [offered EXCEPT ![a] = NoTask]
  /\ UNCHANGED serving

Take(w) ==
  /\ serving[w] = NoTask
  /\ queue # <<>>
  /\ serving' = [serving EXCEPT ![w] = Head(queue)]
  /\ queue' = Tail(queue)
  /\ UNCHANGED offered

Close(w) ==
  /\ serving[w] # NoTask
  /\ serving' = [serving EXCEPT ![w] = NoTask]
  /\ UNCHANGED <<offered, queue>>

FifoNext ==
  \/ \E a \in Acceptors : HandOver(a) \/ \E c \in Connections : Accept(a, c)
  \/ \E w \in Pool : Take(w) \/ Close(w)

\* A worker that serves is done some day, and a connection that waits is taken.
FifoFair ==
  /\ \A a \in Acceptors : WF_fifoVars(HandOver(a))
  /\ \A w \in Pool : WF_fifoVars(Close(w))
  /\ WF_fifoVars(\E w \in Pool : Take(w))

FifoSpec == FifoInit /\ [][FifoNext]_fifoVars /\ FifoFair
=============================================================================
