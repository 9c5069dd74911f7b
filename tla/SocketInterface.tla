--------------------------- MODULE SocketInterface ---------------------------
(***************************************************************************)
(* The sockets by which the processes of a crawl send data to an           *)
(* aggregator (SocketInterface.py).  A server socket has a thread that     *)
(* accepts connections and a thread for each connection that puts what it  *)
(* receives on one queue.  Clients are the TaskManager and the browsers'   *)
(* extensions; a browser may be killed at any time.                        *)
(*                                                                         *)
(* A message stands for its frame: a header, the length and the            *)
(* serialized text.  A frame that was cut off by the end of its client is  *)
(* dropped, as if it had not been sent.                                    *)
(***************************************************************************)
EXTENDS Naturals, Sequences

CONSTANTS
  Client,    \* client sockets
  Kind,      \* Kind[c]: the kinds of messages c sends
  MaxSent    \* bound: messages of each client

Kinds == {"row", "visit", "create", "unsupported", "undecodable"}

ASSUME SocketAssumption ==
  Kind \in [Client -> SUBSET Kinds] /\ MaxSent \in Nat

VARIABLES
  client,    \* each client socket: "new", "open", "closed" or "broken"
  handler,   \* the thread of each connection: "none", "reads" or "ended"
  stream,    \* what is on its way from each client
  sent,      \* history: what each client has sent
  queue,     \* queue of the server socket
  listening, \* the server socket is not closed
  serving    \* the process of the server runs

socketVars == <<client, handler, stream, sent, queue, listening, serving>>

(* The nth message of client c; a "visit" carries a visit id.              *)
Message(c, n, kind, visit) == [from |-> c, n |-> n, kind |-> kind, visit |-> visit]

Connect(c) ==
  /\ client[c] = "new"
  /\ client' = [client EXCEPT ![c] = IF listening THEN "open" ELSE "broken"]
  /\ UNCHANGED <<handler, stream, sent, queue, listening, serving>>

Accept(c) ==
  /\ listening /\ client[c] \in {"open", "closed"} /\ handler[c] = "none"
  /\ handler' = [handler EXCEPT ![c] = "reads"]
  /\ UNCHANGED <<client, stream, sent, queue, listening, serving>>

(* When the server is gone a send raises, unless it is the first since.    *)
Send(c, kind, visit) ==
  LET m == Message(c, Len(sent[c]) + 1, kind, visit) IN
  /\ client[c] = "open" /\ Len(sent[c]) < MaxSent
  /\ \/ /\ serving
        /\ stream' = [stream EXCEPT ![c] = Append(@, m)]
        /\ sent' = [sent EXCEPT ![c] = Append(@, m)]
        /\ UNCHANGED client
     \/ /\ ~serving
        /\ client' = [client EXCEPT ![c] = "broken"]
        /\ UNCHANGED <<stream, sent>>
     \/ /\ ~serving
        /\ sent' = [sent EXCEPT ![c] = Append(@, m)]
        /\ UNCHANGED <<client, stream>>
  /\ UNCHANGED <<handler, queue, listening, serving>>

CloseClient(c) ==
  /\ client[c] = "open"
  /\ client' = [client EXCEPT ![c] = "closed"]
  /\ UNCHANGED <<handler, stream, sent, queue, listening, serving>>

(* A mutant: a message that cannot be decoded ends the thread.             *)
ReceiveOrEnd(c) ==
  /\ serving /\ handler[c] = "reads" /\ stream[c] # <<>>
  /\ LET m == Head(stream[c]) IN
       IF m.kind = "undecodable"
       THEN handler' = [handler EXCEPT ![c] = "ended"] /\ UNCHANGED queue
       ELSE queue' = Append(queue, m) /\ UNCHANGED handler
  /\ stream' = [stream EXCEPT ![c] = Tail(@)]
  /\ UNCHANGED <<client, sent, listening, serving>>

(* A mutant: the queue is a stack.                                         *)
ReceiveOnTop(c) ==
  /\ serving /\ handler[c] = "reads" /\ stream[c] # <<>>
  /\ LET m == Head(stream[c]) IN
       queue' = IF m.kind = "undecodable" THEN queue ELSE <<m>> \o queue
  /\ stream' = [stream EXCEPT ![c] = Tail(@)]
  /\ UNCHANGED <<client, handler, sent, listening, serving>>

(* _handle_conn: a message that cannot be decoded is skipped.              *)
Receive(c) ==
  /\ serving /\ handler[c] = "reads" /\ stream[c] # <<>>
  /\ LET m == Head(stream[c]) IN
       queue' = IF m.kind = "undecodable" THEN queue ELSE Append(queue, m)
  /\ stream' = [stream EXCEPT ![c] = Tail(@)]
  /\ UNCHANGED <<client, handler, sent, listening, serving>>

HandlerEnds(c) ==
  /\ serving /\ handler[c] = "reads" /\ stream[c] = <<>> /\ client[c] = "closed"
  /\ handler' = [handler EXCEPT ![c] = "ended"]
  /\ UNCHANGED <<client, stream, sent, queue, listening, serving>>

(* The process of the server ends, with its threads and its queue.         *)
ServerEnds ==
  /\ serving' = FALSE /\ listening' = FALSE
  /\ handler' = [c \in Client |-> "ended"]
  /\ stream' = [c \in Client |-> <<>>]
  /\ UNCHANGED <<client, sent>>

ServerStep(c) == Accept(c) \/ Receive(c) \/ HandlerEnds(c)

SocketInit ==
  /\ client = [c \in Client |-> "new"] /\ handler = [c \in Client |-> "none"]
  /\ stream = [c \in Client |-> <<>>] /\ sent = [c \in Client |-> <<>>]
  /\ queue = <<>> /\ listening = TRUE /\ serving = TRUE

MessageSet == [from : Client, n : 1 .. MaxSent, kind : Kinds, visit : 0 .. MaxSent]

SocketTypeOK ==
  /\ client \in [Client -> {"new", "open", "closed", "broken"}]
  /\ handler \in [Client -> {"none", "reads", "ended"}]
  /\ stream \in [Client -> Seq(MessageSet)]
  /\ sent \in [Client -> Seq(MessageSet)]
  /\ queue \in Seq(MessageSet)
  /\ listening \in BOOLEAN /\ serving \in BOOLEAN
=============================================================================
