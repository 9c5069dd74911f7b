------------------------ MODULE DataAggregator_proofs ------------------------
(***************************************************************************)
(* What holds of the data aggregator for any clients, batch size and       *)
(* statements: its state is well typed; no more than a batch of rows waits *)
(* for a commit; the database is a log of what was executed, written       *)
(* behind; rows keep the order of their clients; and a clean end loses     *)
(* nothing.  AggregatorInv carries the first three: between two commits    *)
(* the counter has counted every row that is executed.  InOrder and        *)
(* NothingDropped follow a row from its client to the database.            *)
(***************************************************************************)
EXTENDS DataAggregator, SequenceTheorems, TLAPS

USE SocketAssumption, AggregatorAssumption

-----------------------------------------------------------------------------
(* Type correctness of the sockets.                                        *)

LEMMA ReceiveType ==
  ASSUME SocketTypeOK, NEW c \in Client, Receive(c)
  PROVE  SocketTypeOK'
  <1> USE DEF SocketTypeOK, Receive
  <1>1. stream[c] \in Seq(MessageSet) /\ stream[c] # <<>>
    OBVIOUS
  <1>2. Head(stream[c]) \in MessageSet /\ Tail(stream[c]) \in Seq(MessageSet)
    BY <1>1, HeadTailProperties
  <1>3. queue' \in Seq(MessageSet)
    BY <1>2
  <1>4. stream' \in [Client -> Seq(MessageSet)]
    BY <1>2
  <1> QED
    BY <1>3, <1>4

LEMMA SendType ==
  ASSUME SocketTypeOK, NEW c \in Client, NEW k \in Kinds, NEW v \in 0 .. MaxSent,
         Send(c, k, v)
  PROVE  SocketTypeOK'
  <1> DEFINE m == Message(c, Len(sent[c]) + 1, k, v)
  <1>1. sent[c] \in Seq(MessageSet) /\ Len(sent[c]) \in Nat /\ Len(sent[c]) < MaxSent
    BY DEF SocketTypeOK, Send
  <1>2. Len(sent[c]) + 1 \in 1 .. MaxSent
    BY <1>1
  <1>3. m \in MessageSet
    BY <1>2 DEF Message, MessageSet
  <1> HIDE DEF m
  <1>4. /\ client' \in [Client -> {"new", "open", "closed", "broken"}]
        /\ sent' \in [Client -> Seq(MessageSet)]
        /\ stream' \in [Client -> Seq(MessageSet)]
    <2>1. /\ Append(sent[c], m) \in Seq(MessageSet)
          /\ Append(stream[c], m) \in Seq(MessageSet)
      BY <1>3 DEF SocketTypeOK
    <2>2. /\ \/ sent' = sent
             \/ sent' = [sent EXCEPT ![c] = Append(sent[c], m)]
          /\ \/ stream' = stream
             \/ stream' = [stream EXCEPT ![c] = Append(stream[c], m)]
          /\ \/ client' = client
             \/ client' = [client EXCEPT ![c] = "broken"]
      BY DEF Send, m
    <2> QED
      BY <2>1, <2>2 DEF SocketTypeOK
  <1> QED
    BY <1>4 DEF SocketTypeOK, Send

LEMMA ServerEndsType ==
  ASSUME SocketTypeOK, ServerEnds, queue' \in Seq(MessageSet)
  PROVE  SocketTypeOK'
  BY EmptySeq DEF SocketTypeOK, ServerEnds

LEMMA ServerStepType ==
  ASSUME SocketTypeOK, NEW c \in Client, ServerStep(c)
  PROVE  SocketTypeOK'
  <1>1. CASE Accept(c)
    BY <1>1 DEF Accept, SocketTypeOK
  <1>2. CASE Receive(c)
    BY <1>2, ReceiveType
  <1>3. CASE HandlerEnds(c)
    BY <1>3 DEF HandlerEnds, SocketTypeOK
  <1> QED
    BY <1>1, <1>2, <1>3 DEF ServerStep

LEMMA ClientStepType ==
  ASSUME SocketTypeOK, NEW c \in Client, ClientStep(c)
  PROVE  SocketTypeOK'
  <1>1. CASE Connect(c)
    BY <1>1 DEF Connect, SocketTypeOK
  <1>2. CASE CloseClient(c)
    BY <1>2 DEF CloseClient, SocketTypeOK
  <1>3. CASE \E kind \in Kind[c] : \E v \in 0 .. MaxSent : Send(c, kind, v)
    <2>1. PICK kind \in Kind[c], v \in 0 .. MaxSent : Send(c, kind, v)
      BY <1>3
    <2>2. kind \in Kinds
      OBVIOUS
    <2> QED
      BY <2>1, <2>2, SendType
  <1> QED
    BY <1>1, <1>2, <1>3 DEF ClientStep

-----------------------------------------------------------------------------
(* The counter covers what is executed.                                    *)

Counted ==
  /\ pc \in {"loop", "look"} => Len(executed) <= counter /\ counter < BatchSize
  /\ pc = "executed" => Len(executed) <= counter

AggregatorInv == TypeOK /\ Counted

LEMMA CommitType ==
  ASSUME TypeOK, Commit
  PROVE  /\ executed' = <<>> /\ executed' \in Seq(MessageSet) /\ Len(executed') = 0
         /\ committed' \in Seq(MessageSet)
  BY ConcatProperties, EmptySeq DEF TypeOK, Commit

(* A query adds at most one row.                                           *)
LEMMA QueryAdds ==
  ASSUME TypeOK, NEW l, ProcessQuery(l)
  PROVE  /\ SocketTypeOK' /\ pc' = l
         /\ executed' \in Seq(MessageSet) /\ committed' \in Seq(MessageSet)
         /\ Len(executed') <= Len(executed) + 1
         /\ UNCHANGED <<told, recent, settled>>
  <1> DEFINE m == Head(queue)
  <1>1. queue \in Seq(MessageSet) /\ queue # <<>>
    BY DEF TypeOK, SocketTypeOK, ProcessQuery
  <1>2. m \in MessageSet /\ Tail(queue) \in Seq(MessageSet)
    BY <1>1, HeadTailProperties
  <1>3. SocketTypeOK'
    <2>1. queue' \in Seq(MessageSet)
      BY <1>2 DEF ProcessQuery
    <2> QED
      BY <2>1 DEF ProcessQuery, TypeOK, SocketTypeOK
  <1>4. executed \in Seq(MessageSet) /\ committed \in Seq(MessageSet)
        /\ Len(executed) \in Nat
    BY DEF TypeOK
  <1>5. /\ executed' \in Seq(MessageSet) /\ committed' \in Seq(MessageSet)
        /\ Len(executed') <= Len(executed) + 1
    <2>1. CASE executed' = Append(executed, m) /\ committed' = committed
      BY <2>1, <1>2, <1>4, AppendProperties
    <2>2. CASE Commit
      BY <2>2, <1>4, CommitType
    <2>3. CASE executed' = executed /\ committed' = committed
      BY <2>3, <1>4
    <2> QED
      BY <2>1, <2>2, <2>3 DEF ProcessQuery
  <1> QED
    BY <1>3, <1>5 DEF ProcessQuery

LEMMA CrashType ==
  ASSUME TypeOK, Crash
  PROVE  AggregatorInv'
  <1>1. queue' \in Seq(MessageSet) /\ executed' \in Seq(MessageSet)
    BY EmptySeq DEF Crash
  <1>2. SocketTypeOK'
    BY <1>1, ServerEndsType DEF Crash, TypeOK
  <1> QED
    BY <1>1, <1>2 DEF Crash, TypeOK, AggregatorInv, Counted

LEMMA StepInv ==
  ASSUME AggregatorInv, [Next]_vars
  PROVE  AggregatorInv'
  <1> USE DEF AggregatorInv
  <1>0. Len(executed) \in Nat /\ counter \in 0 .. BatchSize /\ BatchSize \in Nat \ {0}
    BY DEF TypeOK
  <1>1. CASE LookForDie
    BY <1>1 DEF LookForDie, TypeOK, Counted, SocketTypeOK, socketVars
  <1>2. CASE Execute
    <2>1. ProcessQuery("executed") /\ pc = "look" /\ counter' = counter + 1
      BY <1>2 DEF Execute
    <2>2. counter < BatchSize /\ Len(executed) <= counter
      BY <2>1 DEF Counted
    <2>3. /\ SocketTypeOK' /\ pc' = "executed"
          /\ executed' \in Seq(MessageSet) /\ committed' \in Seq(MessageSet)
          /\ Len(executed') <= Len(executed) + 1
          /\ UNCHANGED <<told, recent, settled>>
      BY <2>1, QueryAdds
    <2>4. counter' \in 0 .. BatchSize
      BY <2>1, <2>2, <1>0
    <2>5. TypeOK'
      BY <2>3, <2>4 DEF TypeOK
    <2>6. Len(executed') \in Nat
      BY <2>3
    <2>7. Len(executed') <= counter'
      BY <2>1, <2>2, <2>3, <2>6, <1>0
    <2> QED
      BY <2>3, <2>5, <2>7 DEF Counted
  <1>3. CASE IntegrityError
    BY <1>3, CrashType DEF IntegrityError
  <1>4. CASE BatchCommit
    <2>1. SocketTypeOK'
      BY <1>4 DEF BatchCommit, TypeOK, SocketTypeOK, socketVars
    <2>2. CASE counter >= BatchSize
      <3>1. Commit /\ counter' = 0 /\ recent' = TRUE /\ pc' = "loop"
            /\ UNCHANGED <<told, settled>>
        BY <1>4, <2>2 DEF BatchCommit
      <3> QED
        BY <3>1, <2>1, CommitType DEF TypeOK, Counted
    <2>3. CASE ~(counter >= BatchSize)
      BY <1>0, <1>4, <2>1, <2>3 DEF BatchCommit, TypeOK, Counted
    <2> QED
      BY <2>2, <2>3
  <1>5. CASE IdleCommit
    <2>1. SocketTypeOK'
      BY <1>5 DEF IdleCommit, TypeOK, SocketTypeOK, socketVars
    <2>2. CASE Commit
      <3>1. pc = "look" /\ pc' = "loop" /\ UNCHANGED <<counter, told, recent, settled>>
        BY <1>5 DEF IdleCommit
      <3> QED
        BY <3>1, <2>1, <2>2, <1>0, CommitType DEF TypeOK, Counted
    <2>3. CASE UNCHANGED <<executed, committed>>
      BY <1>5, <2>1, <2>3 DEF IdleCommit, TypeOK, Counted
    <2> QED
      BY <1>5, <2>2, <2>3 DEF IdleCommit
  <1>6. CASE CloseSocket
    <2>1. settled' \in BOOLEAN /\ listening' \in BOOLEAN
      BY <1>6 DEF CloseSocket
    <2> QED
      BY <1>6, <2>1 DEF CloseSocket, TypeOK, Counted, SocketTypeOK
  <1>7. CASE Drain
    <2>1. ProcessQuery("drain") /\ counter' = counter
      BY <1>7 DEF Drain
    <2>2. /\ SocketTypeOK' /\ pc' = "drain"
          /\ executed' \in Seq(MessageSet) /\ committed' \in Seq(MessageSet)
          /\ UNCHANGED <<told, recent, settled>>
      BY <2>1, QueryAdds
    <2> QED
      BY <2>1, <2>2 DEF TypeOK, Counted
  <1>8. CASE DrainEnds
    BY <1>8 DEF DrainEnds, TypeOK, Counted, SocketTypeOK, socketVars
  <1>9. CASE CloseDatabase
    <2>1. SocketTypeOK'
      BY <1>9, ServerEndsType DEF CloseDatabase, TypeOK, SocketTypeOK
    <2>2. Commit /\ pc' = "ended" /\ UNCHANGED <<told, counter, recent, settled>>
      BY <1>9 DEF CloseDatabase
    <2> QED
      BY <2>1, <2>2, CommitType DEF TypeOK, Counted
  <1>10. CASE FiveSecondsPass
    BY <1>10 DEF FiveSecondsPass, TypeOK, Counted, SocketTypeOK, socketVars
  <1>11. CASE Kill
    BY <1>11, CrashType DEF Kill
  <1>12. CASE TellToDie
    BY <1>12 DEF TellToDie, TypeOK, Counted, SocketTypeOK, socketVars
  <1>13. ASSUME NEW c \in Client, ClientStep(c) \/ HandlerStep(c)
         PROVE  AggregatorInv'
    <2>1. SocketTypeOK'
      BY <1>13, ClientStepType, ServerStepType DEF TypeOK, HandlerStep
    <2>2. UNCHANGED aggregatorVars
      BY <1>13 DEF ClientStep, HandlerStep
    <2> QED
      BY <2>1, <2>2 DEF aggregatorVars, TypeOK, Counted
  <1>14. CASE UNCHANGED vars
    BY <1>14 DEF vars, socketVars, aggregatorVars, TypeOK, Counted, SocketTypeOK
  <1> QED
    BY <1>1, <1>2, <1>3, <1>4, <1>5, <1>6, <1>7, <1>8, <1>9, <1>10, <1>11, <1>12,
       <1>13, <1>14 DEF Next, AggregatorStep

LEMMA InitInv ==
  ASSUME Init
  PROVE  AggregatorInv
  <1>1. /\ <<>> \in Seq(MessageSet) /\ Len(executed) = 0
        /\ executed \in Seq(MessageSet) /\ committed \in Seq(MessageSet)
    BY EmptySeq DEF Init
  <1>2. SocketTypeOK
    BY <1>1 DEF Init, SocketInit, SocketTypeOK
  <1>3. pc = "loop" /\ counter = 0 /\ counter \in 0 .. BatchSize /\ counter < BatchSize
    BY DEF Init
  <1>4. told \in BOOLEAN /\ recent \in BOOLEAN /\ settled \in BOOLEAN
    BY DEF Init
  <1> QED
    BY <1>1, <1>2, <1>3, <1>4 DEF AggregatorInv, TypeOK, Counted

(* The counter counts at least the rows that wait for a commit: the        *)
(* invariant the theorems below rest on (DataAggregator).                  *)
THEOREM Invariance == Spec => []AggregatorInv
  BY InitInv, StepInv, PTL DEF Spec

(* Every reachable state of the aggregator and its sockets is well typed   *)
(* (DataAggregator, SocketInterface).                                      *)
THEOREM TypeCorrect == Spec => []TypeOK
  BY Invariance, PTL DEF AggregatorInv

(* In the loop no more than commit_batch_size rows wait for a commit,      *)
(* whatever the clients send and whenever it is idle (DataAggregator).     *)
THEOREM Batches == Spec => []BatchBound
  <1>1. AggregatorInv => BatchBound
    <2> SUFFICES ASSUME AggregatorInv, pc \in {"loop", "look", "executed"}
                 PROVE  Len(executed) <= BatchSize
      BY DEF BatchBound
    <2>1. Len(executed) \in Nat /\ counter \in 0 .. BatchSize /\ BatchSize \in Nat
      BY DEF AggregatorInv, TypeOK
    <2> QED
      BY <2>1 DEF AggregatorInv, Counted
  <1> QED
    BY <1>1, Invariance, PTL

-----------------------------------------------------------------------------
(* The database is a log, written behind.                                  *)

LEMMA CommitSyncs ==
  ASSUME TypeOK, Commit
  PROVE  Log!Sync
  <1>1. executed \in Seq(MessageSet) /\ committed \in Seq(MessageSet)
    BY DEF TypeOK
  <1>2. committed \o executed \in Seq(MessageSet)
        /\ Len(committed \o executed) = Len(committed) + Len(executed)
    BY <1>1, ConcatProperties
  <1>3. committed' \o executed' = committed \o executed
    BY <1>2, ConcatEmptySeq DEF Commit
  <1>4. Len(committed') \in Len(committed) .. Len(committed \o executed)
    BY <1>1, <1>2 DEF Commit
  <1> QED
    BY <1>3, <1>4 DEF Log!Sync

LEMMA CrashLosesTheRest ==
  ASSUME TypeOK, executed' = <<>>, committed' = committed
  PROVE  Log!Crash
  <1> DEFINE log == committed \o executed
             head == SubSeq(log, 1, Len(committed))
  <1>1. /\ executed \in Seq(MessageSet) /\ committed \in Seq(MessageSet)
        /\ Len(committed) \in Nat /\ Len(executed) \in Nat
    BY DEF TypeOK
  <1>2. log \in Seq(MessageSet) /\ Len(log) = Len(committed) + Len(executed)
        /\ \A i \in 1 .. Len(committed) : log[i] = committed[i]
    BY <1>1, ConcatProperties
  <1>3. \A i \in 1 .. Len(committed) : log[i] \in MessageSet
    BY <1>1, <1>2, ElementOfSeq
  <1>4. /\ head \in Seq(MessageSet) /\ Len(head) = Len(committed)
        /\ \A i \in 1 .. Len(committed) : head[i] = committed[i]
    BY <1>1, <1>2, <1>3 DEF head
  <1> HIDE DEF log, head
  <1>5. head = committed
    BY <1>1, <1>4, SeqEqual
  <1>6. committed' \o executed' = head
    BY <1>1, <1>5, ConcatEmptySeq
  <1> QED
    BY <1>6 DEF Log!Crash, head, log

LEMMA QueryLogs ==
  ASSUME TypeOK, NEW l, ProcessQuery(l)
  PROVE  [Log!Next]_<<committed \o executed, Len(committed)>>
  <1> DEFINE m == Head(queue)
  <1>1. m \in MessageSet
    <2>1. queue \in Seq(MessageSet) /\ queue # <<>>
      BY DEF TypeOK, SocketTypeOK, ProcessQuery
    <2> QED
      BY <2>1, HeadTailProperties
  <1>2. CASE executed' = Append(executed, m) /\ committed' = committed
    <2>1. executed \in Seq(MessageSet) /\ committed \in Seq(MessageSet)
      BY DEF TypeOK
    <2>2. committed \o Append(executed, m) = Append(committed \o executed, m)
      <3>1. Append(executed, m) = executed \o <<m>> /\ <<m>> \in Seq(MessageSet)
        BY <2>1, <1>1, AppendIsConcat
      <3>2. committed \o (executed \o <<m>>) = (committed \o executed) \o <<m>>
        BY <3>1, <2>1, ConcatAssociative
      <3>3. committed \o executed \in Seq(MessageSet)
        BY <2>1, ConcatProperties
      <3>4. Append(committed \o executed, m) = (committed \o executed) \o <<m>>
        BY <3>3, <1>1, AppendIsConcat
      <3> QED
        BY <3>1, <3>2, <3>4
    <2> HIDE DEF m
    <2>3. Log!Write
      BY <1>1, <1>2, <2>2 DEF Log!Write
    <2> QED
      BY <2>3 DEF Log!Next
  <1>3. CASE Commit
    BY <1>3, CommitSyncs DEF Log!Next
  <1>4. CASE UNCHANGED <<executed, committed>>
    BY <1>4
  <1> QED
    BY <1>2, <1>3, <1>4 DEF ProcessQuery

LEMMA StepLogs ==
  ASSUME TypeOK, [Next]_vars
  PROVE  [Log!Next]_<<committed \o executed, Len(committed)>>
  <1>1. CASE UNCHANGED <<executed, committed>>
    BY <1>1
  <1>2. CASE Commit
    BY <1>2, CommitSyncs DEF Log!Next
  <1>3. CASE Crash
    BY <1>3, CrashLosesTheRest DEF Crash, Log!Next
  <1>4. CASE Execute \/ Drain
    BY <1>4, QueryLogs DEF Execute, Drain
  <1>5. CASE LookForDie \/ CloseSocket \/ DrainEnds \/ FiveSecondsPass \/ TellToDie
    BY <1>5, <1>1 DEF LookForDie, CloseSocket, DrainEnds, FiveSecondsPass, TellToDie
  <1>6. CASE BatchCommit \/ IdleCommit
    BY <1>6, <1>1, <1>2 DEF BatchCommit, IdleCommit
  <1>7. CASE IntegrityError \/ Kill \/ CloseDatabase
    BY <1>7, <1>2, <1>3 DEF IntegrityError, Kill, CloseDatabase
  <1>8. CASE \E c \in Client : ClientStep(c) \/ HandlerStep(c)
    BY <1>8, <1>1 DEF ClientStep, HandlerStep, aggregatorVars
  <1>9. CASE UNCHANGED vars
    BY <1>9, <1>1 DEF vars, aggregatorVars
  <1> QED
    BY <1>4, <1>5, <1>6, <1>7, <1>8, <1>9 DEF Next, AggregatorStep

(* The database is at all times a prefix of what was executed, in that     *)
(* order: each step of the aggregator writes one row, makes the log        *)
(* durable, or crashes and loses what is not durable (DataAggregator).     *)
THEOREM DatabaseRefined == Spec => DatabaseIsPrefix
  <1>1. Init => Log!Init
    <2> SUFFICES ASSUME Init PROVE Log!Init
      OBVIOUS
    <2>1. executed = <<>> /\ committed = <<>> /\ <<>> \in Seq(MessageSet)
      BY EmptySeq DEF Init
    <2>2. committed \o executed = <<>> /\ Len(committed) = 0
      BY <2>1, ConcatEmptySeq, EmptySeq
    <2> QED
      BY <2>2 DEF Log!Init
  <1>2. TypeOK /\ [Next]_vars => [Log!Next]_<<committed \o executed, Len(committed)>>
    BY StepLogs
  <1> QED
    BY <1>1, <1>2, TypeCorrect, PTL DEF Spec, DatabaseIsPrefix, Log!Spec

-----------------------------------------------------------------------------
(* The order of what a client sent.  Its messages are in three places, one *)
(* behind the other: the rows, the queue and its stream.  Each place is in *)
(* order, and what a client has in one is earlier than what it has in the  *)
(* next.                                                                   *)

Rows == committed \o executed

Rising(s) ==
  \A i, j \in DOMAIN s : i < j /\ s[i].from = s[j].from => s[i].n < s[j].n

Earlier(S, T) == \A k \in S, m \in T : k.from = m.from => k.n < m.n

(* With the rows R, the queue Q, the streams st and what was sent, se.     *)
InOrder(R, Q, st, se) ==
  /\ Rising(R) /\ Rising(Q) /\ Earlier(Range(R), Range(Q))
  /\ \A c \in Client :
       /\ Rising(st[c]) /\ \A m \in Range(st[c]) : m.from = c
       /\ Earlier(Range(R) \cup Range(Q), Range(st[c]))
       /\ \A m \in Range(R) \cup Range(Q) \cup Range(st[c]) :
            m.from = c => m.n <= Len(se[c])

LEMMA AppendRange ==
  ASSUME NEW S, NEW s \in Seq(S), NEW m \in S
  PROVE  /\ Append(s, m) \in Seq(S)
         /\ Range(Append(s, m)) = Range(s) \cup {m}
  <1>1. /\ Append(s, m) \in Seq(S) /\ Len(s) \in Nat /\ Len(Append(s, m)) = Len(s) + 1
        /\ \A i \in 1 .. Len(s) : Append(s, m)[i] = s[i]
        /\ Append(s, m)[Len(s) + 1] = m
    BY AppendProperties
  <1>2. /\ Range(s) = {s[i] : i \in 1 .. Len(s)}
        /\ Range(Append(s, m)) = {Append(s, m)[i] : i \in 1 .. Len(s) + 1}
    BY <1>1, RangeEquality
  <1>3. 1 .. Len(s) + 1 = 1 .. Len(s) \cup {Len(s) + 1}
    BY <1>1
  <1> QED
    BY <1>1, <1>2, <1>3

LEMMA TailRange ==
  ASSUME NEW S, NEW s \in Seq(S), s # <<>>
  PROVE  /\ Head(s) \in S /\ Tail(s) \in Seq(S)
         /\ Range(s) = {Head(s)} \cup Range(Tail(s))
  <1>1. /\ Head(s) \in S /\ Tail(s) \in Seq(S) /\ Len(Tail(s)) = Len(s) - 1
        /\ \A i \in 1 .. Len(Tail(s)) : Tail(s)[i] = s[i + 1]
        /\ Len(s) \in Nat \ {0} /\ Head(s) = s[1]
    BY HeadTailProperties, EmptySeq
  <1>2. /\ Range(s) = {s[i] : i \in 1 .. Len(s)}
        /\ Range(Tail(s)) = {Tail(s)[i] : i \in 1 .. Len(s) - 1}
    <2>1. Range(s) = {s[i] : i \in 1 .. Len(s)}
      BY RangeEquality
    <2>2. Range(Tail(s)) = {Tail(s)[i] : i \in 1 .. Len(Tail(s))}
      BY <1>1, RangeEquality
    <2> QED
      BY <1>1, <2>1, <2>2
  <1>3. \A i \in 1 .. Len(s) :
          i = 1 \/ (i - 1 \in 1 .. Len(s) - 1 /\ s[i] = Tail(s)[i - 1])
    <2> SUFFICES ASSUME NEW i \in 1 .. Len(s), i # 1
                 PROVE  i - 1 \in 1 .. Len(s) - 1 /\ s[i] = Tail(s)[i - 1]
      OBVIOUS
    <2>1. i - 1 \in 1 .. Len(s) - 1 /\ (i - 1) + 1 = i
      BY <1>1
    <2> QED
      BY <1>1, <2>1
  <1>4. \A i \in 1 .. Len(s) - 1 : i + 1 \in 1 .. Len(s) /\ Tail(s)[i] = s[i + 1]
    BY <1>1
  <1>5. Range(s) \subseteq {Head(s)} \cup Range(Tail(s))
    <2> SUFFICES ASSUME NEW i \in 1 .. Len(s)
                 PROVE  s[i] = Head(s) \/ s[i] \in Range(Tail(s))
      BY <1>2
    <2> QED
      BY <1>1, <1>2, <1>3
  <1>6. {Head(s)} \cup Range(Tail(s)) \subseteq Range(s)
    <2>1. 1 \in 1 .. Len(s)
      BY <1>1
    <2> QED
      BY <1>1, <1>2, <1>4, <2>1
  <1> QED
    BY <1>1, <1>5, <1>6

LEMMA EmptyRange == Range(<<>>) = {}
  BY DEF Range

LEMMA RisingAppend ==
  ASSUME NEW s \in Seq(MessageSet), NEW m \in MessageSet, Rising(s), Earlier(Range(s), {m})
  PROVE  Rising(Append(s, m))
  <1>1. /\ Len(s) \in Nat /\ Len(Append(s, m)) = Len(s) + 1
        /\ \A i \in 1 .. Len(s) : Append(s, m)[i] = s[i]
        /\ Append(s, m)[Len(s) + 1] = m
        /\ DOMAIN Append(s, m) = 1 .. Len(s) + 1 /\ DOMAIN s = 1 .. Len(s)
    BY AppendProperties, LenProperties
  <1> SUFFICES ASSUME NEW i \in 1 .. Len(s) + 1, NEW j \in 1 .. Len(s) + 1, i < j,
                      Append(s, m)[i].from = Append(s, m)[j].from
               PROVE  Append(s, m)[i].n < Append(s, m)[j].n
    BY <1>1 DEF Rising
  <1>2. i \in 1 .. Len(s)
    BY <1>1
  <1>3. CASE j = Len(s) + 1
    <2>1. s[i] \in Range(s)
      BY <1>1, <1>2 DEF Range
    <2> QED
      BY <1>1, <1>2, <1>3, <2>1 DEF Earlier
  <1>4. CASE j \in 1 .. Len(s)
    BY <1>1, <1>2, <1>4 DEF Rising
  <1> QED
    BY <1>1, <1>3, <1>4

LEMMA RisingTail ==
  ASSUME NEW s \in Seq(MessageSet), s # <<>>, Rising(s)
  PROVE  Rising(Tail(s)) /\ Earlier({Head(s)}, Range(Tail(s)))
  <1>1. /\ Tail(s) \in Seq(MessageSet) /\ Len(Tail(s)) = Len(s) - 1
        /\ \A i \in 1 .. Len(Tail(s)) : Tail(s)[i] = s[i + 1]
        /\ Len(s) \in Nat \ {0} /\ Head(s) = s[1]
        /\ DOMAIN s = 1 .. Len(s) /\ DOMAIN Tail(s) = 1 .. Len(s) - 1
    BY HeadTailProperties, EmptySeq, LenProperties
  <1>2. Rising(Tail(s))
    <2> SUFFICES ASSUME NEW i \in 1 .. Len(s) - 1, NEW j \in 1 .. Len(s) - 1, i < j,
                        Tail(s)[i].from = Tail(s)[j].from
                 PROVE  Tail(s)[i].n < Tail(s)[j].n
      BY <1>1 DEF Rising
    <2>1. i + 1 \in DOMAIN s /\ j + 1 \in DOMAIN s /\ i + 1 < j + 1
      BY <1>1
    <2>2. Tail(s)[i] = s[i + 1] /\ Tail(s)[j] = s[j + 1]
      BY <1>1
    <2> QED
      BY <2>1, <2>2 DEF Rising
  <1>3. ASSUME NEW m \in Range(Tail(s)), Head(s).from = m.from PROVE Head(s).n < m.n
    <2>1. PICK j \in 1 .. Len(s) - 1 : m = Tail(s)[j]
      BY <1>1 DEF Range
    <2>2. m = s[j + 1] /\ j + 1 \in DOMAIN s /\ 1 \in DOMAIN s /\ 1 < j + 1
      BY <1>1, <2>1
    <2> QED
      BY <1>1, <1>3, <2>2 DEF Rising
  <1> QED
    BY <1>2, <1>3 DEF Earlier

LEMMA RisingPrefix ==
  ASSUME NEW s \in Seq(MessageSet), NEW t \in Seq(MessageSet), Rising(s \o t)
  PROVE  Rising(s) /\ Range(s) \subseteq Range(s \o t)
  <1>1. /\ Len(s) \in Nat /\ Len(t) \in Nat /\ Len(s \o t) = Len(s) + Len(t)
        /\ \A i \in 1 .. Len(s) : (s \o t)[i] = s[i]
        /\ DOMAIN s = 1 .. Len(s) /\ DOMAIN (s \o t) = 1 .. Len(s) + Len(t)
    BY ConcatProperties, LenProperties
  <1>2. 1 .. Len(s) \subseteq 1 .. Len(s) + Len(t)
    BY <1>1
  <1>3. Rising(s)
    BY <1>1, <1>2 DEF Rising
  <1> QED
    BY <1>3, RangeConcatenation

(* Client c sends its next message m, which may get lost.                  *)
Sends(c, m, st, se, st2, se2) ==
  /\ m.from = c /\ m.n = Len(se[c]) + 1
  /\ \A d \in Client : st2[d] = st[d] \/ (d = c /\ st2[d] = Append(st[d], m))
  /\ se2[c] = Append(se[c], m) /\ \A d \in Client : d = c \/ se2[d] = se[d]

LEMMA OrderSend ==
  ASSUME NEW R \in Seq(MessageSet), NEW Q \in Seq(MessageSet),
         NEW st \in [Client -> Seq(MessageSet)], NEW se \in [Client -> Seq(MessageSet)],
         InOrder(R, Q, st, se),
         NEW c \in Client, NEW m \in MessageSet, NEW st2, NEW se2, Sends(c, m, st, se, st2, se2)
  PROVE  InOrder(R, Q, st2, se2)
  <1> USE DEF Sends
  <1>1. st[c] \in Seq(MessageSet) /\ se[c] \in Seq(MessageSet) /\ Len(se[c]) \in Nat
    OBVIOUS
  <1>2. Len(Append(se[c], m)) = Len(se[c]) + 1
    BY <1>1, AppendProperties
  <1>3. ASSUME NEW d \in Client
        PROVE  Len(se[d]) <= Len(se2[d]) /\ Len(se[d]) \in Nat /\ Len(se2[d]) \in Nat
    <2>1. CASE d = c
      BY <1>1, <1>2, <2>1
    <2>2. CASE d # c
      <3>1. se2[d] = se[d] /\ se[d] \in Seq(MessageSet)
        BY <2>2
      <3> QED
        BY <3>1
    <2> QED
      BY <2>1, <2>2
  <1> SUFFICES ASSUME NEW d \in Client
               PROVE  /\ Rising(st2[d]) /\ \A k \in Range(st2[d]) : k.from = d
                      /\ Earlier(Range(R) \cup Range(Q), Range(st2[d]))
                      /\ \A k \in Range(R) \cup Range(Q) \cup Range(st2[d]) :
                           k.from = d => k.n <= Len(se2[d])
    BY DEF InOrder
  <1>4. Range(st[d]) \cup Range(R) \cup Range(Q) \subseteq MessageSet
    BY RangeOfSeq
  <1>5. \A k \in MessageSet : k.n \in Nat
    BY DEF MessageSet
  <1>6. \A k \in Range(R) \cup Range(Q) \cup Range(st[d]) : k.from = d => k.n <= Len(se2[d])
    BY <1>3, <1>4, <1>5 DEF InOrder
  <1>7. CASE st2[d] = st[d]
    BY <1>6, <1>7 DEF InOrder
  <1>8. CASE d = c /\ st2[d] = Append(st[d], m)
    <2>1. Range(st2[d]) = Range(st[d]) \cup {m}
      BY <1>1, <1>8, AppendRange
    <2>2. \A k \in Range(R) \cup Range(Q) \cup Range(st[d]) : k.from = m.from => k.n < m.n
      BY <1>1, <1>4, <1>5, <1>8 DEF InOrder
    <2>3. Rising(st2[d])
      BY <1>1, <1>8, <2>2, RisingAppend DEF InOrder, Earlier
    <2>4. m.n <= Len(se2[d])
      BY <1>1, <1>2, <1>8
    <2> QED
      BY <1>6, <1>8, <2>1, <2>2, <2>3, <2>4 DEF InOrder, Earlier
  <1> QED
    BY <1>7, <1>8

(* A message goes from the head of a stream to the end of the queue, or is *)
(* dropped.                                                                *)
LEMMA OrderReceive ==
  ASSUME NEW R, NEW Q \in Seq(MessageSet), NEW st \in [Client -> Seq(MessageSet)],
         NEW se, InOrder(R, Q, st, se),
         NEW c \in Client, st[c] # <<>>,
         NEW Q2, Q2 = Q \/ Q2 = Append(Q, Head(st[c])),
         NEW st2, st2 = [st EXCEPT ![c] = Tail(@)]
  PROVE  InOrder(R, Q2, st2, se)
  <1>1. PICK m : m = Head(st[c])
    OBVIOUS
  <1>2. /\ m \in MessageSet /\ Tail(st[c]) \in Seq(MessageSet)
        /\ Range(st[c]) = {m} \cup Range(Tail(st[c]))
    BY <1>1, TailRange
  <1>3. Rising(Tail(st[c])) /\ Earlier({m}, Range(Tail(st[c])))
    BY <1>1, RisingTail DEF InOrder
  <1>4. m.from = c /\ Earlier(Range(R) \cup Range(Q), {m}) /\ m.n <= Len(se[c])
    BY <1>2 DEF InOrder, Earlier
  <1>5. Range(Q2) = Range(Q) \/ Range(Q2) = Range(Q) \cup {m}
    <2>1. Range(Append(Q, m)) = Range(Q) \cup {m}
      BY <1>2, AppendRange
    <2> QED
      BY <1>1, <2>1
  <1>6. Rising(Q2)
    BY <1>1, <1>2, <1>4, RisingAppend DEF InOrder, Earlier
  <1>7. Earlier(Range(R), Range(Q2))
    BY <1>4, <1>5 DEF InOrder, Earlier
  <1> SUFFICES ASSUME NEW d \in Client
               PROVE  /\ Rising(st2[d]) /\ \A k \in Range(st2[d]) : k.from = d
                      /\ Earlier(Range(R) \cup Range(Q2), Range(st2[d]))
                      /\ \A k \in Range(R) \cup Range(Q2) \cup Range(st2[d]) :
                           k.from = d => k.n <= Len(se[d])
    BY <1>6, <1>7 DEF InOrder
  <1>8. CASE d # c
    <2>1. st2[d] = st[d]
      BY <1>8
    <2> QED
      BY <1>4, <1>5, <1>8, <2>1 DEF InOrder, Earlier
  <1>9. CASE d = c
    <2>1. st2[d] = Tail(st[c])
      BY <1>9
    <2> QED
      BY <1>2, <1>3, <1>4, <1>5, <1>9, <2>1 DEF InOrder, Earlier
  <1> QED
    BY <1>8, <1>9

(* A message goes from the head of the queue to the end of the rows, or is *)
(* none.                                                                   *)
LEMMA OrderQuery ==
  ASSUME NEW R \in Seq(MessageSet), NEW Q \in Seq(MessageSet), NEW st, NEW se,
         InOrder(R, Q, st, se), Q # <<>>,
         NEW R2, R2 = R \/ R2 = Append(R, Head(Q))
  PROVE  InOrder(R2, Tail(Q), st, se)
  <1>1. PICK m : m = Head(Q)
    OBVIOUS
  <1>2. /\ m \in MessageSet /\ Tail(Q) \in Seq(MessageSet)
        /\ Range(Q) = {m} \cup Range(Tail(Q))
    BY <1>1, TailRange
  <1>3. Rising(Tail(Q)) /\ Earlier({m}, Range(Tail(Q)))
    BY <1>1, RisingTail DEF InOrder
  <1>4. Earlier(Range(R), {m})
    BY <1>2 DEF InOrder, Earlier
  <1>5. Range(R2) = Range(R) \/ Range(R2) = Range(R) \cup {m}
    <2>1. Range(Append(R, m)) = Range(R) \cup {m}
      BY <1>2, AppendRange
    <2> QED
      BY <1>1, <2>1
  <1>6. Rising(R2)
    BY <1>1, <1>2, <1>4, RisingAppend DEF InOrder
  <1>7. Earlier(Range(R2), Range(Tail(Q)))
    BY <1>2, <1>3, <1>5 DEF InOrder, Earlier
  <1>8. Range(R2) \cup Range(Tail(Q)) \subseteq Range(R) \cup Range(Q)
    BY <1>2, <1>5
  <1> QED
    BY <1>3, <1>6, <1>7, <1>8 DEF InOrder, Earlier

(* The streams, perhaps the queue, and a part of the rows are lost.        *)
LEMMA OrderLost ==
  ASSUME NEW R, NEW Q, NEW st, NEW se, InOrder(R, Q, st, se),
         NEW R2, Rising(R2), Range(R2) \subseteq Range(R),
         NEW Q2, Q2 = Q \/ Q2 = <<>>,
         NEW st2, \A c \in Client : st2[c] = <<>>
  PROVE  InOrder(R2, Q2, st2, se)
  <1>1. Rising(<<>>) /\ Range(<<>>) = {}
    BY EmptyRange DEF Rising
  <1>2. Rising(Q2) /\ Range(Q2) \subseteq Range(Q)
    BY <1>1 DEF InOrder
  <1> QED
    BY <1>1, <1>2 DEF InOrder, Earlier

(* What a statement does to the rows.                                      *)
LEMMA RowAdded ==
  ASSUME TypeOK
  PROVE  /\ Rows \in Seq(MessageSet) /\ Range(Rows) = Range(committed) \cup Range(executed)
         /\ Commit => Rows' = Rows
         /\ \A m \in MessageSet :
              executed' = Append(executed, m) /\ committed' = committed =>
                Rows' = Append(Rows, m)
  <1>1. /\ executed \in Seq(MessageSet) /\ committed \in Seq(MessageSet)
        /\ committed \o executed \in Seq(MessageSet)
    BY ConcatProperties DEF TypeOK
  <1>2. Range(Rows) = Range(committed) \cup Range(executed)
    BY <1>1, RangeConcatenation DEF Rows
  <1>3. Commit => Rows' = Rows
    BY <1>1, ConcatEmptySeq DEF Commit, Rows
  <1>4. ASSUME NEW m \in MessageSet, executed' = Append(executed, m), committed' = committed
        PROVE  Rows' = Append(Rows, m)
    <2>1. Append(executed, m) = executed \o <<m>> /\ <<m>> \in Seq(MessageSet)
      BY <1>1, AppendIsConcat
    <2>2. committed \o (executed \o <<m>>) = (committed \o executed) \o <<m>>
      BY <1>1, <2>1, ConcatAssociative
    <2>3. Append(committed \o executed, m) = (committed \o executed) \o <<m>>
      BY <1>1, AppendIsConcat
    <2> QED
      BY <1>4, <2>1, <2>2, <2>3 DEF Rows
  <1> QED
    BY <1>1, <1>2, <1>3, <1>4 DEF Rows

(* What a step does to the rows, the queue and the streams.                *)
LEMMA FlowEffect ==
  ASSUME TypeOK, [Next]_vars
  PROVE  \/ Rows' = Rows /\ UNCHANGED <<queue, stream, sent>>
         \/ /\ queue # <<>> /\ queue' = Tail(queue) /\ UNCHANGED <<stream, sent>>
            /\ Rows' = Rows \/ Rows' = Append(Rows, Head(queue))
         \/ /\ Rows' \in {Rows, committed} /\ queue' \in {queue, <<>>}
            /\ \A c \in Client : stream'[c] = <<>>
            /\ UNCHANGED sent
         \/ \E c \in Client :
              /\ Rows' = Rows /\ UNCHANGED sent /\ stream[c] # <<>>
              /\ stream' = [stream EXCEPT ![c] = Tail(@)]
              /\ queue' = queue \/ queue' = Append(queue, Head(stream[c]))
         \/ \E c \in Client, m \in MessageSet :
              /\ m.from = c /\ m.n = Len(sent[c]) + 1
              /\ Rows' = Rows /\ UNCHANGED queue
              /\ stream' = stream \/ stream' = [stream EXCEPT ![c] = Append(@, m)]
              /\ sent' = [sent EXCEPT ![c] = Append(@, m)]
  <1>1. ASSUME NEW l, ProcessQuery(l)
        PROVE  /\ queue # <<>> /\ queue' = Tail(queue) /\ UNCHANGED <<stream, sent>>
               /\ Rows' = Rows \/ Rows' = Append(Rows, Head(queue))
    <2>1. queue \in Seq(MessageSet) /\ queue # <<>>
      BY <1>1 DEF ProcessQuery, TypeOK, SocketTypeOK
    <2>2. PICK m \in MessageSet : m = Head(queue)
      BY <2>1, HeadTailProperties
    <2>3. \/ executed' = Append(executed, m) /\ committed' = committed
          \/ Commit
          \/ executed' = executed /\ committed' = committed
      BY <1>1, <2>2 DEF ProcessQuery
    <2>4. Rows' = Rows \/ Rows' = Append(Rows, m)
      BY <2>2, <2>3, RowAdded DEF Rows
    <2> QED
      BY <1>1, <2>1, <2>2, <2>4 DEF ProcessQuery
  <1>2. ASSUME Crash
        PROVE  /\ Rows' = committed /\ queue' = <<>> /\ UNCHANGED sent
               /\ \A c \in Client : stream'[c] = <<>>
    <2>1. Rows' = committed
      BY <1>2, ConcatEmptySeq DEF Crash, Rows, TypeOK
    <2>2. stream' = [c \in Client |-> <<>>] /\ queue' = <<>> /\ UNCHANGED sent
      BY <1>2 DEF Crash, ServerEnds
    <2>3. \A c \in Client : stream'[c] = <<>>
      BY <2>2, Zenon
    <2> QED
      BY <2>1, <2>2, <2>3
  <1>3. CASE Execute \/ Drain
    BY <1>1, <1>3 DEF Execute, Drain
  <1>4. CASE IntegrityError \/ Kill
    BY <1>2, <1>4 DEF IntegrityError, Kill
  <1>5. CASE CloseDatabase
    <2>1. Rows' = Rows /\ UNCHANGED queue
      BY <1>5, RowAdded DEF CloseDatabase
    <2>2. stream' = [c \in Client |-> <<>>] /\ UNCHANGED sent
      BY <1>5 DEF CloseDatabase, ServerEnds
    <2>3. \A c \in Client : stream'[c] = <<>>
      BY <2>2, Zenon
    <2> QED
      BY <2>1, <2>2, <2>3
  <1>6. CASE BatchCommit \/ IdleCommit
    <2>1. Commit \/ UNCHANGED <<executed, committed>>
      BY <1>6 DEF BatchCommit, IdleCommit
    <2>2. Rows' = Rows
      BY <2>1, RowAdded DEF Rows
    <2> QED
      BY <1>6, <2>2 DEF BatchCommit, IdleCommit, socketVars
  <1>7. CASE LookForDie \/ CloseSocket \/ DrainEnds \/ FiveSecondsPass \/ TellToDie
             \/ UNCHANGED vars
    BY <1>7 DEF LookForDie, CloseSocket, DrainEnds, FiveSecondsPass, TellToDie, vars,
                socketVars, aggregatorVars, Rows
  <1>8. ASSUME NEW c \in Client, HandlerStep(c)
        PROVE  \/ Rows' = Rows /\ UNCHANGED <<queue, stream, sent>>
               \/ /\ Rows' = Rows /\ UNCHANGED sent /\ stream[c] # <<>>
                  /\ stream' = [stream EXCEPT ![c] = Tail(@)]
                  /\ queue' = queue \/ queue' = Append(queue, Head(stream[c]))
    BY <1>8 DEF HandlerStep, ServerStep, Accept, Receive, HandlerEnds, aggregatorVars, Rows
  <1>9. ASSUME NEW c \in Client, ClientStep(c)
        PROVE  \/ Rows' = Rows /\ UNCHANGED <<queue, stream, sent>>
               \/ \E m \in MessageSet :
                    /\ m.from = c /\ m.n = Len(sent[c]) + 1
                    /\ Rows' = Rows /\ UNCHANGED queue
                    /\ stream' = stream \/ stream' = [stream EXCEPT ![c] = Append(@, m)]
                    /\ sent' = [sent EXCEPT ![c] = Append(@, m)]
    <2>1. Rows' = Rows
      BY <1>9 DEF ClientStep, aggregatorVars, Rows
    <2>2. CASE Connect(c) \/ CloseClient(c)
      BY <2>1, <2>2 DEF Connect, CloseClient
    <2>3. ASSUME NEW k \in Kinds, NEW v \in 0 .. MaxSent, Send(c, k, v)
          PROVE  \/ UNCHANGED <<queue, stream, sent>>
                 \/ \E m \in MessageSet :
                      /\ m.from = c /\ m.n = Len(sent[c]) + 1 /\ UNCHANGED queue
                      /\ stream' = stream \/ stream' = [stream EXCEPT ![c] = Append(@, m)]
                      /\ sent' = [sent EXCEPT ![c] = Append(@, m)]
      <3>1. PICK m : m = Message(c, Len(sent[c]) + 1, k, v)
        OBVIOUS
      <3>2. Len(sent[c]) + 1 \in 1 .. MaxSent
        BY <2>3 DEF Send, TypeOK, SocketTypeOK
      <3>3. m \in MessageSet /\ m.from = c /\ m.n = Len(sent[c]) + 1
        BY <3>1, <3>2 DEF Message, MessageSet
      <3> QED
        BY <2>3, <3>1, <3>3 DEF Send
    <2> QED
      BY <1>9, <2>1, <2>2, <2>3 DEF ClientStep
  <1> QED
    BY <1>3, <1>4, <1>5, <1>6, <1>7, <1>8, <1>9, <1>2 DEF Next, AggregatorStep

LEMMA InOrderStep ==
  ASSUME TypeOK, InOrder(Rows, queue, stream, sent), [Next]_vars
  PROVE  InOrder(Rows, queue, stream, sent)'
  <1> USE DEF TypeOK, SocketTypeOK
  <1>1. /\ Rows \in Seq(MessageSet) /\ Range(Rows) = Range(committed) \cup Range(executed)
        /\ Range(Rows) \cup Range(queue) \subseteq MessageSet
    BY RowAdded, RangeOfSeq
  <1>2. CASE Rows' = Rows /\ UNCHANGED <<queue, stream, sent>>
    BY <1>2 DEF InOrder
  <1>3. CASE /\ queue # <<>> /\ queue' = Tail(queue) /\ UNCHANGED <<stream, sent>>
             /\ Rows' = Rows \/ Rows' = Append(Rows, Head(queue))
    <2>1. InOrder(Rows', Tail(queue), stream, sent)
      BY <1>1, <1>3, OrderQuery
    <2> QED
      BY <1>3, <2>1 DEF InOrder
  <1>4. CASE /\ Rows' \in {Rows, committed} /\ queue' \in {queue, <<>>}
             /\ \A c \in Client : stream'[c] = <<>>
             /\ UNCHANGED sent
    <2>1. Rising(committed) /\ Range(committed) \subseteq Range(Rows)
      BY RisingPrefix DEF InOrder, Rows
    <2>2. Rising(Rows') /\ Range(Rows') \subseteq Range(Rows)
      BY <1>4, <2>1 DEF InOrder
    <2>3. InOrder(Rows', queue', stream', sent)
      BY <1>4, <2>2, OrderLost
    <2> QED
      BY <1>4, <2>3 DEF InOrder
  <1>5. ASSUME NEW c \in Client, Rows' = Rows, UNCHANGED sent, stream[c] # <<>>,
               stream' = [stream EXCEPT ![c] = Tail(@)],
               queue' = queue \/ queue' = Append(queue, Head(stream[c]))
        PROVE  InOrder(Rows, queue, stream, sent)'
    <2>1. InOrder(Rows, queue', stream', sent)
      BY <1>5, OrderReceive
    <2> QED
      BY <1>5, <2>1 DEF InOrder
  <1>6. ASSUME NEW c \in Client, NEW m \in MessageSet, m.from = c, m.n = Len(sent[c]) + 1,
               Rows' = Rows, UNCHANGED queue,
               stream' = stream \/ stream' = [stream EXCEPT ![c] = Append(@, m)],
               sent' = [sent EXCEPT ![c] = Append(@, m)]
        PROVE  InOrder(Rows, queue, stream, sent)'
    <2> PICK R, Q, st, se, st2, se2 : /\ R = Rows /\ Q = queue /\ st = stream /\ se = sent
                                      /\ st2 = stream' /\ se2 = sent'
      OBVIOUS
    <2>1. /\ R \in Seq(MessageSet) /\ Q \in Seq(MessageSet) /\ InOrder(R, Q, st, se)
          /\ st \in [Client -> Seq(MessageSet)] /\ se \in [Client -> Seq(MessageSet)]
      BY <1>1, <1>6
    <2>2. Sends(c, m, st, se, st2, se2)
      BY <1>6 DEF Sends
    <2> HIDE DEF TypeOK, SocketTypeOK
    <2>3. InOrder(R, Q, st2, se2)
      BY <2>1, <2>2, OrderSend
    <2> QED
      BY <1>6, <2>3 DEF InOrder
  <1> QED
    BY <1>2, <1>3, <1>4, <1>5, <1>6, FlowEffect

(* What is executed of a client is executed once, in the order it was      *)
(* sent, whatever the threads of other clients put between, and whether    *)
(* messages are dropped or what is not committed is lost (_handle_conn,    *)
(* process_query).                                                         *)
THEOREM OrderKept == Spec => []KeepsOrder
  <1>1. Init => InOrder(Rows, queue, stream, sent)
    <2> SUFFICES ASSUME Init PROVE InOrder(Rows, queue, stream, sent)
      OBVIOUS
    <2>1. executed = <<>> /\ committed = <<>> /\ queue = <<>> /\ <<>> \in Seq(MessageSet)
      BY EmptySeq DEF Init, SocketInit
    <2>2. Rows = <<>>
      BY <2>1, ConcatEmptySeq DEF Rows
    <2>3. Range(<<>>) = {} /\ Rising(<<>>)
      BY EmptyRange DEF Rising
    <2>4. \A c \in Client : stream[c] = <<>>
      BY Zenon DEF Init, SocketInit
    <2> QED
      BY <2>1, <2>2, <2>3, <2>4 DEF InOrder, Earlier
  <1>2. TypeOK /\ InOrder(Rows, queue, stream, sent) /\ [Next]_vars
          => InOrder(Rows, queue, stream, sent)'
    BY InOrderStep
  <1>3. InOrder(Rows, queue, stream, sent) => KeepsOrder
    BY DEF InOrder, Rising, Rows, KeepsOrder
  <1> QED
    BY <1>1, <1>2, <1>3, TypeCorrect, PTL DEF Spec

-----------------------------------------------------------------------------
(* Nothing is lost.  As long as the process runs, a row that a client sent *)
(* is on its way, in the queue, or executed; a client that is through has  *)
(* nothing on its way, and sends nothing any more.                         *)

Kept(m) == m \in Range(committed) \/ m \in Range(executed)

ToBeStored(c) == {m \in Range(sent[c]) : m.kind \in {"row", "visit"}}

Over(c) == client[c] \in {"new", "broken"} \/ (client[c] = "closed" /\ handler[c] = "ended")

NothingDropped ==
  /\ pc \notin {"ended", "crashed"} => serving
  /\ pc \in {"drain", "close", "ended"} => ~listening
  /\ serving =>
       \A c \in Client :
         /\ \A m \in ToBeStored(c) :
              m \in Range(stream[c]) \/ m \in Range(queue) \/ Kept(m)
         /\ handler[c] = "ended" => client[c] = "closed" /\ stream[c] = <<>>
  /\ settled /\ pc \in {"drain", "close", "ended"} => \A c \in Client : Over(c)
  /\ settled /\ pc \in {"close", "ended"} =>
       \A c \in Client : client[c] = "closed" =>
         \A m \in ToBeStored(c) : m \in Range(committed) \/ (pc = "close" /\ Kept(m))

LEMMA KeptStays ==
  ASSUME TypeOK, NEW m, Kept(m),
         \/ Commit \/ UNCHANGED <<executed, committed>>
         \/ \E k \in MessageSet : executed' = Append(executed, k) /\ committed' = committed
  PROVE  Kept(m)'
  <1>1. executed \in Seq(MessageSet) /\ committed \in Seq(MessageSet)
    BY DEF TypeOK
  <1>2. CASE Commit
    <2>1. Range(committed') = Range(committed) \cup Range(executed)
      BY <1>1, <1>2, RangeConcatenation DEF Commit
    <2> QED
      BY <2>1 DEF Kept
  <1>3. ASSUME NEW k \in MessageSet, executed' = Append(executed, k), committed' = committed
        PROVE  Kept(m)'
    <2>1. Range(executed') = Range(executed) \cup {k}
      BY <1>1, <1>3, AppendRange
    <2> QED
      BY <1>3, <2>1 DEF Kept
  <1> QED
    BY <1>2, <1>3 DEF Kept

LEMMA QueryKeeps ==
  ASSUME TypeOK, NEW l, ProcessQuery(l), NEW m, m.kind \in {"row", "visit"},
         m \in Range(queue) \/ Kept(m)
  PROVE  m \in Range(queue') \/ Kept(m)'
  <1>1. queue \in Seq(MessageSet) /\ queue # <<>> /\ queue' = Tail(queue)
        /\ executed \in Seq(MessageSet)
    BY DEF TypeOK, SocketTypeOK, ProcessQuery
  <1>2. PICK h \in MessageSet : h = Head(queue)
    BY <1>1, HeadTailProperties
  <1>3. Range(queue) = {h} \cup Range(queue')
    BY <1>1, <1>2, TailRange
  <1>4. Kept(m) => Kept(m)'
    BY <1>2, KeptStays DEF ProcessQuery
  <1>5. CASE m = h
    <2>1. executed' = Append(executed, h)
      BY <1>2, <1>5 DEF ProcessQuery
    <2>2. Range(executed') = Range(executed) \cup {h}
      BY <1>1, <2>1, AppendRange
    <2> QED
      BY <1>5, <2>2 DEF Kept
  <1> QED
    BY <1>3, <1>4, <1>5

LEMMA ClientStepDrops ==
  ASSUME TypeOK, NothingDropped, NEW c \in Client, ClientStep(c)
  PROVE  NothingDropped'
  <1>1. UNCHANGED <<pc, settled, executed, committed, queue, listening, serving, handler>>
    BY DEF ClientStep, aggregatorVars, Connect, CloseClient, Send
  <1>2. \A m : Kept(m)' <=> Kept(m)
    BY <1>1 DEF Kept
  <1>3. /\ client \in [Client -> {"new", "open", "closed", "broken"}]
        /\ sent \in [Client -> Seq(MessageSet)] /\ stream \in [Client -> Seq(MessageSet)]
    BY DEF TypeOK, SocketTypeOK
  <1>4. CASE Connect(c)
    <2>1. UNCHANGED <<stream, sent>> /\ \A d \in Client : client'[d] = client[d] \/
            (d = c /\ client[d] = "new" /\ client'[d] = IF listening THEN "open" ELSE "broken")
      BY <1>3, <1>4 DEF Connect
    <2>2. \A d \in Client : ToBeStored(d)' = ToBeStored(d)
      BY <2>1 DEF ToBeStored
    <2> QED
      BY <1>1, <1>2, <2>1, <2>2 DEF NothingDropped, Over
  <1>5. CASE CloseClient(c)
    <2>1. UNCHANGED <<stream, sent>> /\ client[c] = "open" /\ \A d \in Client :
            client'[d] = client[d] \/ (d = c /\ client'[d] = "closed")
      BY <1>3, <1>5 DEF CloseClient
    <2>2. \A d \in Client : ToBeStored(d)' = ToBeStored(d)
      BY <2>1 DEF ToBeStored
    <2>3. ~Over(c)
      BY <2>1 DEF Over
    <2> QED
      BY <1>1, <1>2, <2>1, <2>2, <2>3 DEF NothingDropped, Over
  <1>6. ASSUME NEW k \in Kinds, NEW v \in 0 .. MaxSent, Send(c, k, v) PROVE NothingDropped'
    <2>1. client[c] = "open" /\ ~Over(c)
      BY <1>6 DEF Send, Over
    <2>2. \A d \in Client :
            d # c => /\ client'[d] = client[d] /\ stream'[d] = stream[d]
                     /\ ToBeStored(d)' = ToBeStored(d)
      BY <1>3, <1>6 DEF Send, ToBeStored
    <2>3. client'[c] \in {"open", "broken"} /\ (serving => client'[c] = client[c])
      BY <1>3, <1>6, <2>1 DEF Send
    <2>4. ASSUME serving
          PROVE  /\ \A m \in ToBeStored(c)' : m \in ToBeStored(c) \/ m \in Range(stream'[c])
                 /\ Range(stream[c]) \subseteq Range(stream'[c])
      <3>1. PICK m : m = Message(c, Len(sent[c]) + 1, k, v)
        OBVIOUS
      <3>2. Len(sent[c]) + 1 \in 1 .. MaxSent
        BY <1>3, <1>6 DEF Send
      <3>3. m \in MessageSet
        BY <3>1, <3>2 DEF Message, MessageSet
      <3>4. stream'[c] = Append(stream[c], m) /\ sent'[c] = Append(sent[c], m)
        BY <1>3, <1>6, <2>4, <3>1 DEF Send
      <3>5. /\ Range(stream'[c]) = Range(stream[c]) \cup {m}
            /\ Range(sent'[c]) = Range(sent[c]) \cup {m}
        BY <1>3, <3>3, <3>4, AppendRange
      <3> QED
        BY <3>5 DEF ToBeStored
    <2>5. serving => handler[c] # "ended"
      BY <2>1 DEF NothingDropped
    <2>6. ~(settled /\ pc \in {"drain", "close", "ended"})
      BY <2>1 DEF NothingDropped
    <2> QED
      BY <1>1, <1>2, <2>2, <2>3, <2>4, <2>5, <2>6 DEF NothingDropped
  <1> QED
    BY <1>4, <1>5, <1>6 DEF ClientStep

LEMMA HandlerStepDrops ==
  ASSUME TypeOK, NothingDropped, NEW c \in Client, HandlerStep(c)
  PROVE  NothingDropped'
  <1>1. UNCHANGED <<pc, settled, executed, committed, sent, client, listening, serving>>
    BY DEF HandlerStep, aggregatorVars, ServerStep, Accept, Receive, HandlerEnds
  <1>2. /\ \A m : Kept(m)' <=> Kept(m)
        /\ \A d \in Client : ToBeStored(d)' = ToBeStored(d)
    BY <1>1 DEF Kept, ToBeStored
  <1>3. /\ handler \in [Client -> {"none", "reads", "ended"}]
        /\ stream \in [Client -> Seq(MessageSet)] /\ queue \in Seq(MessageSet)
    BY DEF TypeOK, SocketTypeOK
  <1>4. CASE Accept(c)
    <2>1. /\ UNCHANGED <<stream, queue>> /\ handler[c] = "none"
          /\ \A d \in Client : handler'[d] = handler[d] \/ (d = c /\ handler'[d] = "reads")
      BY <1>3, <1>4 DEF Accept
    <2> QED
      BY <1>1, <1>2, <2>1 DEF NothingDropped, Over
  <1>5. CASE HandlerEnds(c)
    <2>1. /\ UNCHANGED <<stream, queue>> /\ client[c] = "closed" /\ stream[c] = <<>>
          /\ \A d \in Client : handler'[d] = handler[d] \/ (d = c /\ handler'[d] = "ended")
      BY <1>3, <1>5 DEF HandlerEnds
    <2> QED
      BY <1>1, <1>2, <2>1 DEF NothingDropped, Over
  <1>6. CASE Receive(c)
    <2>1. PICK h : h = Head(stream[c])
      OBVIOUS
    <2>2. /\ UNCHANGED handler /\ handler[c] = "reads" /\ stream[c] # <<>>
          /\ stream' = [stream EXCEPT ![c] = Tail(stream[c])]
          /\ queue' = IF h.kind = "undecodable" THEN queue ELSE Append(queue, h)
      BY <1>6, <2>1 DEF Receive
    <2>3. h \in MessageSet /\ Range(stream[c]) = {h} \cup Range(Tail(stream[c]))
      BY <1>3, <2>1, <2>2, TailRange
    <2>4. /\ stream'[c] = Tail(stream[c])
          /\ \A d \in Client : d # c => stream'[d] = stream[d]
      BY <1>3, <2>2
    <2>5. /\ Range(queue) \subseteq Range(queue')
          /\ h.kind # "undecodable" => h \in Range(queue')
      <3>1. Range(Append(queue, h)) = Range(queue) \cup {h}
        BY <1>3, <2>3, AppendRange
      <3> QED
        BY <2>2, <3>1
    <2>6. \A d \in Client : \A m \in ToBeStored(d) :
            m \in Range(stream[d]) \/ m \in Range(queue) =>
              m \in Range(stream'[d]) \/ m \in Range(queue')
      BY <2>3, <2>4, <2>5 DEF ToBeStored
    <2> QED
      BY <1>1, <1>2, <2>2, <2>4, <2>6 DEF NothingDropped, Over
  <1> QED
    BY <1>4, <1>5, <1>6 DEF HandlerStep, ServerStep

LEMMA AggregatorStepDrops ==
  ASSUME TypeOK, NothingDropped,
         AggregatorStep \/ FiveSecondsPass \/ Kill \/ TellToDie \/ UNCHANGED vars
  PROVE  NothingDropped'
  <1>1. ASSUME NEW l, ProcessQuery(l), pc \in {"look", "drain"}, l \in {"executed", "drain"},
               pc = "drain" <=> l = "drain"
        PROVE  NothingDropped'
    <2>1. /\ UNCHANGED <<client, handler, stream, sent, listening, serving, settled>>
          /\ pc' = l
      BY <1>1 DEF ProcessQuery
    <2>2. \A d \in Client : /\ ToBeStored(d)' = ToBeStored(d) /\ (Over(d)' <=> Over(d))
                            /\ \A m \in ToBeStored(d) : m.kind \in {"row", "visit"}
      BY <2>1 DEF ToBeStored, Over
    <2>3. \A d \in Client : \A m \in ToBeStored(d) :
            m \in Range(queue) \/ Kept(m) => m \in Range(queue') \/ Kept(m)'
      BY <1>1, <2>2, QueryKeeps
    <2> QED
      BY <1>1, <2>1, <2>2, <2>3 DEF NothingDropped
  <1>2. CASE Execute \/ Drain
    BY <1>1, <1>2 DEF Execute, Drain
  <1>3. CASE IntegrityError \/ Kill
    BY <1>3 DEF IntegrityError, Kill, Crash, ServerEnds, NothingDropped
  <1>4. CASE BatchCommit \/ IdleCommit
    <2>1. /\ UNCHANGED <<client, handler, stream, sent, queue, listening, serving, settled>>
          /\ pc \in {"executed", "look"} /\ pc' = "loop"
          /\ Commit \/ UNCHANGED <<executed, committed>>
      BY <1>4 DEF BatchCommit, IdleCommit, socketVars
    <2>2. \A m : Kept(m) => Kept(m)'
      BY <2>1, KeptStays
    <2> QED
      BY <2>1, <2>2 DEF NothingDropped, ToBeStored
  <1>5. CASE LookForDie \/ FiveSecondsPass \/ TellToDie \/ UNCHANGED vars
    BY <1>5 DEF LookForDie, FiveSecondsPass, TellToDie, vars, socketVars, aggregatorVars,
                NothingDropped, ToBeStored, Kept, Over
  <1>6. CASE CloseSocket
    <2>1. /\ UNCHANGED <<client, handler, stream, sent, queue, serving, executed, committed>>
          /\ pc = "loop" /\ pc' = "drain" /\ listening' = FALSE
          /\ settled' = \A c \in Client : Through(c)
      BY <1>6 DEF CloseSocket
    <2>2. serving /\ \A c \in Client : handler[c] = "ended" => client[c] = "closed"
      BY <2>1 DEF NothingDropped
    <2>3. \A c \in Client : Through(c) => Over(c)'
      BY <2>1, <2>2 DEF Through, Over
    <2> QED
      BY <2>1, <2>3 DEF NothingDropped, ToBeStored, Kept
  <1>7. CASE DrainEnds
    <2>1. /\ UNCHANGED <<client, handler, stream, sent, queue, listening, serving, executed,
                         committed, settled>>
          /\ pc = "drain" /\ pc' = "close" /\ queue = <<>>
      BY <1>7 DEF DrainEnds, socketVars
    <2>2. \A m : Kept(m)' <=> Kept(m)
      BY <2>1 DEF Kept
    <2>3. \A c \in Client : ToBeStored(c)' = ToBeStored(c) /\ (Over(c)' <=> Over(c))
      BY <2>1 DEF ToBeStored, Over
    <2>4. ASSUME settled, NEW c \in Client, client[c] = "closed", NEW m \in ToBeStored(c)
          PROVE  Kept(m)
      <3>1. Over(c) /\ serving
        BY <2>1, <2>4 DEF NothingDropped
      <3>2. stream[c] = <<>>
        BY <2>4, <3>1 DEF NothingDropped, Over
      <3> QED
        BY <2>1, <2>4, <3>1, <3>2, EmptyRange DEF NothingDropped
    <2> QED
      BY <2>1, <2>2, <2>3, <2>4 DEF NothingDropped
  <1>8. CASE CloseDatabase
    <2>1. /\ UNCHANGED <<client, sent, settled>> /\ serving' = FALSE /\ listening' = FALSE
          /\ handler' = [c \in Client |-> "ended"]
          /\ pc = "close" /\ pc' = "ended" /\ Commit
      BY <1>8 DEF CloseDatabase, ServerEnds
    <2>2. Range(committed') = Range(committed) \cup Range(executed)
      BY <2>1, RangeConcatenation DEF Commit, TypeOK
    <2>3. \A c \in Client : ToBeStored(c)' = ToBeStored(c) /\ (Over(c) => Over(c)')
      BY <2>1 DEF ToBeStored, Over
    <2> QED
      BY <2>1, <2>2, <2>3 DEF NothingDropped, Kept
  <1> QED
    BY <1>2, <1>3, <1>4, <1>5, <1>6, <1>7, <1>8 DEF AggregatorStep

(* When every client was through before the socket was closed, and nothing *)
(* ended the process before, every row that was sent is in the database,   *)
(* for any number of clients that connect late, never, or still send after *)
(* the end (drain_queue and the last commit).                              *)
THEOREM CleanEnd == Spec => []NothingLost
  <1>1. Init => NothingDropped
    BY EmptyRange, Zenon DEF Init, SocketInit, NothingDropped, ToBeStored
  <1>2. TypeOK /\ NothingDropped /\ [Next]_vars => NothingDropped'
    BY AggregatorStepDrops, ClientStepDrops, HandlerStepDrops DEF Next
  <1>3. TypeOK /\ NothingDropped => NothingLost
    <2> SUFFICES ASSUME TypeOK, NothingDropped, pc = "ended", settled, NEW c \in Client,
                        NEW i \in DOMAIN sent[c], sent[c][i].kind \in {"row", "visit"},
                        client[c] = "closed"
                 PROVE  sent[c][i] \in Range(committed)
      BY DEF NothingLost
    <2>1. sent[c][i] \in ToBeStored(c)
      BY DEF ToBeStored, Range
    <2> QED
      BY <2>1 DEF NothingDropped
  <1> QED
    BY <1>1, <1>2, <1>3, TypeCorrect, PTL DEF Spec
=============================================================================
