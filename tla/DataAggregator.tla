---------------------------- MODULE DataAggregator ----------------------------
(***************************************************************************)
(* The process that writes what a crawl collects to its SQLite database    *)
(* (DataAggregator.py).  It executes the statements of its queue in one    *)
(* transaction, which it commits after a batch, and when idle, and when it *)
(* is told to die.                                                         *)
(*                                                                         *)
(* Of the statements four kinds differ here: a row, a row of site_visits,  *)
(* whose visit id is its primary key, the creation of a table (which       *)
(* sqlite3 commits together with what was executed before), and one that   *)
(* is not supported.                                                       *)
(***************************************************************************)
EXTENDS SocketInterface, Functions

CONSTANTS
  BatchSize,    \* commit_batch_size
  UniqueVisits, \* the TaskManager uses a visit id once
  MaxKills      \* bound: 1 if the process may be killed, or 0

ASSUME AggregatorAssumption ==
  BatchSize \in Nat \ {0} /\ UniqueVisits \in BOOLEAN /\ MaxKills \in {0, 1}

VARIABLES
  pc,        \* where DataAggregator is; "crashed" when an exception or a signal ended it
  told,      \* the status queue has "DIE"
  counter,   \* counter
  recent,    \* less than five seconds since commit_time
  executed,  \* rows in the open transaction
  committed, \* rows in the database
  settled    \* history: when it closed its socket every client was through

aggregatorVars == <<pc, told, counter, recent, executed, committed, settled>>
vars == <<socketVars, aggregatorVars>>

(* A mutant: the transaction is not renewed.                               *)
CommitAgain == committed' = committed \o executed /\ UNCHANGED executed

Commit == committed' = committed \o executed /\ executed' = <<>>

VisitIds == {m.visit : m \in {r \in Range(committed \o executed) : r.kind = "visit"}}

Crash ==
  /\ pc' = "crashed" /\ executed' = <<>> /\ queue' = <<>>
  /\ ServerEnds
  /\ UNCHANGED <<told, counter, recent, committed, settled>>

-----------------------------------------------------------------------------
(* Clients *)

NewVisit(v) ==
  LET given == {m.visit : m \in UNION {Range(sent[c]) : c \in Client}} IN
  /\ v > 0 /\ (v = 1 \/ v - 1 \in given)
  /\ UniqueVisits => v \notin given

ClientStep(c) ==
  /\ \/ Connect(c) \/ CloseClient(c)
     \/ \E kind \in Kind[c] : \E v \in 0 .. MaxSent :
          /\ IF kind = "visit" THEN NewVisit(v) ELSE v = 0
          /\ Send(c, kind, v)
  /\ UNCHANGED aggregatorVars

(* _kill_aggregators of the TaskManager.                                   *)
TellToDie ==
  /\ ~told /\ told' = TRUE
  /\ UNCHANGED <<socketVars, pc, counter, recent, executed, committed, settled>>

-----------------------------------------------------------------------------
(* process_query, then at l                                                *)
ProcessQuery(l) ==
  LET m == Head(queue) IN
  /\ queue # <<>>
  /\ ~(m.kind = "visit" /\ m.visit \in VisitIds)
  /\ queue' = Tail(queue)
  /\ \/ /\ m.kind \in {"row", "visit"}
        /\ executed' = Append(executed, m) /\ UNCHANGED committed
     \/ m.kind = "create" /\ Commit
     \/ m.kind = "unsupported" /\ UNCHANGED <<executed, committed>>
  /\ pc' = l
  /\ UNCHANGED <<client, handler, stream, sent, listening, serving, told, recent, settled>>

(* A second row with a visit id is an IntegrityError, which nobody         *)
(* catches.                                                                *)
IntegrityError ==
  /\ pc \in {"look", "drain"} /\ queue # <<>>
  /\ Head(queue).kind = "visit" /\ Head(queue).visit \in VisitIds
  /\ Crash

(* The loop looks for DIE first and then at the queue.                     *)
LookForDie ==
  /\ pc = "loop" /\ ~told /\ pc' = "look"
  /\ UNCHANGED <<socketVars, told, counter, recent, executed, committed, settled>>

Execute ==
  /\ pc = "look"
  /\ ProcessQuery("executed") /\ counter' = counter + 1

(* A mutant: a batch is one statement too long.                            *)
BatchCommitLate ==
  /\ pc = "executed" /\ pc' = "loop"
  /\ IF counter > BatchSize
     THEN counter' = 0 /\ recent' = TRUE /\ Commit
     ELSE UNCHANGED <<counter, recent, executed, committed>>
  /\ UNCHANGED <<socketVars, told, settled>>

BatchCommit ==
  /\ pc = "executed" /\ pc' = "loop"
  /\ IF counter >= BatchSize
     THEN counter' = 0 /\ recent' = TRUE /\ Commit
     ELSE UNCHANGED <<counter, recent, executed, committed>>
  /\ UNCHANGED <<socketVars, told, settled>>

(* A mutant: when idle only a full batch is committed.                     *)
IdleCommitFull ==
  /\ pc = "look" /\ queue = <<>> /\ pc' = "loop"
  /\ IF counter >= BatchSize /\ ~recent THEN Commit ELSE UNCHANGED <<executed, committed>>
  /\ UNCHANGED <<socketVars, told, counter, recent, settled>>

(* Every five seconds, or so; counter and commit_time are left alone.      *)
IdleCommit ==
  /\ pc = "look" /\ queue = <<>> /\ pc' = "loop"
  /\ IF counter > 0 /\ ~recent THEN Commit ELSE UNCHANGED <<executed, committed>>
  /\ UNCHANGED <<socketVars, told, counter, recent, settled>>

FiveSecondsPass ==
  /\ recent /\ recent' = FALSE
  /\ UNCHANGED <<socketVars, pc, told, counter, executed, committed, settled>>

(* A client that is through: its thread has put all it sent on the queue.  *)
Through(c) == handler[c] = "ended" \/ client[c] = "new"

(* Told to die: the socket accepts no more connections, but the threads    *)
(* of open connections go on.                                              *)
CloseSocket ==
  /\ pc = "loop" /\ told
  /\ listening' = FALSE /\ pc' = "drain"
  /\ settled' = \A c \in Client : Through(c)
  /\ UNCHANGED <<client, handler, stream, sent, queue, serving, told, counter, recent,
                 executed, committed>>

Drain ==
  /\ pc = "drain"
  /\ ProcessQuery("drain") /\ UNCHANGED counter

(* A mutant: clients are waited for.                                       *)
DrainEndsWithClients ==
  /\ pc = "drain" /\ queue = <<>> /\ pc' = "close"
  /\ \A c \in Client : Through(c)
  /\ UNCHANGED <<socketVars, told, counter, recent, executed, committed, settled>>

DrainEnds ==
  /\ pc = "drain" /\ queue = <<>> /\ pc' = "close"
  /\ UNCHANGED <<socketVars, told, counter, recent, executed, committed, settled>>

CloseDatabase ==
  /\ pc = "close" /\ pc' = "ended"
  /\ Commit /\ ServerEnds
  /\ UNCHANGED <<queue, told, counter, recent, settled>>

(* The machine stops, or the process is killed.                            *)
Kill ==
  /\ MaxKills = 1 /\ pc \notin {"ended", "crashed"}
  /\ Crash

-----------------------------------------------------------------------------
Init ==
  /\ SocketInit
  /\ pc = "loop" /\ told = FALSE
  /\ counter = 0 /\ recent = FALSE
  /\ executed = <<>> /\ committed = <<>> /\ settled = FALSE

AggregatorStep ==
  \/ LookForDie \/ Execute \/ IntegrityError \/ BatchCommit \/ IdleCommit
  \/ CloseSocket \/ Drain \/ DrainEnds \/ CloseDatabase

HandlerStep(c) == ServerStep(c) /\ UNCHANGED aggregatorVars

Next ==
  \/ AggregatorStep \/ FiveSecondsPass \/ Kill \/ TellToDie
  \/ \E c \in Client : ClientStep(c) \/ HandlerStep(c)

Spec == Init /\ [][Next]_vars

(* The loop, the threads and the clock go on.  Clients need not send, or   *)
(* end, and the TaskManager need not tell.                                 *)
FairSpec ==
  /\ Spec /\ WF_vars(AggregatorStep) /\ WF_vars(FiveSecondsPass)
  /\ \A c \in Client : WF_vars(HandlerStep(c))

-----------------------------------------------------------------------------
TypeOK ==
  /\ SocketTypeOK
  /\ pc \in {"loop", "look", "executed", "drain", "close", "ended", "crashed"}
  /\ told \in BOOLEAN /\ counter \in 0 .. BatchSize /\ recent \in BOOLEAN
  /\ executed \in Seq(MessageSet) /\ committed \in Seq(MessageSet)
  /\ settled \in BOOLEAN

(* What is executed of a client is executed once and in the order it was   *)
(* sent, whatever the threads of other clients put between                 *)
(* (_handle_conn, process_query).                                          *)
KeepsOrder ==
  LET rows == committed \o executed IN
  \A i, j \in DOMAIN rows :
    i < j /\ rows[i].from = rows[j].from => rows[i].n < rows[j].n

(* No more than a batch of rows waits for a commit, so that no more is     *)
(* lost when the process ends in the loop (commit_batch_size).             *)
BatchBound == pc \in {"loop", "look", "executed"} => Len(executed) <= BatchSize

(* The database is a log of what was executed, written behind: never with  *)
(* a gap (the commits in DataAggregator).                                  *)
Log == INSTANCE WriteBehind WITH
         Row <- MessageSet, log <- committed \o executed, durable <- Len(committed)

DatabaseIsPrefix == Log!Spec

(* When all clients were through before it was told to die, and nothing    *)
(* ends the process, every row that was sent is in the database            *)
(* (drain_queue and the last commit).                                      *)
NothingLost ==
  pc = "ended" /\ settled =>
    \A c \in Client :
      \A i \in DOMAIN sent[c] :
        LET m == sent[c][i] IN
        m.kind \in {"row", "visit"} /\ client[c] = "closed" => m \in Range(committed)

(* What is executed becomes durable, or is lost in a crash, even if        *)
(* nothing more arrives (the commit when idle).                            *)
RowsAreSaved == executed # <<>> ~> executed = <<>>

(* Told to die, it ends (the loop, drain_queue).                           *)
DiesWhenTold == told ~> pc \in {"ended", "crashed"}
=============================================================================
