--------------------------- MODULE LevelDBAggregator ---------------------------
(***************************************************************************)
(* The aggregator of scripts: <hash, content> pairs come in on a socket    *)
(* and are written to LevelDB in batches, once for each hash.              *)
(***************************************************************************)
EXTENDS Naturals, Sequences, FiniteSets, Functions

CONSTANT batch_size  \* records of a batch

ASSUME LevelDBAssumption == batch_size \in Nat \ {0}

VARIABLES
  ldb_queue,  \* sock.queue, with what clients have sent
  batch,      \* the write batch: a function from hashes to contents
  counter,    \* puts since the last full batch
  db,         \* javascript.ldb: a function from hashes to contents
  ldb         \* running, draining or closed

ldbVars == <<ldb_queue, batch, counter, db, ldb>>

Nothing == [h \in {} |-> h]

(* The values of "new", and those of "old" where it has none.              *)
Over(new, old) ==
  [h \in DOMAIN new \cup DOMAIN old |-> IF h \in DOMAIN new THEN new[h] ELSE old[h]]

LevelDBInit ==
  ldb_queue = <<>> /\ batch = Nothing /\ counter = 0 /\ db = Nothing /\ ldb = "running"

Send(record) == ldb_queue' = Append(ldb_queue, record) /\ UNCHANGED <<batch, counter, db, ldb>>

(* process_content: what the database has is skipped; it does not look     *)
(* into the batch.                                                         *)
Unseen(record) == record.hash \notin DOMAIN db
Batch(record) ==
  IF Unseen(record) THEN Over([h \in {record.hash} |-> record.content], batch) ELSE batch
Count(record) == IF Unseen(record) THEN counter + 1 ELSE counter

Write(b) == db' = Over(b, db) /\ batch' = Nothing

ProcessRecord ==
  /\ ldb = "running" /\ ldb_queue # <<>>
  /\ ldb_queue' = Tail(ldb_queue)
  /\ LET record == Head(ldb_queue)
     IN IF Count(record) >= batch_size
        THEN Write(Batch(record)) /\ counter' = 0
        ELSE batch' = Batch(record) /\ counter' = Count(record) /\ UNCHANGED db
  /\ UNCHANGED ldb

(* Nothing came in for a while: the counter stays as it is.                *)
WriteWhenIdle ==
  /\ ldb = "running" /\ ldb_queue = <<>> /\ counter > 0
  /\ Write(batch)
  /\ UNCHANGED <<ldb_queue, counter, ldb>>

(* DIE: what has arrived is drained, then written.                         *)
KillLevelDB == ldb = "running" /\ ldb' = "draining" /\ UNCHANGED <<ldb_queue, batch, counter, db>>

DrainRecord ==
  /\ ldb = "draining" /\ ldb_queue # <<>>
  /\ ldb_queue' = Tail(ldb_queue)
  /\ batch' = Batch(Head(ldb_queue)) /\ counter' = Count(Head(ldb_queue))
  /\ UNCHANGED <<db, ldb>>

CloseUnwritten ==
  /\ ldb = "draining" /\ ldb_queue = <<>>
  /\ ldb' = "closed"
  /\ UNCHANGED <<ldb_queue, batch, counter, db>>

CloseLevelDB ==
  /\ ldb = "draining" /\ ldb_queue = <<>>
  /\ Write(batch)
  /\ ldb' = "closed"
  /\ UNCHANGED <<ldb_queue, counter>>

LevelDB == ProcessRecord \/ WriteWhenIdle \/ DrainRecord \/ CloseLevelDB
=============================================================================
