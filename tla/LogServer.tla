------------------------------- MODULE LogServer -------------------------------
(***************************************************************************)
(* MPLogger: a process that writes the records of all others to one file.  *)
(* The clients' loggers are Python's: a handler is locked while it sends,  *)
(* and a process that is forked has its parent's logger as it was then,    *)
(* locked or not.                                                          *)
(***************************************************************************)
EXTENDS Naturals, Sequences, FiniteSets, PythonNone

CONSTANTS
  Threads,      \* threads of the TaskManager
  SPAWN_LIMIT,  \* _UNSUCCESSFUL_SPAWN_LIMIT
  MaxRecords    \* bound: records that are sent

ASSUME LogServerAssumption == {SPAWN_LIMIT, MaxRecords} \subseteq Nat

VARIABLES
  handler_lock,   \* the thread that holds the TaskManager's handler, or None
  child,          \* a child that starts: "none", "stuck", "up"
  spawns,         \* attempts to start it
  log_queue,      \* sock.queue
  log_file,       \* records that were written
  log_status,     \* status_queue: DIE was put, or taken
  log_server,     \* "running", "draining" or "ended"
  records, told   \* history: records sent (bounded by MaxRecords); those before DIE

logVars == <<handler_lock, child, spawns, log_queue, log_file, log_status, log_server, records, told>>

LogServerInit ==
  /\ handler_lock = None /\ child = "none" /\ spawns = 0
  /\ log_queue = <<>> /\ log_file = <<>> /\ log_status = {} /\ log_server = "running"
  /\ records = 0 /\ told = 0

SendRecord ==
  /\ records < MaxRecords
  /\ records' = records + 1 /\ log_queue' = Append(log_queue, records + 1)

LockHandler(t) ==
  /\ handler_lock = None /\ records < MaxRecords
  /\ handler_lock' = t
  /\ UNCHANGED <<child, spawns, log_queue, log_file, log_status, log_server, records, told>>

(* Nobody learns that the server is gone.                                  *)
Emit(t) ==
  /\ handler_lock = t
  /\ \/ log_server # "ended" /\ SendRecord
     \/ log_server = "ended" /\ UNCHANGED <<records, log_queue>>
  /\ handler_lock' = None
  /\ UNCHANGED <<child, spawns, log_file, log_status, log_server, told>>

(* launch_browser_manager forks a child; loggingclient finds handlers      *)
(* there and keeps them, with the lock another thread may be holding.      *)
Fork ==
  /\ child = "none" /\ spawns < SPAWN_LIMIT /\ log_status = {}
  /\ child' = IF handler_lock = None THEN "up" ELSE "stuck"
  /\ UNCHANGED <<handler_lock, spawns, log_queue, log_file, log_status, log_server, records, told>>

ChildLogs ==
  /\ child = "up"
  /\ SendRecord
  /\ UNCHANGED <<handler_lock, child, spawns, log_file, log_status, log_server, told>>

(* It never says that it is ready: it is killed, and another one started.  *)
SpawnTimeout ==
  /\ child = "stuck"
  /\ child' = "none" /\ spawns' = spawns + 1
  /\ UNCHANGED <<handler_lock, log_queue, log_file, log_status, log_server, records, told>>

(* The last thing that the TaskManager does.                               *)
KillLogServer ==
  /\ log_status = {} /\ child # "stuck"
  /\ log_status' = {"DIE"} /\ told' = records /\ child' = "none"
  /\ UNCHANGED <<handler_lock, spawns, log_queue, log_file, log_server, records>>

HandleRecord ==
  /\ log_server = "running" /\ "DIE" \notin log_status /\ log_queue # <<>>
  /\ log_file' = Append(log_file, Head(log_queue)) /\ log_queue' = Tail(log_queue)
  /\ UNCHANGED <<handler_lock, child, spawns, log_status, log_server, records, told>>

TakeDIEAtOnce ==
  /\ log_server = "running" /\ log_status = {"DIE"}
  /\ log_status' = {"taken"} /\ log_server' = "ended"
  /\ UNCHANGED <<handler_lock, child, spawns, log_queue, log_file, records, told>>

TakeDIE ==
  /\ log_server = "running" /\ log_status = {"DIE"}
  /\ log_status' = {"taken"} /\ log_server' = "draining"
  /\ UNCHANGED <<handler_lock, child, spawns, log_queue, log_file, records, told>>

DrainLog ==
  /\ log_server = "draining"
  /\ IF log_queue = <<>> THEN log_server' = "ended" /\ UNCHANGED <<log_file, log_queue>>
     ELSE /\ log_file' = Append(log_file, Head(log_queue)) /\ log_queue' = Tail(log_queue)
          /\ UNCHANGED log_server
  /\ UNCHANGED <<handler_lock, child, spawns, log_status, records, told>>

LogServerNext ==
  \/ \E t \in Threads : LockHandler(t) \/ Emit(t)
  \/ Fork \/ ChildLogs \/ SpawnTimeout \/ KillLogServer
  \/ HandleRecord \/ TakeDIE \/ DrainLog
-----------------------------------------------------------------------------
(* When the server has ended, what was logged before the TaskManager told  *)
(* it to is in the file, all records in the order in which they came.      *)
LogsKept ==
  /\ \A n \in DOMAIN log_file : log_file[n] = n
  /\ log_server = "ended" => Len(log_file) >= told
=============================================================================
