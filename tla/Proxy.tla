--------------------------------- MODULE Proxy ---------------------------------
(***************************************************************************)
(* The MITM proxy of a browser: a thread of the child that tags what the   *)
(* browser requests with the visit, and get_website, which tells it about  *)
(* the next visit.  Scripts go to the aggregator of scripts.               *)
(*                                                                         *)
(* Requests are numbered; what becomes of a request in the network is part *)
(* of Response[r]: whether its type or its URL says javascript, how the    *)
(* answer is encoded, whether it decodes, and its content.                 *)
(***************************************************************************)
EXTENDS LevelDBAggregator, PythonNone

CONSTANTS
  Response,   \* the response to each request
  HashOf,     \* the hash of each content: 64 bits, so two may have the same
  MaxVisits,  \* bound: visits
  MaxFaults   \* bound: messages that the proxy cannot handle

ASSUME ProxyAssumption ==
  /\ MaxVisits \in Nat /\ MaxFaults \in Nat
  /\ \A r \in DOMAIN Response : Response[r].content \in DOMAIN HashOf

VARIABLES
  pc,              \* the child: idle, put, wait, get or closed
  visit,           \* the visit of the child
  showing,         \* the visit of the page in the tab, 0 if that is blank
  visit_id_queue,
  q,               \* messages for the proxy: [kind, request]
  curr_visit_id, prev_visit_id, curr_requests, prev_requests,
  proxy,           \* running, draining, failed
  status_queue,    \* what the child told the TaskManager: FAILED
  origin,          \* origin[r]: the visit whose page made request r
  answered,        \* requests that the network has answered
  http_requests,   \* rows: [request, visit]
  http_responses,  \* rows: [request, visit, hash]
  failures         \* bounded by MaxFaults

childVars == <<pc, visit, showing, visit_id_queue>>
proxyVars == <<q, curr_visit_id, prev_visit_id, curr_requests, prev_requests, proxy,
               status_queue, http_requests, http_responses, failures>>
webVars   == <<origin, answered>>
proxyPartVars == <<childVars, proxyVars, webVars, ldbVars>>

Request == DOMAIN Response

ProxyInit ==
  /\ LevelDBInit
  /\ pc = "idle" /\ visit = 0 /\ showing = 0 /\ visit_id_queue = <<>>
  /\ q = <<>> /\ curr_visit_id = None /\ prev_visit_id = None
  /\ curr_requests = {} /\ prev_requests = {} /\ proxy = "running" /\ status_queue = <<>>
  /\ origin = <<>> /\ answered = {}
  /\ http_requests = {} /\ http_responses = {} /\ failures = 0
-----------------------------------------------------------------------------
(* get_website: a blank tab, the next visit for the proxy, and the page    *)
(* when the proxy has taken it.                                            *)
RestartTab ==
  /\ pc = "idle" /\ visit < MaxVisits
  /\ pc' = "put" /\ visit' = visit + 1 /\ showing' = 0
  /\ UNCHANGED <<visit_id_queue, proxyVars, webVars, ldbVars>>

PutVisit ==
  /\ pc = "put"
  /\ visit_id_queue' = Append(visit_id_queue, visit)
  /\ pc' = "wait"
  /\ UNCHANGED <<visit, showing, proxyVars, webVars, ldbVars>>

WaitNot ==
  /\ pc = "wait"
  /\ pc' = "get"
  /\ UNCHANGED <<visit, showing, visit_id_queue, proxyVars, webVars, ldbVars>>

WaitForProxy ==
  /\ pc = "wait" /\ visit_id_queue = <<>>
  /\ pc' = "get"
  /\ UNCHANGED <<visit, showing, visit_id_queue, proxyVars, webVars, ldbVars>>

GetPage ==
  /\ pc = "get"
  /\ showing' = visit
  /\ pc' = "idle"
  /\ UNCHANGED <<visit, visit_id_queue, proxyVars, webVars, ldbVars>>

(* The page makes a request; the network answers it.                       *)
MakeRequest ==
  /\ pc # "closed" /\ showing # 0 /\ Len(origin) < Cardinality(Request)
  /\ origin' = Append(origin, showing)
  /\ q' = Append(q, [kind |-> "request", request |-> Len(origin) + 1])
  /\ UNCHANGED <<childVars, curr_visit_id, prev_visit_id, curr_requests, prev_requests, proxy,
                 status_queue, http_requests, http_responses, failures, answered, ldbVars>>

AnswerRequest(r) ==
  /\ pc # "closed" /\ r \in {row.request : row \in http_requests} \ answered
  /\ answered' = answered \cup {r}
  /\ q' = Append(q, [kind |-> "response", request |-> r])
  /\ UNCHANGED <<childVars, curr_visit_id, prev_visit_id, curr_requests, prev_requests, proxy,
                 status_queue, http_requests, http_responses, failures, origin, ldbVars>>
-----------------------------------------------------------------------------
(* save_javascript_content: the hash of a script, None for what is no      *)
(* script or cannot be decoded.                                            *)
IsScript(response) == response.js_type \/ response.js_url
Readable(response) ==
  response.encoding = "identity" \/ (response.encoding \in {"gzip", "deflate"} /\ response.sound)
ScriptHash(response) ==
  IF IsScript(response) /\ Readable(response) THEN HashOf[response.content] ELSE None

handle_request(r) ==
  /\ curr_requests' = curr_requests \cup {r}
  /\ http_requests' = http_requests \cup {[request |-> r, visit |-> curr_visit_id]}
  /\ UNCHANGED <<prev_requests, http_responses, ldbVars>>

(* A response belongs to the visit of its request; it is ignored when that *)
(* was more than a visit ago.                                              *)
Record(r, tag) ==
  LET hash == ScriptHash(Response[r]) IN
  /\ http_responses' = http_responses \cup {[request |-> r, visit |-> tag, hash |-> hash]}
  /\ IF hash = None THEN UNCHANGED ldbVars
     ELSE Send([hash |-> hash, content |-> Response[r].content])

handle_response(r) ==
  /\ UNCHANGED http_requests
  /\ \/ /\ r \in prev_requests
        /\ prev_requests' = prev_requests \ {r} /\ UNCHANGED curr_requests
        /\ Record(r, prev_visit_id)
     \/ /\ r \in curr_requests \ prev_requests
        /\ curr_requests' = curr_requests \ {r} /\ UNCHANGED prev_requests
        /\ Record(r, curr_visit_id)
     \/ /\ r \notin curr_requests \cup prev_requests
        /\ UNCHANGED <<curr_requests, prev_requests, http_responses, ldbVars>>

(* tick: a fresh proxy waits for its first visit, ...                      *)
FirstVisit ==
  /\ proxy = "running" /\ curr_visit_id = None /\ visit_id_queue # <<>>
  /\ curr_visit_id' = Head(visit_id_queue) /\ visit_id_queue' = Tail(visit_id_queue)
  /\ UNCHANGED <<pc, visit, showing, q, prev_visit_id, curr_requests, prev_requests, proxy,
                 status_queue, http_requests, http_responses, failures, webVars, ldbVars>>

(* ... later the next visit has it handle what there is first, ...         *)
StartDrain ==
  /\ proxy = "running" /\ curr_visit_id # None /\ visit_id_queue # <<>>
  /\ proxy' = "draining"
  /\ UNCHANGED <<childVars, q, curr_visit_id, prev_visit_id, curr_requests, prev_requests,
                 status_queue, http_requests, http_responses, failures, webVars, ldbVars>>

NextVisitOnly ==
  /\ proxy = "draining" /\ q = <<>>
  /\ prev_visit_id' = curr_visit_id /\ curr_visit_id' = Head(visit_id_queue)
  /\ visit_id_queue' = Tail(visit_id_queue)
  /\ proxy' = "running"
  /\ UNCHANGED <<pc, visit, showing, q, curr_requests, prev_requests, status_queue,
                 http_requests, http_responses, failures, webVars, ldbVars>>

NextVisit ==
  /\ proxy = "draining" /\ q = <<>>
  /\ prev_requests' = curr_requests /\ curr_requests' = {}
  /\ prev_visit_id' = curr_visit_id /\ curr_visit_id' = Head(visit_id_queue)
  /\ visit_id_queue' = Tail(visit_id_queue)
  /\ proxy' = "running"
  /\ UNCHANGED <<pc, visit, showing, q, status_queue, http_requests, http_responses, failures,
                 webVars, ldbVars>>

(* ... and every tick handles a message, if there is one.                  *)
HandleMessage ==
  /\ proxy \in {"running", "draining"} /\ curr_visit_id # None /\ q # <<>>
  /\ q' = Tail(q)
  /\ IF Head(q).kind = "request" THEN handle_request(Head(q).request)
     ELSE handle_response(Head(q).request)
  /\ UNCHANGED <<childVars, curr_visit_id, prev_visit_id, proxy, status_queue, failures, webVars>>

(* run: a handler that raises ends the proxy, and the TaskManager is told. *)
FailsSilently ==
  /\ failures < MaxFaults
  /\ proxy \in {"running", "draining"} /\ curr_visit_id # None /\ q # <<>>
  /\ proxy' = "failed"
  /\ failures' = failures + 1
  /\ UNCHANGED <<childVars, q, curr_visit_id, prev_visit_id, curr_requests, prev_requests,
                 status_queue, http_requests, http_responses, webVars, ldbVars>>

ProxyFails ==
  /\ failures < MaxFaults
  /\ proxy \in {"running", "draining"} /\ curr_visit_id # None /\ q # <<>>
  /\ proxy' = "failed"
  /\ status_queue' = Append(status_queue, "FAILED")
  /\ failures' = failures + 1
  /\ UNCHANGED <<childVars, q, curr_visit_id, prev_visit_id, curr_requests, prev_requests,
                 http_requests, http_responses, webVars, ldbVars>>
-----------------------------------------------------------------------------
(* The TaskManager reads FAILED and starts child, browser and proxy anew.  *)
RestartChild ==
  /\ pc # "closed" /\ status_queue # <<>>
  /\ pc' = "idle" /\ showing' = 0 /\ visit_id_queue' = <<>>
  /\ q' = <<>> /\ curr_visit_id' = None /\ prev_visit_id' = None
  /\ curr_requests' = {} /\ prev_requests' = {} /\ proxy' = "running" /\ status_queue' = <<>>
  /\ UNCHANGED <<visit, http_requests, http_responses, failures, webVars, ldbVars>>

(* At the end of the crawl the child is killed, then the aggregator.       *)
KillChild ==
  /\ pc = "idle"
  /\ pc' = "closed" /\ showing' = 0
  /\ UNCHANGED <<visit, visit_id_queue, proxyVars, webVars, ldbVars>>

KillAggregator == pc = "closed" /\ KillLevelDB /\ UNCHANGED <<childVars, proxyVars, webVars>>

ProxyThread == FirstVisit \/ StartDrain \/ NextVisit \/ HandleMessage \/ ProxyFails
ChildStep == RestartTab \/ PutVisit \/ WaitForProxy \/ GetPage

ProxyNext ==
  \/ ChildStep \/ RestartChild \/ KillChild \/ KillAggregator
  \/ pc # "closed" /\ ProxyThread
  \/ MakeRequest \/ \E r \in Request : AnswerRequest(r)
  \/ LevelDB /\ UNCHANGED <<childVars, proxyVars, webVars>>

-----------------------------------------------------------------------------
(* A request is recorded under the visit whose page made it, however far   *)
(* behind the proxy is when the next visit begins.                         *)
RequestsBelongToVisit == \A row \in http_requests : row.visit = origin[row.request]

(* A response is recorded under the visit of its request, also when it     *)
(* comes after the next visit has begun.                                   *)
ResponsesFollowRequests ==
  \A row \in http_responses :
    \E other \in http_requests : other.request = row.request /\ other.visit = row.visit

(* When the aggregator has ended, every hash that a response row refers to *)
(* is in the database.                                                     *)
ScriptsKept ==
  ldb = "closed" => \A row \in http_responses : row.hash # None => row.hash \in DOMAIN db

(* A child that waits for its proxy goes on or is started anew, even if    *)
(* the proxy fails meanwhile or has failed before.                         *)
HandshakeEnds == (pc = "wait") ~> (pc # "wait")
=============================================================================
