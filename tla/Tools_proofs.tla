----------------------------- MODULE Tools_proofs -----------------------------
(***************************************************************************)
(* What holds of the parts in Tools for any numbers of visits, requests,   *)
(* scripts, sites, browsers and failures.                                  *)
(***************************************************************************)
EXTENDS Tools, Cookies_proofs, SequenceTheorems, FiniteSetTheorems, TLAPS

(* A step of Tools is a step of one part, which leaves the others alone.   *)
LEMMA ProxyStep ==
  ASSUME [Next]_vars  PROVE ProxyNext \/ UNCHANGED proxyPartVars
  BY DEF Next, vars, OfProxy

LEMMA LogServerStep ==
  ASSUME [Next]_vars  PROVE LogServerNext \/ UNCHANGED logVars
  BY DEF Next, vars, OfProxy

LEMMA CrawlScriptStep ==
  ASSUME [Next]_vars  PROVE CrawlScriptNext \/ UNCHANGED scriptVars
  BY DEF Next, vars, OfProxy

LEMMA ProfilesStep ==
  ASSUME [Next]_vars  PROVE ProfilesNext \/ UNCHANGED profileVars
  BY DEF Next, vars, OfProxy

(* What queues do.                                                         *)
LEMMA Singleton ==
  ASSUME NEW S, NEW x \in S
  PROVE  Head(<<x>>) = x /\ Tail(<<x>>) = <<>> /\ <<x>> \in Seq(S) /\ <<>> \in Seq(S)
  OBVIOUS

LEMMA Appended ==
  ASSUME NEW S, NEW s \in Seq(S), NEW x \in S
  PROVE  /\ Append(s, x) \in Seq(S)
         /\ DOMAIN s = 1 .. Len(s) /\ Len(s) \in Nat
         /\ DOMAIN Append(s, x) = 1 .. Len(s) + 1 /\ Len(Append(s, x)) = Len(s) + 1
         /\ \A n \in DOMAIN s : Append(s, x)[n] = s[n]
         /\ Append(s, x)[Len(s) + 1] = x
  BY AppendProperties, LenProperties

LEMMA Taken ==
  ASSUME NEW S, NEW s \in Seq(S), s # <<>>
  PROVE  /\ Head(s) \in S /\ Head(s) = s[1] /\ 1 \in DOMAIN s
         /\ Tail(s) \in Seq(S)
         /\ DOMAIN s = 1 .. Len(s) /\ Len(s) \in Nat
         /\ DOMAIN Tail(s) = 1 .. Len(s) - 1 /\ Len(Tail(s)) = Len(s) - 1
         /\ \A n \in DOMAIN Tail(s) : n + 1 \in DOMAIN s /\ Tail(s)[n] = s[n + 1]
  <1>1. Len(s) \in Nat \ {0} /\ DOMAIN s = 1 .. Len(s)
    BY EmptySeq, LenProperties
  <1> QED
    BY <1>1, HeadTailProperties, LenProperties

-----------------------------------------------------------------------------
(* The visits of the proxy.  A page is shown only after the proxy took its *)
(* visit, which it does when the requests of the visit before are handled; *)
(* so whatever request waits is of the current visit.                      *)

Message == [kind : {"request", "response"}, request : Nat]

VisitTypeOK ==
  /\ visit \in Nat /\ showing \in Nat
  /\ visit_id_queue \in Seq(Nat)
  /\ q \in Seq(Message)
  /\ origin \in Seq(Nat)
  /\ http_requests \in SUBSET [request : Nat, visit : Nat \cup {None}]

Handshake ==
  /\ pc \in {"idle", "put", "get", "closed"} => visit_id_queue = <<>>
  /\ pc = "wait" => visit_id_queue = <<visit>> \/ (visit_id_queue = <<>> /\ curr_visit_id = visit)
  /\ pc = "get" => curr_visit_id = visit
  /\ pc \in {"idle", "put", "wait", "get", "closed"}
  /\ showing # 0 => pc = "idle" /\ showing = visit /\ curr_visit_id = visit
  /\ proxy = "draining" => visit_id_queue # <<>>

RequestsWait ==
  \A n \in DOMAIN q :
    q[n].kind = "request" =>
      q[n].request \in DOMAIN origin /\ origin[q[n].request] = curr_visit_id

RowsOfVisits ==
  \A row \in http_requests : row.request \in DOMAIN origin /\ row.visit = origin[row.request]

VisitInv == VisitTypeOK /\ Handshake /\ RequestsWait /\ RowsOfVisits

LEMMA HandleRequestVisits ==
  ASSUME VisitInv, HandleMessage
  PROVE  VisitInv'
  <1> DEFINE m == Head(q)
  <1>1. q # <<>> /\ q' = Tail(q)
    BY DEF HandleMessage
  <1>2. /\ m \in Message /\ m = q[1] /\ q' \in Seq(Message)
        /\ 1 \in DOMAIN q
        /\ \A n \in DOMAIN q' : n + 1 \in DOMAIN q /\ q'[n] = q[n + 1]
    <2>1. q \in Seq(Message)
      BY DEF VisitInv, VisitTypeOK
    <2> QED
      BY <1>1, <2>1, Taken
  <1>3. UNCHANGED <<visit, showing, pc, visit_id_queue, origin, curr_visit_id, proxy>>
    BY DEF HandleMessage, childVars, webVars
  <1>4. RequestsWait'
    BY <1>2, <1>3 DEF VisitInv, RequestsWait
  <1>5. \/ http_requests' = http_requests
        \/ /\ m.kind = "request"
           /\ http_requests' = http_requests \cup {[request |-> m.request, visit |-> curr_visit_id]}
    BY DEF HandleMessage, handle_request, handle_response
  <1>6. m.kind = "request" => m.request \in DOMAIN origin /\ origin[m.request] = curr_visit_id
    BY <1>2 DEF VisitInv, RequestsWait
  <1>7. m.kind = "request" => curr_visit_id \in Nat
    BY <1>6 DEF VisitInv, VisitTypeOK
  <1> HIDE DEF m
  <1>8. RowsOfVisits' /\ VisitTypeOK'
    BY <1>2, <1>3, <1>5, <1>6, <1>7 DEF VisitInv, VisitTypeOK, RowsOfVisits
  <1> QED
    BY <1>3, <1>4, <1>8 DEF VisitInv, Handshake

LEMMA MakeRequestVisits ==
  ASSUME VisitInv, MakeRequest
  PROVE  VisitInv'
  <1> DEFINE m == [kind |-> "request", request |-> Len(origin) + 1]
             o == Append(origin, showing)
  <1>1. /\ showing \in Nat /\ origin \in Seq(Nat) /\ q \in Seq(Message)
        /\ showing = curr_visit_id
    BY DEF VisitInv, VisitTypeOK, Handshake, MakeRequest
  <1>2. /\ o \in Seq(Nat) /\ Len(origin) \in Nat
        /\ DOMAIN origin = 1 .. Len(origin) /\ DOMAIN o = 1 .. Len(origin) + 1
        /\ \A r \in DOMAIN origin : o[r] = origin[r]
        /\ o[Len(origin) + 1] = showing
    BY <1>1, Appended
  <1>3. m \in Message
    BY <1>2 DEF Message
  <1>4. origin' = o /\ q' = Append(q, m)
    BY DEF MakeRequest
  <1> HIDE DEF m, o
  <1>5. /\ q' \in Seq(Message)
        /\ \A n \in DOMAIN q' : (n \in DOMAIN q /\ q'[n] = q[n]) \/ q'[n] = m
    BY <1>1, <1>3, <1>4, Appended
  <1>6. /\ DOMAIN origin \subseteq DOMAIN origin' /\ Len(origin) + 1 \in DOMAIN origin'
        /\ m.request = Len(origin) + 1
    BY <1>2, <1>4 DEF m
  <1>7. UNCHANGED <<childVars, proxy, curr_visit_id, http_requests>>
    BY DEF MakeRequest
  <1>8. RequestsWait'
    BY <1>1, <1>2, <1>4, <1>5, <1>6, <1>7 DEF VisitInv, RequestsWait
  <1>9. RowsOfVisits'
    BY <1>2, <1>4, <1>6, <1>7 DEF VisitInv, RowsOfVisits
  <1>10. VisitTypeOK' /\ Handshake'
    BY <1>1, <1>2, <1>4, <1>5, <1>7 DEF VisitInv, VisitTypeOK, Handshake, childVars
  <1> QED
    BY <1>8, <1>9, <1>10 DEF VisitInv

LEMMA ProxyStepVisits ==
  ASSUME VisitInv, ProxyNext
  PROVE  VisitInv'
  <1> USE DEF VisitInv, VisitTypeOK, Handshake, RequestsWait, RowsOfVisits
  <1>1. CASE RestartTab
    BY <1>1 DEF RestartTab, proxyVars, webVars
  <1>2. CASE PutVisit
    <2>1. visit_id_queue' = <<visit>> /\ visit_id_queue' \in Seq(Nat)
      BY <1>2 DEF PutVisit
    <2> QED
      BY <1>2, <2>1 DEF PutVisit, proxyVars, webVars
  <1>3. CASE WaitForProxy
    BY <1>3 DEF WaitForProxy, proxyVars, webVars
  <1>4. CASE GetPage
    BY <1>4 DEF GetPage, proxyVars, webVars
  <1>5. CASE RestartChild
    BY <1>5, EmptySeq DEF RestartChild, webVars
  <1>6. CASE KillChild
    BY <1>6 DEF KillChild, proxyVars, webVars
  <1>7. CASE KillAggregator
    BY <1>7 DEF KillAggregator, childVars, proxyVars, webVars
  <1>8. CASE FirstVisit
    <2>1. pc = "wait" /\ visit_id_queue = <<visit>>
      BY <1>8, NoneAssumption DEF FirstVisit
    <2>4. visit_id_queue' \in Seq(Nat)
      BY <1>8 DEF FirstVisit
    <2>2. curr_visit_id' = visit /\ visit_id_queue' = <<>>
      BY <1>8, <2>1, Singleton DEF FirstVisit
    <2>3. \A n \in DOMAIN q : q[n].kind # "request"
      <3>1. \A r \in DOMAIN origin : origin[r] \in Nat
        BY ElementOfSeq, LenProperties
      <3> QED
        BY <1>8, <3>1, NoneAssumption DEF FirstVisit
    <2> QED
      BY <1>8, <2>1, <2>2, <2>3, <2>4 DEF FirstVisit, webVars
  <1>9. CASE StartDrain
    BY <1>9 DEF StartDrain, childVars, webVars
  <1>10. CASE NextVisit
    <2>1. pc = "wait" /\ visit_id_queue = <<visit>>
      BY <1>10 DEF NextVisit
    <2>2. curr_visit_id' = visit /\ visit_id_queue' = <<>> /\ visit_id_queue' \in Seq(Nat)
      BY <1>10, <2>1, Singleton DEF NextVisit
    <2>3. DOMAIN q = {}
      BY <1>10 DEF NextVisit
    <2> QED
      BY <1>10, <2>1, <2>2, <2>3 DEF NextVisit, webVars
  <1>11. CASE HandleMessage
    BY <1>11, HandleRequestVisits
  <1>12. CASE ProxyFails
    BY <1>12 DEF ProxyFails, childVars, webVars
  <1>13. CASE MakeRequest
    BY <1>13, MakeRequestVisits
  <1>14. ASSUME NEW r \in Request, AnswerRequest(r)
         PROVE  VisitInv'
    <2> DEFINE m == [kind |-> "response", request |-> r]
    <2>1. r \in Nat
      BY <1>14 DEF AnswerRequest
    <2>2. m \in Message /\ m.kind # "request" /\ q' = Append(q, m)
      BY <1>14, <2>1 DEF AnswerRequest, Message
    <2>3. /\ q' \in Seq(Message)
          /\ \A n \in DOMAIN q' : (n \in DOMAIN q /\ q'[n] = q[n]) \/ q'[n] = m
      BY <2>2, Appended
    <2> HIDE DEF m
    <2> QED
      BY <1>14, <2>2, <2>3 DEF AnswerRequest, childVars
  <1>15. CASE LevelDB /\ UNCHANGED <<childVars, proxyVars, webVars>>
    BY <1>15 DEF childVars, proxyVars, webVars
  <1> QED
    BY <1>1, <1>2, <1>3, <1>4, <1>5, <1>6, <1>7, <1>8, <1>9, <1>10, <1>11, <1>12, <1>13,
       <1>14, <1>15 DEF ProxyNext, ChildStep, ProxyThread

(* The messages of the proxy are of the visit that it is at.               *)
THEOREM VisitsKept == Spec => []VisitInv
  <1>1. Init => VisitInv
    BY EmptySeq DEF Init, ProxyInit, VisitInv, VisitTypeOK, Handshake, RequestsWait, RowsOfVisits
  <1>2. VisitInv /\ [Next]_vars => VisitInv'
    <2>1. VisitInv /\ UNCHANGED proxyPartVars => VisitInv'
      BY DEF proxyPartVars, childVars, proxyVars, webVars, VisitInv, VisitTypeOK, Handshake,
             RequestsWait, RowsOfVisits
    <2> QED
      BY <2>1, ProxyStep, ProxyStepVisits
  <1> QED
    BY <1>1, <1>2, PTL DEF Spec

(* Requests are recorded under the visit whose page made them.             *)
THEOREM RequestsTold == Spec => []RequestsBelongToVisit
  <1>1. VisitInv => RequestsBelongToVisit
    BY DEF VisitInv, RowsOfVisits, RequestsBelongToVisit
  <1> QED
    BY <1>1, VisitsKept, PTL

-----------------------------------------------------------------------------
(* The responses.  A request that waits for its response has a row, under  *)
(* the visit that was the proxy's when it was made.                        *)

RequestsRecorded ==
  /\ \A r \in curr_requests : [request |-> r, visit |-> curr_visit_id] \in http_requests
  /\ \A r \in prev_requests : [request |-> r, visit |-> prev_visit_id] \in http_requests

ResponsesRecorded ==
  \A row \in http_responses : [request |-> row.request, visit |-> row.visit] \in http_requests

FreshProxy == curr_visit_id = None => curr_requests = {}

ResponseInv == RequestsRecorded /\ ResponsesRecorded /\ FreshProxy

LEMMA ProxyStepResponses ==
  ASSUME ResponseInv, ProxyNext
  PROVE  ResponseInv'
  <1> USE DEF ResponseInv, RequestsRecorded, ResponsesRecorded, FreshProxy
  <1>1. CASE HandleMessage
    <2>1. UNCHANGED <<curr_visit_id, prev_visit_id>>
      BY <1>1 DEF HandleMessage
    <2>2. ASSUME NEW r, handle_request(r)
          PROVE  ResponseInv'
      BY <1>1, <2>1, <2>2 DEF handle_request, HandleMessage
    <2>3. ASSUME NEW r, handle_response(r)
          PROVE  ResponseInv'
      BY <1>1, <2>1, <2>3 DEF handle_response, Record, HandleMessage
    <2> QED
      BY <1>1, <2>2, <2>3 DEF HandleMessage
  <1>2. CASE NextVisit
    BY <1>2 DEF NextVisit
  <1>3. CASE FirstVisit
    BY <1>3 DEF FirstVisit
  <1>4. CASE RestartChild
    BY <1>4 DEF RestartChild
  <1>5. CASE \/ ChildStep \/ KillChild \/ KillAggregator \/ StartDrain \/ ProxyFails \/ MakeRequest
             \/ (\E r \in Request : AnswerRequest(r))
             \/ UNCHANGED proxyVars
    <2>1. UNCHANGED <<curr_visit_id, prev_visit_id, curr_requests, prev_requests,
                      http_requests, http_responses>>
      BY <1>5 DEF ChildStep, RestartTab, PutVisit, WaitForProxy, GetPage, KillChild,
                  KillAggregator, StartDrain, ProxyFails, MakeRequest, AnswerRequest, proxyVars
    <2> QED
      BY <2>1
  <1> QED
    BY <1>1, <1>2, <1>3, <1>4, <1>5 DEF ProxyNext, ProxyThread

(* A response is recorded under the visit of its request.                  *)
THEOREM ResponsesTold == Spec => []ResponsesFollowRequests
  <1> USE DEF ResponseInv, RequestsRecorded, ResponsesRecorded, FreshProxy
  <1>1. Init => ResponseInv
    BY DEF Init, ProxyInit
  <1>2. ResponseInv /\ [Next]_vars => ResponseInv'
    <2>1. ResponseInv /\ UNCHANGED proxyPartVars => ResponseInv'
      BY DEF proxyPartVars, proxyVars
    <2> QED
      BY <2>1, ProxyStep, ProxyStepResponses
  <1>3. ResponseInv => ResponsesFollowRequests
    BY DEF ResponsesFollowRequests
  <1> QED
    BY <1>1, <1>2, <1>3, PTL DEF Spec

-----------------------------------------------------------------------------
(* The scripts.  A hash that a row refers to is in the database, in the    *)
(* batch or on its way; nothing is on its way once the aggregator closed,  *)
(* because it is told to after the last child was killed.                  *)

ScriptRecord == {[hash |-> HashOf[Response[r].content], content |-> Response[r].content] : r \in Nat}

OnTheWay == {ldb_queue[n].hash : n \in DOMAIN ldb_queue}

ScriptInv ==
  /\ ldb_queue \in Seq(ScriptRecord)
  /\ ldb # "running" => pc = "closed"
  /\ ldb = "closed" => ldb_queue = <<>> /\ DOMAIN batch = {}
  /\ \A row \in http_responses :
       row.hash # None => row.hash \in DOMAIN db \cup DOMAIN batch \cup OnTheWay

LEMMA OverDomain ==
  ASSUME NEW f, NEW g  PROVE DOMAIN Over(f, g) = DOMAIN f \cup DOMAIN g
  BY DEF Over

LEMMA BatchDomain ==
  ASSUME NEW record
  PROVE  /\ DOMAIN batch \subseteq DOMAIN Batch(record)
         /\ record.hash \in DOMAIN db \cup DOMAIN Batch(record)
  <1> DEFINE single == [h \in {record.hash} |-> record.content]
  <1>1. DOMAIN single = {record.hash} /\ DOMAIN Over(single, batch) = DOMAIN single \cup DOMAIN batch
    BY OverDomain
  <1> HIDE DEF single
  <1>2. CASE Unseen(record)
    <2>1. Batch(record) = Over(single, batch)
      BY <1>2 DEF Batch, single
    <2> QED
      BY <1>1, <2>1
  <1>3. CASE ~Unseen(record)
    BY <1>3 DEF Batch, Unseen
  <1> QED
    BY <1>2, <1>3

(* What is taken from the queue is in the batch or in the database then,   *)
(* and what is written leaves the batch for the database.                  *)
LEMMA LevelDBKeeps ==
  ASSUME ScriptInv, LevelDB
  PROVE  /\ ldb_queue' \in Seq(ScriptRecord)
         /\ DOMAIN db \cup DOMAIN batch \cup OnTheWay
              \subseteq DOMAIN db' \cup DOMAIN batch' \cup OnTheWay'
         /\ ldb' # "running" => ldb # "running"
         /\ ldb' = "closed" => ldb_queue' = <<>> /\ DOMAIN batch' = {}
  <1>1. DOMAIN Nothing = {}
    BY DEF Nothing
  <1>2. ASSUME ldb_queue # <<>>, ldb_queue' = Tail(ldb_queue)
        PROVE  /\ ldb_queue' \in Seq(ScriptRecord)
               /\ OnTheWay \subseteq {Head(ldb_queue).hash} \cup OnTheWay'
    <2>1. /\ ldb_queue' \in Seq(ScriptRecord) /\ Head(ldb_queue) = ldb_queue[1]
          /\ DOMAIN ldb_queue = 1 .. Len(ldb_queue) /\ Len(ldb_queue) \in Nat
          /\ DOMAIN ldb_queue' = 1 .. Len(ldb_queue) - 1
          /\ \A n \in DOMAIN ldb_queue' : ldb_queue'[n] = ldb_queue[n + 1]
      BY <1>2, Taken DEF ScriptInv
    <2>2. ASSUME NEW n \in DOMAIN ldb_queue
          PROVE  ldb_queue[n].hash \in {Head(ldb_queue).hash} \cup OnTheWay'
      <3>1. CASE n = 1
        BY <3>1, <2>1
      <3>2. CASE n # 1
        <4>1. n - 1 \in DOMAIN ldb_queue' /\ ldb_queue'[n - 1] = ldb_queue[n]
          BY <3>2, <2>1
        <4> QED
          BY <4>1 DEF OnTheWay
      <3> QED
        BY <3>1, <3>2
    <2> QED
      BY <2>1, <2>2 DEF OnTheWay
  <1>6. ASSUME NEW b, Write(b)
        PROVE  DOMAIN db \cup DOMAIN b \subseteq DOMAIN db' /\ DOMAIN batch' = {}
    BY <1>1, <1>6, OverDomain DEF Write
  <1>3. CASE ProcessRecord
    <2> DEFINE record == Head(ldb_queue)
    <2>1. /\ ldb_queue # <<>> /\ ldb_queue' = Tail(ldb_queue) /\ UNCHANGED ldb /\ ldb = "running"
          /\ \/ Write(Batch(record))
             \/ batch' = Batch(record) /\ db' = db
      BY <1>3 DEF ProcessRecord
    <2>2. DOMAIN db \cup DOMAIN batch \cup {record.hash} \subseteq DOMAIN db' \cup DOMAIN batch'
      <3>1. /\ DOMAIN batch \subseteq DOMAIN Batch(record)
            /\ record.hash \in DOMAIN db \cup DOMAIN Batch(record)
        BY BatchDomain
      <3> QED
        BY <2>1, <3>1, <1>6
    <2> QED
      BY <1>2, <2>1, <2>2
  <1>4. CASE DrainRecord
    <2> DEFINE record == Head(ldb_queue)
    <2>1. /\ ldb_queue # <<>> /\ ldb_queue' = Tail(ldb_queue) /\ UNCHANGED ldb /\ ldb = "draining"
          /\ batch' = Batch(record) /\ db' = db
      BY <1>4 DEF DrainRecord
    <2>2. DOMAIN db \cup DOMAIN batch \cup {record.hash} \subseteq DOMAIN db' \cup DOMAIN batch'
      BY <2>1, BatchDomain
    <2> QED
      BY <1>2, <2>1, <2>2
  <1>5. CASE WriteWhenIdle \/ CloseLevelDB
    <2>1. Write(batch) /\ UNCHANGED ldb_queue
      BY <1>5 DEF WriteWhenIdle, CloseLevelDB
    <2>2. /\ ldb' # "running" => ldb # "running"
          /\ ldb' = "closed" => ldb_queue' = <<>>
      BY <1>5 DEF WriteWhenIdle, CloseLevelDB
    <2>3. ldb_queue' \in Seq(ScriptRecord) /\ OnTheWay' = OnTheWay
      BY <2>1 DEF ScriptInv, OnTheWay
    <2> QED
      BY <1>6, <2>1, <2>2, <2>3
  <1> QED
    BY <1>3, <1>4, <1>5 DEF LevelDB

LEMMA RecordKeeps ==
  ASSUME ScriptInv, NEW r \in Nat, NEW tag, Record(r, tag), pc' = pc, pc # "closed"
  PROVE  ScriptInv'
  <1> DEFINE hash == ScriptHash(Response[r])
             record == [hash |-> hash, content |-> Response[r].content]
  <1>1. CASE hash = None
    BY <1>1 DEF Record, ScriptInv, OnTheWay, ldbVars
  <1>2. CASE hash # None
    <2>1. hash = HashOf[Response[r].content] /\ record \in ScriptRecord
      BY <1>2 DEF ScriptHash, ScriptRecord
    <2>2. /\ ldb_queue' = Append(ldb_queue, record)
          /\ http_responses' = http_responses \cup {[request |-> r, visit |-> tag, hash |-> hash]}
          /\ UNCHANGED <<batch, db, ldb>>
      BY <1>2 DEF Record, Send
    <2>3. /\ ldb_queue' \in Seq(ScriptRecord)
          /\ DOMAIN ldb_queue = 1 .. Len(ldb_queue) /\ Len(ldb_queue) \in Nat
          /\ DOMAIN ldb_queue' = 1 .. Len(ldb_queue) + 1
          /\ \A n \in DOMAIN ldb_queue : ldb_queue'[n] = ldb_queue[n]
          /\ ldb_queue'[Len(ldb_queue) + 1] = record
      BY <2>1, <2>2, Appended DEF ScriptInv
    <2>4. OnTheWay \subseteq OnTheWay' /\ hash \in OnTheWay'
      BY <2>3 DEF OnTheWay
    <2> QED
      BY <2>2, <2>3, <2>4 DEF ScriptInv
  <1> QED
    BY <1>1, <1>2

LEMMA ProxyStepScripts ==
  ASSUME VisitInv, ScriptInv, ProxyNext
  PROVE  ScriptInv'
  <1>1. CASE HandleMessage /\ pc # "closed"
    <2> DEFINE r == Head(q).request
    <2>1. r \in Nat
      <3>1. Head(q) \in Message
        BY <1>1, Taken DEF VisitInv, VisitTypeOK, HandleMessage
      <3> QED
        BY <3>1 DEF Message
    <2>2. pc' = pc
      BY <1>1 DEF HandleMessage, childVars
    <2>3. \/ \E tag : Record(r, tag)
          \/ UNCHANGED <<http_responses, ldbVars>>
      BY <1>1 DEF HandleMessage, handle_request, handle_response
    <2>4. CASE UNCHANGED <<http_responses, ldbVars>>
      BY <2>2, <2>4 DEF ScriptInv, OnTheWay, ldbVars
    <2> HIDE DEF r
    <2> QED
      BY <1>1, <2>1, <2>2, <2>3, <2>4, RecordKeeps
  <1>2. CASE KillAggregator
    BY <1>2 DEF KillAggregator, KillLevelDB, childVars, proxyVars, ScriptInv, OnTheWay
  <1>3. CASE LevelDB /\ UNCHANGED <<childVars, proxyVars, webVars>>
    BY <1>3, LevelDBKeeps DEF childVars, proxyVars, ScriptInv
  <1>4. CASE UNCHANGED <<http_responses, ldbVars>> /\ (pc = "closed" => pc' = "closed")
    BY <1>4 DEF ldbVars, ScriptInv, OnTheWay
  <1>5. CASE ChildStep \/ RestartChild \/ KillChild \/ FirstVisit \/ StartDrain \/ NextVisit
             \/ ProxyFails \/ MakeRequest \/ (\E r \in Request : AnswerRequest(r))
    BY <1>4, <1>5 DEF ChildStep, RestartTab, PutVisit, WaitForProxy, GetPage, RestartChild, KillChild,
              FirstVisit, StartDrain, NextVisit, ProxyFails, MakeRequest, AnswerRequest,
              proxyVars, childVars
  <1> QED
    BY <1>1, <1>2, <1>3, <1>5 DEF ProxyNext, ProxyThread

(* Once the aggregator has closed, the database has every script that a    *)
(* row refers to.                                                          *)
THEOREM ScriptsStored == Spec => []ScriptsKept
  <1>1. Init => ScriptInv
    BY EmptySeq DEF Init, ProxyInit, LevelDBInit, ScriptInv, OnTheWay
  <1>2. VisitInv /\ ScriptInv /\ [Next]_vars => ScriptInv'
    <2>1. ScriptInv /\ UNCHANGED proxyPartVars => ScriptInv'
      BY DEF proxyPartVars, childVars, proxyVars, ldbVars, ScriptInv, OnTheWay
    <2> QED
      BY <2>1, ProxyStep, ProxyStepScripts
  <1>3. ScriptInv => ScriptsKept
    BY DEF ScriptInv, ScriptsKept, OnTheWay
  <1> QED
    BY <1>1, <1>2, <1>3, VisitsKept, PTL DEF Spec

-----------------------------------------------------------------------------
(* The log.  File and queue together are the records, in their order; the  *)
(* server ends only when the queue is empty, after it was told to.         *)

LogTypeOK ==
  /\ records \in Nat /\ told \in Nat
  /\ log_file \in Seq(Nat) /\ log_queue \in Seq(Nat)

LogInOrder ==
  /\ Len(log_file) + Len(log_queue) = records
  /\ \A n \in DOMAIN log_file : log_file[n] = n
  /\ \A n \in DOMAIN log_queue : log_queue[n] = Len(log_file) + n

LogEnds ==
  /\ told <= records
  /\ log_server # "running" => log_status = {"taken"}
  /\ log_server = "ended" => told <= Len(log_file)

LogInv == LogTypeOK /\ LogInOrder /\ LogEnds

LEMMA RecordSent ==
  ASSUME LogInv, SendRecord, UNCHANGED <<log_file, told, log_status, log_server>>
  PROVE  LogInv'
  <1>1. /\ records \in Nat /\ records + 1 \in Nat /\ log_queue \in Seq(Nat)
        /\ log_file \in Seq(Nat) /\ Len(log_file) \in Nat
    BY LenProperties DEF LogInv, LogTypeOK
  <1>2. /\ log_queue' \in Seq(Nat) /\ Len(log_queue) \in Nat
        /\ Len(log_queue') = Len(log_queue) + 1
        /\ DOMAIN log_queue = 1 .. Len(log_queue) /\ DOMAIN log_queue' = 1 .. Len(log_queue) + 1
        /\ \A n \in DOMAIN log_queue : log_queue'[n] = log_queue[n]
        /\ log_queue'[Len(log_queue) + 1] = records + 1
    BY <1>1, Appended DEF SendRecord
  <1>3. records' = records + 1
    BY DEF SendRecord
  <1>4. \A n \in DOMAIN log_queue' : log_queue'[n] = Len(log_file) + n
    <2>1. Len(log_file) + Len(log_queue) = records
      BY DEF LogInv, LogInOrder
    <2>2. \A n \in DOMAIN log_queue : log_queue'[n] = Len(log_file) + n
      BY <1>2 DEF LogInv, LogInOrder
    <2>3. log_queue'[Len(log_queue) + 1] = Len(log_file) + (Len(log_queue) + 1)
      BY <1>1, <1>2, <2>1
    <2> QED
      BY <1>2, <2>2, <2>3
  <1>5. LogInOrder'
    <2>1. log_file' = log_file /\ Len(log_file) + Len(log_queue) = records
      BY DEF LogInv, LogInOrder
    <2>2. Len(log_file') + Len(log_queue') = records'
      <3>1. /\ Len(log_file) \in Nat /\ Len(log_queue) \in Nat
            /\ Len(log_file') = Len(log_file) /\ Len(log_queue') = Len(log_queue) + 1
        BY <1>1, <1>2, <2>1
      <3> QED
        BY <3>1, <2>1, <1>3
    <2>3. \A n \in DOMAIN log_file' : log_file'[n] = n
      BY <2>1 DEF LogInv, LogInOrder
    <2>4. \A n \in DOMAIN log_queue' : log_queue'[n] = Len(log_file') + n
      BY <1>4, <2>1
    <2> QED
      BY <2>2, <2>3, <2>4 DEF LogInOrder
  <1> QED
    BY <1>1, <1>2, <1>3, <1>5 DEF LogInv, LogTypeOK, LogEnds

LEMMA RecordWritten ==
  ASSUME LogInv, log_queue # <<>>, log_queue' = Tail(log_queue),
         log_file' = Append(log_file, Head(log_queue)),
         UNCHANGED <<records, told, log_status, log_server>>
  PROVE  LogInv'
  <1>1. /\ records \in Nat /\ told \in Nat
        /\ log_queue \in Seq(Nat) /\ log_file \in Seq(Nat) /\ Len(log_file) \in Nat
    BY LenProperties DEF LogInv, LogTypeOK
  <1>2. /\ Head(log_queue) \in Nat /\ Head(log_queue) = log_queue[1] /\ 1 \in DOMAIN log_queue
        /\ log_queue' \in Seq(Nat) /\ Len(log_queue) \in Nat
        /\ DOMAIN log_queue' = 1 .. Len(log_queue) - 1 /\ Len(log_queue') = Len(log_queue) - 1
        /\ \A n \in DOMAIN log_queue' : n + 1 \in DOMAIN log_queue /\ log_queue'[n] = log_queue[n + 1]
    BY <1>1, Taken
  <1>3. Head(log_queue) = Len(log_file) + 1
    BY <1>1, <1>2 DEF LogInv, LogInOrder
  <1>4. /\ log_file' \in Seq(Nat) /\ Len(log_file') = Len(log_file) + 1
        /\ DOMAIN log_file = 1 .. Len(log_file) /\ DOMAIN log_file' = 1 .. Len(log_file) + 1
        /\ \A n \in DOMAIN log_file : log_file'[n] = log_file[n]
        /\ log_file'[Len(log_file) + 1] = Len(log_file) + 1
    BY <1>1, <1>2, <1>3, Appended
  <1>5. \A n \in DOMAIN log_file' : log_file'[n] = n
    BY <1>1, <1>4 DEF LogInv, LogInOrder
  <1>6. \A n \in DOMAIN log_queue' : log_queue'[n] = Len(log_file') + n
    BY <1>1, <1>2, <1>4 DEF LogInv, LogInOrder
  <1>7. LogInOrder'
    <2>1. Len(log_file') + Len(log_queue') = records'
      <3>1. /\ Len(log_file) \in Nat /\ Len(log_queue) \in Nat
            /\ Len(log_file') = Len(log_file) + 1 /\ Len(log_queue') = Len(log_queue) - 1
        BY <1>1, <1>2, <1>4
      <3>2. Len(log_file) + Len(log_queue) = records /\ records' = records
        BY DEF LogInv, LogInOrder
      <3> QED
        BY <3>1, <3>2
    <2> QED
      BY <1>5, <1>6, <2>1 DEF LogInOrder
  <1>8. LogEnds'
    BY <1>1, <1>4 DEF LogInv, LogEnds
  <1> QED
    BY <1>1, <1>2, <1>4, <1>7, <1>8 DEF LogInv, LogTypeOK

LEMMA LogServerStepKeeps ==
  ASSUME LogInv, LogServerNext
  PROVE  LogInv'
  <1> USE DEF LogTypeOK, LogInOrder, LogEnds
  <1>1. ASSUME UNCHANGED <<log_queue, log_file, log_status, log_server, records, told>>
        PROVE  LogInv'
    BY <1>1 DEF LogInv
  <1>2. ASSUME NEW t \in Threads, LockHandler(t)
        PROVE  LogInv'
    BY <1>1, <1>2 DEF LockHandler
  <1>3. ASSUME NEW t \in Threads, Emit(t)
        PROVE  LogInv'
    BY <1>1, <1>3, RecordSent DEF Emit
  <1>4. CASE Fork \/ SpawnTimeout
    BY <1>1, <1>4 DEF Fork, SpawnTimeout
  <1>5. CASE ChildLogs
    BY <1>5, RecordSent DEF ChildLogs
  <1>6. CASE KillLogServer
    BY <1>6 DEF KillLogServer, LogInv
  <1>7. CASE HandleRecord
    BY <1>7, RecordWritten DEF HandleRecord
  <1>8. CASE TakeDIE
    BY <1>8 DEF TakeDIE, LogInv
  <1>9. CASE DrainLog
    <2>1. CASE log_queue = <<>>
      BY <1>9, <2>1 DEF DrainLog, LogInv
    <2>2. CASE log_queue # <<>>
      BY <1>9, <2>2, RecordWritten DEF DrainLog
    <2> QED
      BY <2>1, <2>2
  <1> QED
    BY <1>2, <1>3, <1>4, <1>5, <1>6, <1>7, <1>8, <1>9 DEF LogServerNext

(* The log is the records in their order, and is complete when the server  *)
(* ends.                                                                   *)
THEOREM LogComplete == Spec => []LogsKept
  <1>1. Init => LogInv
    BY EmptySeq DEF Init, LogServerInit, LogInv, LogTypeOK, LogInOrder, LogEnds
  <1>2. LogInv /\ [Next]_vars => LogInv'
    <2>1. LogInv /\ UNCHANGED logVars => LogInv'
      BY DEF logVars, LogInv, LogTypeOK, LogInOrder, LogEnds
    <2> QED
      BY <2>1, LogServerStep, LogServerStepKeeps
  <1>3. LogInv => LogsKept
    BY DEF LogInv, LogInOrder, LogEnds, LogTypeOK, LogsKept
  <1> QED
    BY <1>1, <1>2, <1>3, PTL DEF Spec

-----------------------------------------------------------------------------
(* The crawl scripts.  A script has reached the site after the one in the  *)
(* index file, or the one its loop is at.  Every site before was handed    *)
(* over; each kill takes at most the sites in the browsers with it, and    *)
(* sends it back by at most one time over every site.                      *)

Reached ==
  IF "crawl_done" \in control \/ step \in {"done", "ended"} THEN TOTAL_NUM_SITES
  ELSE IF step \in {"open", "write"} THEN i + 1
  ELSE IF step \in {"launch", "loop", "close", "remove"} THEN i
  ELSE IF index_file \in {None, <<>>} THEN 0 ELSE index_file[1] + 1

Lost == {s \in Sites : handed[s] > 0} \ (executed \cup refused \cup visiting)

ScriptTypeOK ==
  /\ step \in {"off", "serve", "load", "launch", "loop", "open", "write", "close", "remove", "done",
               "ended"}
  /\ i \in Nat /\ end_index \in Nat
  /\ crashes \in Nat /\ interrupted \in Nat /\ spawn_failures \in Nat
  /\ handed \in [Sites -> Nat]
  /\ executed \subseteq Sites /\ refused \subseteq Sites /\ visiting \subseteq Sites
  /\ leftovers \in BOOLEAN
  /\ index_file \in {None, <<>>} \cup {<<k>> : k \in Nat}

AtSite ==
  /\ step \in {"launch", "loop", "open", "close", "remove"} /\ InBatches =>
       index_file = IF i = 0 THEN None ELSE <<i - 1>>
  /\ step = "write" => index_file = <<>>
  /\ step = "done" => index_file = None
  /\ step = "remove" => i >= TOTAL_NUM_SITES
  /\ step \in {"open", "write"} => i < TOTAL_NUM_SITES
  /\ ~InBatches => /\ step \notin {"open", "write", "remove", "done"}
                   /\ index_file = None /\ "crawl_done" \notin control
  /\ InBatches => step # "ended"

AtRest ==
  /\ step \in {"off", "serve", "load", "launch", "remove", "done"} => visiting = {}
  /\ "crawl_done" \in control => step = "off"
  /\ "crawl_done" \in control \/ step \in {"remove", "done"} => leftovers = FALSE

HandedOver ==
  \A s \in Sites : /\ handed[s] <= crashes + 1
                   /\ s < Reached \/ handed[s] <= crashes
                   /\ InBatches /\ s < Reached => handed[s] > 0

FewLost ==
  /\ Cardinality(visiting) <= NUM_BROWSERS
  /\ InBatches => Cardinality(Lost) <= NUM_BROWSERS * interrupted

(* A closed TaskManager may still refuse the rest of its batch.            *)
Refusable == (NUM_BATCH + 1) * spawn_failures

ToRefuse ==
  IF step = "loop" /\ closed THEN end_index - i
  ELSE IF step \in {"open", "write"} /\ closed THEN end_index - (i + 1)
  ELSE 0

FewRefused ==
  InBatches =>
    /\ Cardinality(refused) + ToRefuse <= Refusable
    /\ step = "launch" => end_index <= i + (NUM_BATCH + 1)
    /\ step \in {"launch", "loop"} => i <= end_index
    /\ step \in {"open", "write"} => i < end_index

CrawlInv == ScriptTypeOK /\ AtSite /\ AtRest /\ HandedOver /\ FewLost /\ FewRefused

LEMMA SitesFinite ==
  ASSUME NEW S \in SUBSET Sites
  PROVE  IsFiniteSet(S) /\ Cardinality(S) \in Nat
  <1>1. TOTAL_NUM_SITES - 1 \in Int
    BY CrawlScriptAssumption
  <1>2. IsFiniteSet(Sites)
    BY <1>1, FS_Interval DEF Sites
  <1> QED
    BY <1>2, FS_Subset, FS_CardinalityType

(* The actions that hand nothing over and are no kill: they have to stay   *)
(* at the site, and to rest when the crawl is done.                        *)
Housekeeping ==
  \/ Start \/ StartServer \/ GrabMailUrlsRaises \/ ManageControlFiles \/ LoadSites
  \/ LaunchBrowsers \/ BrowserSpawnFails \/ LaunchRaises
  \/ OpenIndex \/ WriteIndex \/ ExecuteRaises \/ ScriptRaises \/ LoopDone \/ CloseManager
  \/ RemoveIndex \/ CrawlDone

Stays ==
  /\ ScriptTypeOK' /\ AtSite' /\ AtRest'
  /\ \A s \in Sites : /\ s < Reached => s < Reached'
                      /\ InBatches /\ s < Reached' => s < Reached

(* The index file holds the last site, while it is not being written.      *)
LEMMA Indexed ==
  ASSUME ScriptTypeOK, index_file = IF i = 0 THEN None ELSE <<i - 1>>
  PROVE  (IF index_file \in {None, <<>>} THEN 0 ELSE index_file[1] + 1) = i
  <1>1. CASE i = 0
    BY <1>1
  <1>2. CASE i # 0
    <2>1. i - 1 \in Nat /\ index_file = <<i - 1>>
      BY <1>2 DEF ScriptTypeOK
    <2>2. <<i - 1>> \in Seq(Nat)
      BY <2>1, Singleton
    <2>3. None \notin Seq(Nat)
      BY NoneAssumption
    <2>4. <<i - 1>> # <<>> /\ <<i - 1>>[1] = i - 1 /\ i - 1 + 1 = i
      BY <2>1 DEF ScriptTypeOK
    <2> QED
      BY <2>1, <2>2, <2>3, <2>4
  <1> QED
    BY <1>1, <1>2

LEMMA CutOffTakes ==
  ASSUME ScriptTypeOK, CutOff
  PROVE  /\ visiting' = {} /\ interrupted' \in Nat
         /\ UNCHANGED <<closed, handed, executed, refused>>
  <1>1. interrupted \in Nat
    BY DEF ScriptTypeOK
  <1>2. visiting' = {} /\ UNCHANGED <<closed, handed, executed, refused>>
        /\ interrupted' \in {interrupted, interrupted + 1}
    BY DEF CutOff
  <1> QED
    BY <1>1, <1>2

LEMMA HousekeepingStays ==
  ASSUME CrawlInv, Housekeeping
  PROVE  Stays
  <1> USE CrawlScriptAssumption, NoneAssumption
      DEF CrawlInv, files, loop, machine, progress, bounds, InBatches, ServesMail, Dead,
          ScriptTypeOK, AtSite, AtRest, Stays, Reached, Sites
  <1>1. CASE Start
    BY <1>1 DEF Start
  <1>2. CASE StartServer
    BY <1>2 DEF StartServer
  <1>3. CASE GrabMailUrlsRaises
    BY <1>3 DEF GrabMailUrlsRaises
  <1>4. CASE ManageControlFiles
    <2>1. CASE index_file = <<>>
      BY <1>4, <2>1 DEF ManageControlFiles
    <2>2. CASE index_file = None
      BY <1>4, <2>2 DEF ManageControlFiles, FirstSite
    <2>3. ASSUME NEW k \in Nat, index_file = <<k>>
          PROVE  Stays
      <3>1. <<k>> \in Seq(Nat) /\ None \notin Seq(Nat)
        BY <2>3, Singleton
      <3>2. index_file # None /\ index_file # <<>> /\ index_file[1] = k
        BY <2>3, <3>1
      <3>3. /\ step = "load" /\ step' = "launch" /\ InBatches
            /\ i' = k + 1 /\ end_index' = i' + NUM_BATCH
            /\ UNCHANGED <<script, index_file, leftovers, progress, bounds>>
            /\ "crawl_done" \notin control' /\ "crawl_done" \notin control
        BY <1>4, <3>2 DEF ManageControlFiles, FirstSite
      <3>4. i' - 1 = k /\ i' # 0
        BY <2>3, <3>3
      <3>5. Reached = k + 1 /\ Reached' = k + 1
        BY <3>2, <3>3
      <3> QED
        BY <2>3, <3>3, <3>4, <3>5
    <2> QED
      BY <2>1, <2>2, <2>3
  <1>5. CASE LoadSites
    BY <1>5 DEF LoadSites
  <1>6. CASE OpenIndex
    BY <1>6 DEF OpenIndex
  <1>7. CASE WriteIndex
    BY <1>7 DEF WriteIndex
  <1>8. CASE ExecuteRaises
    BY <1>8 DEF ExecuteRaises
  <1>9. CASE LoopDone
    BY <1>9 DEF LoopDone, More
  <1>13. CASE LaunchBrowsers
    BY <1>13 DEF LaunchBrowsers
  <1>14. CASE BrowserSpawnFails
    BY <1>14 DEF BrowserSpawnFails
  <1>15. CASE LaunchRaises \/ ScriptRaises
    <2>1. /\ step \in {"launch", "loop"} /\ step' = Dead /\ visiting' = {}
          /\ leftovers' \in BOOLEAN
          /\ interrupted' \in Nat /\ spawn_failures' \in Nat
          /\ UNCHANGED <<script, index_file, control, i, end_index, handed, executed, refused,
                         crashes>>
      BY <1>15, CutOffTakes DEF LaunchRaises, ScriptRaises
    <2>2. "crawl_done" \notin control
      BY <2>1
    <2>3. ScriptTypeOK' /\ AtSite' /\ AtRest'
      BY <2>1, <2>2
    <2>4. CASE InBatches
      <3>1. Reached = i /\ Reached' = i
        BY <2>1, <2>2, <2>4, Indexed
      <3> QED
        BY <2>3, <3>1
    <2>5. CASE ~InBatches
      <3>1. step' = "ended" /\ ~InBatches'
        BY <2>1, <2>5
      <3> QED
        BY <2>1, <2>2, <2>3, <3>1
    <2> QED
      BY <2>4, <2>5
  <1>10. CASE CloseManager
    <2>1. CASE ~InBatches
      <3>1. /\ step = "close" /\ step' = "ended" /\ ~InBatches'
            /\ visiting' = {} /\ interrupted' \in Nat
            /\ UNCHANGED <<script, index_file, control, i, end_index, leftovers, handed, executed,
                           refused, spawn_failures, crashes>>
        BY <1>10, <2>1, CutOffTakes DEF CloseManager
      <3> QED
        BY <2>1, <3>1
    <2>2. CASE InBatches /\ Finished
      <3>1. /\ step = "close" /\ step' = "remove" /\ i >= TOTAL_NUM_SITES
            /\ leftovers' = FALSE /\ visiting' = {} /\ interrupted' \in Nat
            /\ UNCHANGED <<script, index_file, control, i, end_index, handed, executed, refused,
                           spawn_failures, crashes>>
        BY <1>10, <2>2, CutOffTakes DEF CloseManager, Finished, clear_tmp_folder
      <3> QED
        BY <2>2, <3>1
    <2>3. CASE InBatches /\ ~Finished
      <3>1. step = "close" /\ step' = "off" /\ visiting' = {} /\ leftovers' = FALSE
        BY <1>10, <2>3, CutOffTakes DEF CloseManager, clear_tmp_folder
      <3>2. ScriptTypeOK' /\ AtSite' /\ AtRest'
        BY <1>10, <2>3, <3>1, CutOffTakes DEF CloseManager
      <3>3. Reached = i /\ Reached' = i
        <4>1. index_file' = index_file /\ i' = i /\ "crawl_done" \notin control'
          BY <1>10, <3>1 DEF CloseManager
        <4> QED
          BY <2>3, <3>1, <4>1, Indexed
      <3> QED
        BY <3>2, <3>3
    <2> QED
      BY <2>1, <2>2, <2>3
  <1>11. CASE RemoveIndex
    <2>1. step = "remove" /\ InBatches /\ i >= TOTAL_NUM_SITES /\ "crawl_done" \notin control
      BY <1>11 DEF RemoveIndex
    <2>2. CASE index_file = None
      <3>1. i = 0
        BY <2>1, <2>2, Indexed
      <3>2. Sites = {}
        BY <2>1, <3>1
      <3> QED
        BY <1>11, <2>1, <2>2, <3>2 DEF RemoveIndex
    <2>3. CASE index_file # None
      BY <1>11, <2>1, <2>3 DEF RemoveIndex
    <2> QED
      BY <2>2, <2>3
  <1>12. CASE CrawlDone
    BY <1>12 DEF CrawlDone
  <1> QED
    BY <1>1, <1>2, <1>3, <1>4, <1>5, <1>6, <1>7, <1>8, <1>9, <1>10, <1>11, <1>12, <1>13, <1>14,
       <1>15 DEF Housekeeping

(* An interruption takes the sites in the browsers with it.                *)
LEMMA CutOffLoses ==
  ASSUME CrawlInv, CutOff, UNCHANGED script
  PROVE  FewLost'
  <1> USE CrawlScriptAssumption
  <1>1. /\ UNCHANGED <<handed, executed, refused>> /\ visiting' = {}
        /\ interrupted' = IF visiting = {} THEN interrupted ELSE interrupted + 1
    BY DEF CutOff
  <1>2. InBatches' = InBatches
    BY DEF InBatches
  <1>3. CASE visiting = {}
    BY <1>1, <1>2, <1>3 DEF CrawlInv, FewLost, Lost
  <1>4. CASE visiting # {}
    <2>1. SUFFICES ASSUME InBatches
                   PROVE  Cardinality(Lost') <= NUM_BROWSERS * (interrupted + 1)
      BY <1>1, <1>2, <1>4, FS_EmptySet DEF FewLost
    <2>2. Lost' \in SUBSET (Lost \cup visiting)
      BY <1>1 DEF Lost
    <2>3. /\ IsFiniteSet(Lost) /\ Cardinality(Lost) \in Nat
          /\ IsFiniteSet(visiting) /\ Cardinality(visiting) \in Nat
      BY SitesFinite DEF Lost, CrawlInv, ScriptTypeOK
    <2>4. /\ IsFiniteSet(Lost \cup visiting) /\ Cardinality(Lost \cup visiting) \in Nat
          /\ Cardinality(Lost \cup visiting) <= Cardinality(Lost) + Cardinality(visiting)
      <3>1. Lost \cap visiting \in SUBSET Sites
        BY DEF Lost
      <3>2. Cardinality(Lost \cap visiting) \in Nat
        BY <3>1, SitesFinite
      <3>3. /\ IsFiniteSet(Lost \cup visiting)
            /\ Cardinality(Lost \cup visiting)
                 = Cardinality(Lost) + Cardinality(visiting) - Cardinality(Lost \cap visiting)
        BY <2>3, FS_Union
      <3>4. Cardinality(Lost \cup visiting) \in Nat
        BY <3>3, FS_CardinalityType
      <3> QED
        BY <2>3, <3>2, <3>3, <3>4
    <2>5. Cardinality(Lost') \in Nat /\ Cardinality(Lost') <= Cardinality(Lost \cup visiting)
      BY <2>2, <2>4, FS_Subset, FS_CardinalityType
    <2> DEFINE bound == NUM_BROWSERS * interrupted
    <2>6. /\ Cardinality(Lost) <= bound /\ bound \in Nat
          /\ NUM_BROWSERS * (interrupted + 1) = bound + NUM_BROWSERS
      BY <2>1 DEF CrawlInv, FewLost, ScriptTypeOK
    <2>7. Cardinality(visiting) <= NUM_BROWSERS
      BY DEF CrawlInv, FewLost
    <2> HIDE DEF bound
    <2> QED
      BY <2>3, <2>4, <2>5, <2>6, <2>7
  <1> QED
    BY <1>3, <1>4

LEMMA HousekeepingKeeps ==
  ASSUME CrawlInv, Housekeeping
  PROVE  Stays /\ HandedOver' /\ FewLost'
  <1>1. Stays
    BY HousekeepingStays
  <1>2. /\ UNCHANGED <<script, handed, crashes>>
        /\ CutOff \/ UNCHANGED <<visiting, executed, refused, interrupted>>
    BY DEF Housekeeping, CutOff, progress, bounds, Start, StartServer, GrabMailUrlsRaises,
           ManageControlFiles, LoadSites, LaunchBrowsers, BrowserSpawnFails, LaunchRaises,
           OpenIndex, WriteIndex, ExecuteRaises, ScriptRaises, LoopDone, CloseManager, RemoveIndex,
           CrawlDone
  <1>3. HandedOver'
    <2>1. InBatches' = InBatches
      BY <1>2 DEF InBatches
    <2> SUFFICES ASSUME NEW s \in Sites
                 PROVE  /\ handed[s] <= crashes + 1
                        /\ s < Reached' \/ handed[s] <= crashes
                        /\ InBatches /\ s < Reached' => handed[s] > 0
      BY <1>2, <2>1 DEF HandedOver
    <2> QED
      BY <1>1 DEF CrawlInv, HandedOver, Stays
  <1>4. FewLost'
    BY <1>2, CutOffLoses DEF CrawlInv, FewLost, Lost, InBatches
  <1> QED
    BY <1>1, <1>3, <1>4

LEMMA ExecuteSequenceKeeps ==
  ASSUME CrawlInv, ExecuteSequence
  PROVE  ScriptTypeOK' /\ AtSite' /\ AtRest' /\ HandedOver' /\ FewLost'
  <1> USE CrawlScriptAssumption
  <1>1. /\ step = "loop" /\ i \in Nat /\ i < TOTAL_NUM_SITES /\ i \in Sites
        /\ "crawl_done" \notin control /\ Reached = i
    BY DEF CrawlInv, ScriptTypeOK, AtRest, ExecuteSequence, More, Reached, Sites
  <1>2. /\ UNCHANGED <<script, index_file, control, http_server, leftovers, spawn_failures, crashes,
                       errors>>
        /\ end_index' = end_index
        /\ IF InBatches THEN step' = "open" /\ i' = i /\ HandOver
           ELSE step' = "loop" /\ i' = i + 1 /\ (HandOver \/ UNCHANGED progress)
    BY <1>1 DEF ExecuteSequence, BatchLoop, SignupLoop, DemoLoop, SynchronizedDemoLoop,
                MailinglistLoop, crawl_site, NextSite, files, loop, machine, bounds, InBatches
  <1>3. Reached' = i + 1
    BY <1>1, <1>2 DEF Reached
  <1>a. /\ handed' \in [Sites -> Nat] /\ UNCHANGED <<executed, interrupted>>
        /\ visiting' \subseteq Sites /\ refused' \subseteq Sites
        /\ \A s \in Sites : s # i => handed'[s] = handed[s]
        /\ handed'[i] = handed[i] \/ handed'[i] = handed[i] + 1
        /\ InBatches => handed'[i] = handed[i] + 1
    <2>1. handed \in [Sites -> Nat] /\ visiting \subseteq Sites /\ refused \subseteq Sites
      BY DEF CrawlInv, ScriptTypeOK
    <2>2. CASE HandOver
      <3>1. visiting' \subseteq Sites /\ refused' \subseteq Sites
            /\ UNCHANGED <<executed, interrupted>>
            /\ handed' = [handed EXCEPT ![i] = @ + 1]
        BY <1>1, <2>1, <2>2 DEF HandOver
      <3>2. handed[i] \in Nat
        BY <1>1, <2>1
      <3> QED
        BY <1>1, <2>1, <3>1, <3>2
    <2>3. CASE UNCHANGED progress
      BY <1>1, <1>2, <2>1, <2>3 DEF progress, HandOver
    <2> QED
      BY <1>2, <2>2, <2>3
  <1>4. ScriptTypeOK'
    BY <1>1, <1>2, <1>a DEF CrawlInv, ScriptTypeOK
  <1>5. AtSite' /\ AtRest'
    BY <1>1, <1>2 DEF CrawlInv, AtSite, AtRest, InBatches
  <1>6. HandedOver'
    <2> SUFFICES ASSUME NEW s \in Sites
                 PROVE  /\ handed'[s] <= crashes + 1
                        /\ s < i + 1 \/ handed'[s] <= crashes
                        /\ InBatches /\ s < i + 1 => handed'[s] > 0
      BY <1>2, <1>3 DEF HandedOver, InBatches
    <2>1. s \in Nat /\ handed[s] \in Nat /\ crashes \in Nat
      BY DEF CrawlInv, ScriptTypeOK, Sites
    <2>2. CASE s = i
      <3>1. handed[i] <= crashes
        BY <1>1, <2>1, <2>2 DEF CrawlInv, HandedOver
      <3> QED
        BY <1>1, <1>a, <2>1, <2>2, <3>1
    <2>3. CASE s # i
      BY <1>1, <1>a, <2>1, <2>3 DEF CrawlInv, HandedOver
    <2> QED
      BY <2>2, <2>3
  <1>7. Cardinality(visiting') <= NUM_BROWSERS
    <2>1. CASE UNCHANGED progress
      BY <2>1 DEF CrawlInv, FewLost, progress
    <2>2. CASE HandOver
      <3>1. IsFiniteSet(visiting) /\ Cardinality(visiting) \in Nat
        BY SitesFinite DEF CrawlInv, ScriptTypeOK
      <3> QED
        BY <2>2, <3>1, FS_AddElement DEF HandOver
    <2> QED
      BY <1>2, <2>1, <2>2
  <1>8. InBatches' => Cardinality(Lost') <= NUM_BROWSERS * interrupted'
    <2>1. SUFFICES ASSUME InBatches
                   PROVE  Cardinality(Lost') <= NUM_BROWSERS * interrupted
      BY <1>2, <1>a DEF InBatches
    <2>2. Lost' \in SUBSET Lost
      BY <1>1, <1>2, <2>1 DEF Lost, HandOver, CrawlInv, ScriptTypeOK
    <2>3. IsFiniteSet(Lost) /\ Cardinality(Lost) \in Nat
      BY SitesFinite DEF Lost
    <2>4. Cardinality(Lost') \in Nat /\ Cardinality(Lost') <= Cardinality(Lost)
      BY <2>2, <2>3, FS_Subset, FS_CardinalityType
    <2>5. NUM_BROWSERS * interrupted \in Nat
      BY DEF CrawlInv, ScriptTypeOK
    <2>6. Cardinality(Lost) <= NUM_BROWSERS * interrupted
      BY <2>1 DEF CrawlInv, FewLost
    <2> DEFINE bound == NUM_BROWSERS * interrupted
    <2> HIDE DEF bound
    <2>7. bound \in Nat /\ Cardinality(Lost) <= bound
      BY <2>5, <2>6 DEF bound
    <2>8. Cardinality(Lost') <= bound
      BY <2>3, <2>4, <2>7
    <2> QED
      BY <2>8 DEF bound
  <1> QED
    BY <1>4, <1>5, <1>6, <1>7, <1>8 DEF FewLost

LEMMA SequenceEndsKeeps ==
  ASSUME CrawlInv, NEW s \in Sites, SequenceEnds(s)
  PROVE  ScriptTypeOK' /\ AtSite' /\ AtRest' /\ HandedOver' /\ FewLost'
  <1>1. /\ UNCHANGED <<script, step, index_file, control, i, end_index, http_server, leftovers,
                       handed, refused, interrupted, spawn_failures, crashes, errors>>
        /\ s \in visiting /\ visiting' = visiting \ {s} /\ executed' = executed \cup {s}
    BY DEF SequenceEnds, files, loop, machine, bounds
  <1>2. Reached' = Reached /\ InBatches' = InBatches /\ Lost' = Lost
    BY <1>1 DEF Reached, InBatches, Lost
  <1>3. IsFiniteSet(visiting) /\ Cardinality(visiting) \in Nat
    BY SitesFinite DEF CrawlInv, ScriptTypeOK
  <1>4. Cardinality(visiting') <= NUM_BROWSERS
    <2>1. Cardinality(visiting') \in Nat /\ Cardinality(visiting') <= Cardinality(visiting)
      BY <1>1, <1>3, FS_Subset, FS_CardinalityType
    <2> QED
      BY <1>3, <2>1, CrawlScriptAssumption DEF CrawlInv, FewLost
  <1>5. ScriptTypeOK' /\ AtSite' /\ AtRest'
    BY <1>1, <1>2 DEF CrawlInv, ScriptTypeOK, AtSite, AtRest
  <1>6. HandedOver' /\ FewLost'
    BY <1>1, <1>2, <1>4 DEF CrawlInv, HandedOver, FewLost
  <1> QED
    BY <1>5, <1>6

LEMMA KilledKeeps ==
  ASSUME CrawlInv, Killed
  PROVE  ScriptTypeOK' /\ AtSite' /\ AtRest' /\ HandedOver' /\ FewLost'
  <1> USE CrawlScriptAssumption
  <1>1. /\ UNCHANGED <<script, index_file, control, i, end_index, handed, executed, refused,
                       spawn_failures>>
        /\ crashes' = crashes + 1 /\ step' = "off" /\ visiting' = {} /\ step # "ended"
        /\ "crawl_done" \in control => leftovers' = FALSE
        /\ leftovers' \in BOOLEAN /\ interrupted' \in Nat
    <2>1. /\ visiting' = {} /\ interrupted' \in Nat
          /\ UNCHANGED <<closed, handed, executed, refused>>
      BY CutOffTakes DEF Killed, CrawlInv
    <2>2. leftovers \in BOOLEAN /\ ("crawl_done" \in control => step = "off" /\ leftovers = FALSE)
      BY DEF CrawlInv, AtRest, ScriptTypeOK
    <2> QED
      BY <2>1, <2>2 DEF Killed, files, loop, machine
  <1>2. ScriptTypeOK' /\ AtSite' /\ AtRest'
    BY <1>1 DEF CrawlInv, ScriptTypeOK, AtSite, AtRest, InBatches
  <1>3. ASSUME InBatches, NEW s \in Sites, s < Reached'
        PROVE  s < Reached
    <2>1. CASE "crawl_done" \in control
      BY <1>1, <1>3, <2>1 DEF Reached
    <2>2. CASE "crawl_done" \notin control /\ step \in {"off", "serve", "load"}
      BY <1>1, <1>3, <2>2 DEF Reached
    <2>3. CASE "crawl_done" \notin control /\ step \in {"launch", "loop", "open", "close", "remove"}
      <3>1. Reached' = i
        BY <1>1, <1>3, <2>3, Indexed DEF CrawlInv, AtSite, Reached
      <3>2. Reached \in {i, i + 1} /\ i \in Nat
        BY <2>3 DEF Reached, CrawlInv, ScriptTypeOK
      <3> QED
        BY <1>3, <3>1, <3>2 DEF Sites
    <2>4. CASE "crawl_done" \notin control /\ step \in {"write", "done"}
      <3>1. Reached' = 0
        BY <1>1, <2>4 DEF CrawlInv, AtSite, Reached
      <3> QED
        BY <1>3, <3>1 DEF Sites
    <2> QED
      BY <1>1, <2>1, <2>2, <2>3, <2>4 DEF CrawlInv, ScriptTypeOK
  <1>4. HandedOver'
    <2>1. \A s \in Sites : handed[s] \in Nat /\ handed[s] <= crashes + 1 /\ crashes \in Nat
      BY DEF CrawlInv, ScriptTypeOK, HandedOver
    <2>2. InBatches' = InBatches
      BY <1>1 DEF InBatches
    <2> QED
      BY <1>1, <1>3, <2>1, <2>2 DEF CrawlInv, HandedOver
  <1>5. FewLost'
    BY <1>1, CutOffLoses DEF Killed
  <1> QED
    BY <1>2, <1>4, <1>5

(* What a closed TaskManager refuses: one batch, from its first site.      *)
LEMMA FewRefusedKept ==
  ASSUME CrawlInv, CrawlScriptNext
  PROVE  FewRefused'
  <1> USE CrawlScriptAssumption
  <1>1. SUFFICES ASSUME InBatches
                 PROVE  FewRefused'
    <2>1. script' = script
      BY DEF CrawlScriptNext, Start, StartServer, GrabMailUrlsRaises, ManageControlFiles,
             LoadSites, LaunchBrowsers, BrowserSpawnFails, LaunchRaises, ExecuteSequence,
             OpenIndex, WriteIndex, ExecuteRaises, ScriptRaises, LoopDone, CloseManager,
             RemoveIndex, CrawlDone, Killed, SequenceEnds
    <2> QED
      BY <2>1 DEF FewRefused, InBatches
  <1>2. /\ Cardinality(refused) \in Nat /\ Refusable \in Nat
        /\ i \in Nat /\ end_index \in Nat
        /\ Cardinality(refused) + ToRefuse <= Refusable
        /\ step = "launch" => end_index <= i + (NUM_BATCH + 1)
        /\ step \in {"launch", "loop"} => i <= end_index
        /\ step \in {"open", "write"} => i < end_index
    BY <1>1, SitesFinite DEF CrawlInv, ScriptTypeOK, FewRefused, Refusable
  <1>3. Cardinality(refused) <= Refusable
    BY <1>2 DEF ToRefuse
  <1>4. ASSUME UNCHANGED <<refused, spawn_failures>>,
               step' \notin {"launch", "loop", "open", "write"}
        PROVE  FewRefused'
    BY <1>2, <1>3, <1>4 DEF FewRefused, ToRefuse, Refusable
  <1>5. CASE Start \/ StartServer \/ GrabMailUrlsRaises \/ LaunchRaises \/ ExecuteRaises
             \/ ScriptRaises \/ LoopDone \/ CloseManager \/ RemoveIndex \/ CrawlDone \/ Killed
    BY <1>1, <1>4, <1>5
    DEF Start, StartServer, GrabMailUrlsRaises, LaunchRaises, ExecuteRaises, ScriptRaises, LoopDone,
        CloseManager, RemoveIndex, CrawlDone, Killed, CutOff, Dead, progress, bounds
  <1>6. CASE ManageControlFiles
    <2>1. UNCHANGED <<refused, spawn_failures>>
      BY <1>6 DEF ManageControlFiles, progress, bounds
    <2>2. CASE index_file = <<>>
      BY <1>4, <1>6, <2>1, <2>2 DEF ManageControlFiles
    <2>3. CASE index_file # <<>>
      <3>1. /\ step' = "launch"
            /\ i' \in Nat /\ i' <= end_index' /\ end_index' <= i' + (NUM_BATCH + 1)
        BY <1>6, <2>3, NoneAssumption DEF ManageControlFiles, FirstSite, CrawlInv, ScriptTypeOK
      <3> QED
        BY <1>2, <1>3, <2>1, <3>1 DEF FewRefused, ToRefuse, Refusable
    <2> QED
      BY <2>2, <2>3
  <1>7. CASE LaunchBrowsers
    BY <1>2, <1>3, <1>7 DEF LaunchBrowsers, loop, bounds, FewRefused, ToRefuse, Refusable
  <1>8. CASE BrowserSpawnFails
    <2>1. /\ UNCHANGED <<refused, i, end_index>> /\ step = "launch" /\ step' = "loop"
          /\ spawn_failures' = spawn_failures + 1
      BY <1>8 DEF BrowserSpawnFails, loop
    <2>2. ToRefuse' <= NUM_BATCH + 1 /\ ToRefuse' \in Int
      BY <1>2, <2>1 DEF ToRefuse
    <2>3. Refusable' = Refusable + (NUM_BATCH + 1)
      BY <2>1 DEF Refusable, CrawlInv, ScriptTypeOK
    <2>4. Cardinality(refused) + ToRefuse' <= Refusable'
      BY <1>2, <1>3, <2>2, <2>3
    <2> QED
      BY <1>2, <2>1, <2>4 DEF FewRefused
  <1>9. CASE ExecuteSequence
    <2>1. /\ step = "loop" /\ step' = "open" /\ i < end_index
          /\ UNCHANGED <<i, end_index, spawn_failures, closed>>
          /\ refused' = IF closed THEN refused \cup {i} ELSE refused
      BY <1>1, <1>9 DEF ExecuteSequence, More, BatchLoop, SignupLoop, DemoLoop,
                        SynchronizedDemoLoop, MailinglistLoop, HandOver, InBatches, loop, bounds
    <2>2. IsFiniteSet(refused)
      BY SitesFinite DEF CrawlInv, ScriptTypeOK
    <2>3. Cardinality(refused') \in Nat /\ Cardinality(refused \cup {i}) <= Cardinality(refused) + 1
      BY <1>2, <2>1, <2>2, FS_AddElement
    <2>4. Cardinality(refused') + ToRefuse' <= Refusable'
      BY <1>2, <2>1, <2>3 DEF ToRefuse, Refusable
    <2> QED
      BY <2>1, <2>4 DEF FewRefused
  <1>10. CASE OpenIndex
    BY <1>2, <1>10 DEF OpenIndex, loop, progress, bounds, FewRefused, ToRefuse, Refusable
  <1>11. CASE WriteIndex
    BY <1>2, <1>11 DEF WriteIndex, progress, bounds, FewRefused, ToRefuse, Refusable
  <1>12. CASE \E s \in Sites : SequenceEnds(s)
    BY <1>2, <1>12 DEF SequenceEnds, loop, bounds, FewRefused, ToRefuse, Refusable
  <1>13. CASE LoadSites
    BY <1>1, <1>13 DEF LoadSites
  <1> QED
    BY <1>5, <1>6, <1>7, <1>8, <1>9, <1>10, <1>11, <1>12, <1>13 DEF CrawlScriptNext

LEMMA CrawlScriptStepKeeps ==
  ASSUME CrawlInv, CrawlScriptNext
  PROVE  CrawlInv'
  <1>1. ScriptTypeOK' /\ AtSite' /\ AtRest' /\ HandedOver' /\ FewLost'
    BY HousekeepingKeeps, ExecuteSequenceKeeps, SequenceEndsKeeps, KilledKeeps
    DEF CrawlScriptNext, Housekeeping, Stays
  <1> QED
    BY <1>1, FewRefusedKept DEF CrawlInv

(* A crawl that is done handed every site over.  It lost at most the sites *)
(* that were in a browser at an interruption, and the batches of the       *)
(* TaskManagers that had closed themselves; in any script a site is handed *)
(* over again only after a kill.                                           *)
THEOREM CrawlComplete == Spec => []SitesExecuted
  <1> USE CrawlScriptAssumption
  <1>1. Init => CrawlInv
    <2> SUFFICES ASSUME Init PROVE CrawlInv
      OBVIOUS
    <2>1. /\ step = "off" /\ index_file = None /\ control = {} /\ i = 0 /\ end_index = 0
          /\ leftovers = FALSE /\ visiting = {} /\ handed = [s \in Sites |-> 0] /\ executed = {}
          /\ refused = {} /\ interrupted = 0 /\ spawn_failures = 0 /\ crashes = 0
      BY DEF Init, CrawlScriptInit
    <2>2. ScriptTypeOK /\ AtSite /\ AtRest
      BY <2>1 DEF ScriptTypeOK, AtSite, AtRest
    <2>3. HandedOver
      BY <2>1 DEF HandedOver, Reached, Sites
    <2>4. FewLost
      <3>1. Lost = {}
        BY <2>1 DEF Lost
      <3> QED
        BY <2>1, <3>1, FS_EmptySet DEF FewLost
    <2>5. FewRefused
      BY <2>1, FS_EmptySet DEF FewRefused, ToRefuse, Refusable
    <2> QED
      BY <2>2, <2>3, <2>4, <2>5 DEF CrawlInv
  <1>2. CrawlInv /\ [Next]_vars => CrawlInv'
    <2>1. CrawlInv /\ UNCHANGED scriptVars => CrawlInv'
      BY DEF scriptVars, files, loop, machine, progress, bounds, CrawlInv, ScriptTypeOK, AtSite,
             AtRest, HandedOver, FewLost, Lost, Reached, FewRefused, ToRefuse, Refusable, InBatches
    <2> QED
      BY <2>1, CrawlScriptStep, CrawlScriptStepKeeps
  <1>3. CrawlInv => SitesExecuted
    <2> SUFFICES ASSUME CrawlInv PROVE SitesExecuted
      OBVIOUS
    <2>1. \A s \in Sites : handed[s] \in Nat /\ handed[s] <= 1 + crashes
      BY DEF CrawlInv, ScriptTypeOK, HandedOver
    <2>2. ASSUME "crawl_done" \in control
          PROVE  /\ \A s \in Sites : handed[s] > 0
                 /\ Cardinality(Sites \ (executed \cup refused)) <= NUM_BROWSERS * interrupted
                 /\ Cardinality(refused) <= (NUM_BATCH + 1) * spawn_failures
                 /\ leftovers = FALSE
      <3>1. InBatches /\ visiting = {} /\ leftovers = FALSE /\ Reached = TOTAL_NUM_SITES
        BY <2>2 DEF CrawlInv, AtSite, AtRest, Reached
      <3>2. \A s \in Sites : handed[s] > 0
        BY <3>1 DEF CrawlInv, HandedOver, Sites
      <3>3. Sites \ (executed \cup refused) = Lost
        BY <3>1, <3>2 DEF Lost
      <3>4. step = "off"
        BY <2>2 DEF CrawlInv, AtRest
      <3>5. Cardinality(refused) + 0 <= Refusable /\ Cardinality(refused) \in Nat
        BY <3>1, <3>4, SitesFinite DEF CrawlInv, FewRefused, ToRefuse, ScriptTypeOK
      <3> QED
        BY <3>1, <3>2, <3>3, <3>5 DEF CrawlInv, FewLost, Refusable
    <2> QED
      BY <2>1, <2>2 DEF SitesExecuted
  <1> QED
    BY <1>1, <1>2, <1>3, PTL DEF Spec

-----------------------------------------------------------------------------
(* The profiles.  While a dump for the next browser is made, Firefox does  *)
(* not run, and what is copied is what the profile has; from then on the   *)
(* archive that the next browser loads is whole and has it, however often  *)
(* the start fails.  Of the archives of commands, what was copied while    *)
(* Firefox was still is noted, and is there until the next dump of that    *)
(* name begins.                                                            *)

Profile  == [store : Nat, wal : Nat, js : BOOLEAN]
MaybeArchived == Archived \cup {None}
Settings == Resolution \cup {Default, None}
Kept     == [gz : MaybeArchived, tar : MaybeArchived, settings : Settings, flash : Nat]
Dumped   == [dir : Directory \cup {None}, gz : BOOLEAN, flash : BOOLEAN, files : Archived,
             still : BOOLEAN]
MaybeCopy == Nat \cup {None}
Copies    == [gz : MaybeCopy, tar : MaybeCopy, settings : Settings]

ProfileTypeOK ==
  /\ at \in {"load", "settings", "configure", "start", "running", "checkpoint", "store", "wal",
             "close", "failed", "raised"}
  /\ params \in BrowserParams
  /\ tar \in Directory \cup {None} /\ recovery \in BOOLEAN
  /\ profile \in Profile /\ settings \in Settings
  /\ flash \in Nat /\ firefox \in BOOLEAN /\ writes \in Nat
  /\ dump \in Dumped /\ saved \in [Directory -> Kept] /\ dumped \in Copies

Dumping == at \in {"checkpoint", "store", "wal", "close"}

DumpGoing ==
  /\ Dumping <=> dump.dir # None
  /\ at \in {"configure", "start", "running", "failed"} \/ Dumping => settings # None
  /\ dump.dir \in {"crash", "archive"} =>
       /\ at # "checkpoint" /\ ~firefox /\ tar = dump.dir
       /\ dump.gz <=> dump.dir = "archive"
       /\ dump.dir = "archive" => ~recovery /\ (dump.flash <=> ~params.disable_flash)
       /\ at \in {"wal", "close"} => dump.files.store = profile.store
       /\ at = "close" => dump.files.whole /\ dump.files.wal = profile.wal
  /\ saved["crash"].gz = None

(* What the next browser is to get is in the making or in the archive.     *)
InTheMaking ==
  /\ dump.dir \in {"crash", "archive"}
  /\ expected.version = Version(profile) /\ expected.settings = settings
  /\ expected.flash # None =>
       dump.dir = "archive" /\ ~params.disable_flash /\ expected.flash = flash

InTheArchive ==
  /\ at \in {"load", "settings", "configure", "start"} /\ ~firefox
  /\ expected.version # None =>
       IF tar = None THEN expected.version = 0
       ELSE Usable(tar) /\ Version(Archive(tar)) = expected.version
  /\ expected.settings # None => tar # None /\ saved[tar].settings = expected.settings
  /\ expected.flash # None =>
       /\ tar # None /\ ~recovery /\ ~params.disable_flash
       /\ flash = expected.flash /\ (flash # 0 => saved[tar].flash = flash)

Matches ==
  /\ expected.version # None => Version(profile) = expected.version
  /\ expected.settings # None => settings = expected.settings

AsBefore ==
  /\ expected # None => InTheMaking \/ InTheArchive \/ at = "raised"
  /\ expected # None /\ at \in {"settings", "configure", "start"} => Matches

MailClient ==
  /\ at \in {"settings", "configure", "start"} => profile.js
  /\ at = "running" \/ dump.dir = "user" => (profile.js <=> ~params.spoof_mailclient)
  /\ (at \in {"start", "running"} \/ dump.dir = "user") /\ params.spoof_mailclient =>
       "no_referrer" \in prefs

ProfileInv == ProfileTypeOK /\ DumpGoing /\ AsBefore /\ MailClient

Holds(version, archive) ==
  version \notin {None, 0} => archive # None /\ archive.whole /\ Version(archive) = version

GzGoing  == dump.dir = "user" /\ dump.gz
TarGoing == dump.dir = "user" /\ ~dump.gz

CommandDumps ==
  /\ dumped.settings = saved["user"].settings
  /\ dumped.gz = None => saved["user"].gz = None
  /\ IF GzGoing THEN IF at = "close" THEN dumped.gz # None /\ Holds(dumped.gz, dump.files)
                     ELSE dumped.gz = 0
     ELSE Holds(dumped.gz, saved["user"].gz)
  /\ IF TarGoing THEN IF at = "close" THEN Holds(dumped.tar, dump.files) ELSE dumped.tar = 0
     ELSE Holds(dumped.tar, saved["user"].tar)
  /\ dump.dir = "user" /\ at = "wal" /\ dump.still => dump.files.store = profile.store

LEMMA Constants ==
  /\ New \in Profile /\ New.js = TRUE
  /\ Partial \in Archived /\ Partial \in MaybeArchived /\ None \in MaybeArchived
  /\ NoDump \in Dumped /\ NoDump.dir = None
  /\ None \notin Archived \cup {"crash", "archive", "user", Default} \cup Resolution \cup Nat
  /\ None \in MaybeCopy /\ Version(New) = 0
  <1>1. Partial \in Archived
    BY DEF Partial, Archived
  <1>2. New \in Profile /\ New.js = TRUE
    BY DEF New, Profile
  <1>3. NoDump \in Dumped /\ NoDump.dir = None
    BY <1>1 DEF NoDump, Dumped
  <1>4. None \in MaybeCopy /\ Version(New) = 0
    BY DEF MaybeCopy, Version, New
  <1> QED
    BY <1>1, <1>2, <1>3, <1>4, ProfilesAssumption, NoneAssumption DEF MaybeArchived, Directory

LEMMA ProfileFields ==
  ASSUME NEW p \in Profile
  PROVE  /\ p.store \in Nat /\ p.wal \in Nat /\ p.js \in BOOLEAN
         /\ p = [store |-> p.store, wal |-> p.wal, js |-> p.js]
  BY DEF Profile

LEMMA ProfileMade ==
  ASSUME NEW n \in Nat, NEW m \in Nat, NEW b \in BOOLEAN
  PROVE  [store |-> n, wal |-> m, js |-> b] \in Profile
  BY DEF Profile

LEMMA ArchivedFields ==
  ASSUME NEW f \in Archived
  PROVE  /\ f.store \in Nat /\ f.wal \in Nat /\ f.whole \in BOOLEAN
         /\ f = [store |-> f.store, wal |-> f.wal, whole |-> f.whole]
  BY DEF Archived

LEMMA ArchivedMade ==
  ASSUME NEW n \in Nat, NEW m \in Nat, NEW b \in BOOLEAN
  PROVE  [store |-> n, wal |-> m, whole |-> b] \in Archived
  BY DEF Archived

LEMMA DumpedFields ==
  ASSUME NEW d \in Dumped
  PROVE  /\ d.dir \in Directory \cup {None} /\ d.gz \in BOOLEAN /\ d.flash \in BOOLEAN
         /\ d.files \in Archived /\ d.still \in BOOLEAN
         /\ d = [dir |-> d.dir, gz |-> d.gz, flash |-> d.flash, files |-> d.files,
                 still |-> d.still]
  BY DEF Dumped

LEMMA DumpedMade ==
  ASSUME NEW x \in Directory \cup {None}, NEW f \in Archived, NEW b \in BOOLEAN,
         NEW c \in BOOLEAN, NEW e \in BOOLEAN
  PROVE  [dir |-> x, gz |-> b, flash |-> c, files |-> f, still |-> e] \in Dumped
  BY DEF Dumped

LEMMA DumpStirred ==
  ASSUME dump \in Dumped, dump' = [dump EXCEPT !.still = FALSE]
  PROVE  /\ dump' \in Dumped /\ dump'.dir = dump.dir /\ (dump'.gz <=> dump.gz)
         /\ (dump'.flash <=> dump.flash) /\ dump'.files = dump.files /\ ~dump'.still
  <1>1. PICK b \in BOOLEAN : ~b /\ dump' = [dump EXCEPT !.still = b]
    OBVIOUS
  <1>2. dump' = [dir |-> dump.dir, gz |-> dump.gz, flash |-> dump.flash, files |-> dump.files,
                 still |-> b]
    BY <1>1, DumpedFields
  <1>3. /\ dump.dir \in Directory \cup {None} /\ dump.gz \in BOOLEAN /\ dump.flash \in BOOLEAN
        /\ dump.files \in Archived
    BY DumpedFields
  <1>4. [dir |-> dump.dir, gz |-> dump.gz, flash |-> dump.flash, files |-> dump.files,
         still |-> b] \in Dumped
    BY <1>3 DEF Dumped
  <1> QED
    BY <1>1, <1>2, <1>3, <1>4

LEMMA CopyNoted ==
  ASSUME ProfileTypeOK, NEW gz \in BOOLEAN, NEW n \in Nat, CopyOf(gz, n)
  PROVE  /\ dumped' \in Copies /\ dumped'.settings = dumped.settings
         /\ gz => dumped'.gz = n /\ dumped'.tar = dumped.tar
         /\ ~gz => dumped'.gz = dumped.gz /\ dumped'.tar = n
  BY DEF ProfileTypeOK, CopyOf, Copies, MaybeCopy

LEMMA KeptFields ==
  ASSUME NEW k \in Kept
  PROVE  /\ k.gz \in MaybeArchived /\ k.tar \in MaybeArchived /\ k.settings \in Settings
         /\ k.flash \in Nat
         /\ k = [gz |-> k.gz, tar |-> k.tar, settings |-> k.settings, flash |-> k.flash]
  BY DEF Kept

LEMMA KeptMade ==
  ASSUME NEW g \in MaybeArchived, NEW h \in MaybeArchived, NEW s \in Settings, NEW n \in Nat
  PROVE  [gz |-> g, tar |-> h, settings |-> s, flash |-> n] \in Kept
  BY DEF Kept

LEMMA KeptChanged ==
  ASSUME NEW k \in Kept, NEW g \in MaybeArchived
  PROVE  /\ [k EXCEPT !.gz = g] \in Kept /\ [k EXCEPT !.gz = g].settings = k.settings
         /\ [k EXCEPT !.gz = g].gz = g /\ [k EXCEPT !.gz = g].tar = k.tar
         /\ [k EXCEPT !.tar = g] \in Kept /\ [k EXCEPT !.tar = g].settings = k.settings
         /\ [k EXCEPT !.tar = g].gz = k.gz /\ [k EXCEPT !.tar = g].tar = g
  BY DEF Kept

LEMMA FilesDumped ==
  ASSUME NEW d \in Dumped, NEW f \in Archived
  PROVE  [d EXCEPT !.files = f]
           = [dir |-> d.dir, gz |-> d.gz, flash |-> d.flash, files |-> f, still |-> d.still]
  BY DumpedFields

LEMMA ParamsChanged ==
  ASSUME NEW p \in BrowserParams
  PROVE  /\ p.spoof_mailclient \in BOOLEAN /\ p.disable_flash \in BOOLEAN
         /\ [p EXCEPT !.random_attributes = FALSE] \in BrowserParams
         /\ [p EXCEPT !.random_attributes = FALSE].spoof_mailclient = p.spoof_mailclient
         /\ [p EXCEPT !.random_attributes = FALSE].disable_flash = p.disable_flash
  BY DEF BrowserParams

LEMMA SavedChanged ==
  ASSUME saved \in [Directory -> Kept], NEW d \in Directory, NEW k \in Kept,
         saved' = [saved EXCEPT ![d] = k]
  PROVE  /\ saved' \in [Directory -> Kept] /\ saved'[d] = k
         /\ \A e \in Directory : e # d => saved'[e] = saved[e]
  OBVIOUS

LEMMA ArchivePut ==
  ASSUME ProfileTypeOK, NEW d \in Directory, NEW gz \in BOOLEAN, NEW f \in MaybeArchived,
         Put(d, gz, f)
  PROVE  /\ saved' \in [Directory -> Kept] /\ saved'[d].settings = saved[d].settings
         /\ gz => saved'[d].gz = f /\ saved'[d].tar = saved[d].tar
         /\ ~gz => saved'[d].gz = saved[d].gz /\ saved'[d].tar = f
         /\ \A e \in Directory : e # d => saved'[e] = saved[e]
  <1>1. saved[d] \in Kept /\ saved \in [Directory -> Kept]
    BY DEF ProfileTypeOK
  <1>2. PICK k \in Kept : /\ saved' = [saved EXCEPT ![d] = k]
                          /\ k.settings = saved[d].settings
                          /\ gz => k.gz = f /\ k.tar = saved[d].tar
                          /\ ~gz => k.gz = saved[d].gz /\ k.tar = f
    <2>1. CASE gz
      <3>1. saved' = [saved EXCEPT ![d] = [saved[d] EXCEPT !.gz = f]]
        BY <1>1, <2>1 DEF Put
      <3> QED
        BY <1>1, <2>1, <3>1, KeptChanged
    <2>2. CASE ~gz
      <3>1. saved' = [saved EXCEPT ![d] = [saved[d] EXCEPT !.tar = f]]
        BY <1>1, <2>2 DEF Put
      <3> QED
        BY <1>1, <2>2, <3>1, KeptChanged
    <2> QED
      BY <2>1, <2>2
  <1>3. /\ saved' \in [Directory -> Kept] /\ saved'[d] = k
        /\ \A e \in Directory : e # d => saved'[e] = saved[e]
    BY <1>1, <1>2, SavedChanged
  <1> QED
    BY <1>2, <1>3

LEMMA DumpBegun ==
  ASSUME ProfileTypeOK, NEW d \in Directory, NEW gz \in BOOLEAN, NEW f \in BOOLEAN,
         BeginDump(d, gz, f)
  PROVE  /\ dump' \in Dumped /\ saved' \in [Directory -> Kept]
         /\ dump'.dir = d /\ dump'.gz = gz /\ dump'.flash = f
         /\ saved'[d].settings = saved[d].settings
         /\ gz => saved'[d].tar = saved[d].tar
         /\ ~gz => saved'[d].gz = saved[d].gz
         /\ \A e \in Directory : e # d => saved'[e] = saved[e]
         /\ d # "crash" \/ ~gz => saved'["crash"].gz = saved["crash"].gz
  <1>1. /\ dump' = [dir |-> d, gz |-> gz, flash |-> f, files |-> Partial, still |-> TRUE]
        /\ dump' \in Dumped
    BY Constants, DumpedMade DEF BeginDump
  <1>2. /\ saved' \in [Directory -> Kept] /\ saved'[d].settings = saved[d].settings
        /\ gz => saved'[d].gz = None /\ saved'[d].tar = saved[d].tar
        /\ ~gz => saved'[d].gz = saved[d].gz /\ saved'[d].tar = None
        /\ \A e \in Directory : e # d => saved'[e] = saved[e]
    BY Constants, ArchivePut DEF BeginDump
  <1>3. "crash" \in Directory
    BY DEF Directory
  <1> QED
    BY <1>1, <1>2, <1>3

LEMMA StoreAdded ==
  ASSUME ProfileTypeOK, AddStore, dump.dir # None
  PROVE  /\ dump' \in Dumped /\ saved' \in [Directory -> Kept]
         /\ profile.store = 0 => /\ dump'.dir = None
                                 /\ saved'[dump.dir].settings = saved[dump.dir].settings
                                 /\ dump.gz => saved'[dump.dir].tar = saved[dump.dir].tar
                                 /\ ~dump.gz => saved'[dump.dir].gz = saved[dump.dir].gz
         /\ profile.store # 0 => /\ dump'.dir = dump.dir /\ dump'.gz = dump.gz
                                 /\ dump'.flash = dump.flash /\ dump'.still = dump.still
                                 /\ dump'.files.store = profile.store /\ saved' = saved
         /\ \A e \in Directory : e # dump.dir => saved'[e] = saved[e]
         /\ dump.dir # "crash" \/ ~dump.gz => saved'["crash"].gz = saved["crash"].gz
  <1>1. /\ dump \in Dumped /\ dump.dir \in Directory /\ profile.store \in Nat
        /\ dump.gz \in BOOLEAN /\ dump.still \in BOOLEAN /\ dump.flash \in BOOLEAN
        /\ saved \in [Directory -> Kept] /\ dump.files \in Archived
    BY ProfileFields, DumpedFields DEF ProfileTypeOK
  <1>2. CASE profile.store = 0
    <2>1. dump' = NoDump
      BY <1>2 DEF AddStore
    <2>2. /\ saved' \in [Directory -> Kept]
          /\ saved'[dump.dir].settings = saved[dump.dir].settings
          /\ dump.gz => saved'[dump.dir].gz = Partial /\ saved'[dump.dir].tar = saved[dump.dir].tar
          /\ ~dump.gz => saved'[dump.dir].gz = saved[dump.dir].gz /\ saved'[dump.dir].tar = Partial
          /\ \A e \in Directory : e # dump.dir => saved'[e] = saved[e]
      BY <1>1, <1>2, Constants, ArchivePut DEF AddStore
    <2>3. "crash" \in Directory
      BY DEF Directory
    <2> QED
      BY <1>2, <2>1, <2>2, <2>3, Constants
  <1>3. CASE profile.store # 0
    <2> DEFINE f == [store |-> profile.store, wal |-> 0, whole |-> FALSE]
    <2>1. dump' = [dump EXCEPT !.files = f] /\ saved' = saved
      BY <1>3 DEF AddStore
    <2>2. f \in Archived /\ f.store = profile.store
      BY <1>1, ArchivedMade
    <2> HIDE DEF f
    <2>3. dump' = [dir |-> dump.dir, gz |-> dump.gz, flash |-> dump.flash, files |-> f,
                   still |-> dump.still]
      BY <1>1, <2>1, <2>2, FilesDumped
    <2>4. dump' \in Dumped
      BY <1>1, <2>2, <2>3, DumpedMade
    <2> QED
      BY <1>1, <1>3, <2>1, <2>2, <2>3, <2>4
  <1> QED
    BY <1>2, <1>3

LEMMA LogAdded ==
  ASSUME ProfileTypeOK, AddLog, dump.dir # None
  PROVE  /\ dump' \in Dumped /\ dump'.dir = dump.dir /\ dump'.gz = dump.gz
         /\ dump'.flash = dump.flash /\ dump'.files.whole
         /\ dump'.files.store = dump.files.store /\ dump'.files.wal = profile.wal
         /\ dumped' \in Copies
         /\ dump.dir # "user" => dumped' = dumped
         /\ dump.dir = "user" => CopyOf(dump.gz, IF dump.still THEN Version(profile) ELSE 0)
  <1>1. /\ dump \in Dumped /\ dump.dir \in Directory /\ profile.wal \in Nat
        /\ dump.files \in Archived /\ dump.files.store \in Nat
        /\ dump.gz \in BOOLEAN /\ dump.flash \in BOOLEAN /\ dump.still \in BOOLEAN
    BY ProfileFields, DumpedFields, ArchivedFields DEF ProfileTypeOK
  <1> DEFINE f == [store |-> dump.files.store, wal |-> profile.wal, whole |-> TRUE]
  <1>2. /\ dump' = [dump EXCEPT !.files = f] /\ f \in Archived
        /\ f.store = dump.files.store /\ f.wal = profile.wal /\ f.whole
    BY <1>1, ArchivedMade DEF AddLog
  <1> HIDE DEF f
  <1>3. dump' = [dir |-> dump.dir, gz |-> dump.gz, flash |-> dump.flash, files |-> f,
                 still |-> dump.still]
    BY <1>1, <1>2, FilesDumped
  <1>4. dump' \in Dumped
    <2>1. f \in Archived
      BY <1>2
    <2> QED
      BY <1>1, <1>3, <2>1, DumpedMade
  <1>5. /\ dump.dir # "user" => dumped' = dumped
        /\ dump.dir = "user" => CopyOf(dump.gz, IF dump.still THEN Version(profile) ELSE 0)
    BY DEF AddLog, NoteCopy
  <1>6. (IF dump.still THEN Version(profile) ELSE 0) \in Nat
    BY ProfileFields DEF ProfileTypeOK, Version
  <1>7. dumped' \in Copies
    BY <1>1, <1>5, <1>6, CopyNoted DEF ProfileTypeOK
  <1> QED
    BY <1>2, <1>3, <1>4, <1>5, <1>7

LEMMA DumpFinished ==
  ASSUME ProfileTypeOK, FinishDump, dump.dir # None, settings # None
  PROVE  /\ dump' \in Dumped /\ dump'.dir = None
         /\ saved' \in [Directory -> Kept] /\ saved'[dump.dir].settings = settings
         /\ dump.gz => /\ saved'[dump.dir].gz = dump.files
                       /\ saved'[dump.dir].tar = saved[dump.dir].tar
         /\ ~dump.gz => /\ saved'[dump.dir].tar = dump.files
                        /\ saved'[dump.dir].gz = saved[dump.dir].gz
         /\ dump.flash /\ flash # 0 => saved'[dump.dir].flash = flash
         /\ dumped' \in Copies /\ dumped'.gz = dumped.gz /\ dumped'.tar = dumped.tar
         /\ dumped'.settings = IF dump.dir = "user" THEN settings ELSE dumped.settings
         /\ \A e \in Directory : e # dump.dir => saved'[e] = saved[e]
  <1>1. /\ dump.dir \in Directory /\ dump.files \in MaybeArchived /\ saved \in [Directory -> Kept]
        /\ dump.gz \in BOOLEAN /\ dump.flash \in BOOLEAN /\ flash \in Nat /\ settings \in Settings
    BY DumpedFields DEF ProfileTypeOK, MaybeArchived
  <1>2. /\ saved[dump.dir].gz \in MaybeArchived /\ saved[dump.dir].tar \in MaybeArchived
        /\ saved[dump.dir].settings \in Settings /\ saved[dump.dir].flash \in Nat
    BY <1>1, KeptFields
  <1> DEFINE old == saved[dump.dir]
             k   == [gz       |-> IF dump.gz THEN dump.files ELSE old.gz,
                     tar      |-> IF dump.gz THEN old.tar ELSE dump.files,
                     settings |-> save_browser_settings(old.settings),
                     flash    |-> IF dump.flash THEN save_flash_files(old.flash) ELSE old.flash]
  <1>3. /\ k.settings = settings
        /\ k.gz = IF dump.gz THEN dump.files ELSE old.gz
        /\ k.tar = IF dump.gz THEN old.tar ELSE dump.files
        /\ dump.flash /\ flash # 0 => k.flash = flash
    BY DEF save_browser_settings, save_flash_files
  <1>4. k \in Kept
    <2>1. save_browser_settings(old.settings) \in Settings /\ save_flash_files(old.flash) \in Nat
      BY <1>1, <1>2 DEF save_browser_settings, save_flash_files
    <2> QED
      BY <1>1, <1>2, <2>1, KeptMade
  <1>5. saved' = [saved EXCEPT ![dump.dir] = k]
    BY DEF FinishDump
  <1> HIDE DEF k
  <1>6. /\ saved' \in [Directory -> Kept] /\ saved'[dump.dir] = k
        /\ \A e \in Directory : e # dump.dir => saved'[e] = saved[e]
    BY <1>1, <1>4, <1>5, SavedChanged
  <1>7. dump' \in Dumped /\ dump'.dir = None
    BY Constants DEF FinishDump
  <1>8. /\ dumped' \in Copies /\ dumped'.gz = dumped.gz /\ dumped'.tar = dumped.tar
        /\ dumped'.settings = IF dump.dir = "user" THEN settings ELSE dumped.settings
    BY <1>1 DEF FinishDump, ProfileTypeOK, Copies
  <1> QED
    BY <1>1, <1>3, <1>6, <1>7, <1>8

(* What SQLite reads of the profile is what it reads of the archive.       *)
LEMMA ProfileLoaded ==
  ASSUME ProfileTypeOK, load_profile
  PROVE  /\ tar \in Directory /\ profile' \in Profile /\ profile'.js
         /\ Version(profile') = Version(Archive(tar))
         /\ settings' \in Settings /\ settings' = saved[tar].settings
         /\ flash' \in Nat
         /\ ~recovery /\ ~params.disable_flash =>
              flash' = IF flash = 0 THEN 0 ELSE saved[tar].flash
  <1>1. tar \in Directory
    BY DEF ProfileTypeOK, load_profile, Directory
  <1>2. saved[tar] \in Kept
    BY <1>1 DEF ProfileTypeOK
  <1>3. Archive(tar) \in Archived
    BY <1>2, KeptFields DEF load_profile, Usable, Archive, MaybeArchived
  <1>4. Archive(tar).store \in Nat /\ Archive(tar).wal \in Nat
    BY <1>3, ArchivedFields
  <1>5. profile' = [store |-> Archive(tar).store, wal |-> Archive(tar).wal, js |-> TRUE]
    BY DEF load_profile
  <1>6. profile' \in Profile
    BY <1>4, <1>5, ProfileMade
  <1>7. Version(profile') = Version(Archive(tar))
    BY <1>5 DEF Version
  <1>8. settings' = saved[tar].settings /\ settings' \in Settings
    BY <1>2, KeptFields DEF load_profile, load_browser_settings
  <1>9. /\ flash' \in Nat
        /\ ~recovery /\ ~params.disable_flash =>
              flash' = IF flash = 0 THEN 0 ELSE saved[tar].flash
    BY <1>2, KeptFields DEF load_profile, load_flash_files, ProfileTypeOK
  <1> QED
    BY <1>1, <1>5, <1>6, <1>7, <1>8, <1>9

LEMMA LoadKeeps ==
  ASSUME ProfileInv, Load
  PROVE  ProfileInv'
  <1>1. ProfileTypeOK /\ DumpGoing /\ AsBefore /\ MailClient
    BY DEF ProfileInv
  <1>2. /\ at = "load" /\ dump.dir = None /\ saved["crash"].gz = None
        /\ UNCHANGED <<params, tar, recovery, prefs, firefox, dump, saved, writes, expected, dumped>>
    BY <1>1 DEF DumpGoing, Dumping, Load, history
  <1>3. expected # None => InTheArchive
    BY <1>1, <1>2, Constants DEF AsBefore, InTheMaking
  <1>4. /\ at' \in {"settings", "raised"} /\ profile' \in Profile /\ profile'.js
        /\ settings' \in Settings /\ flash' \in Nat
        /\ expected # None /\ at' = "settings" => InTheArchive' /\ Matches'
    <2>1. CASE load_profile
      <3>1. /\ tar \in Directory /\ profile' \in Profile /\ profile'.js
            /\ Version(profile') = Version(Archive(tar))
            /\ settings' \in Settings /\ settings' = saved[tar].settings
            /\ flash' \in Nat /\ at' = "settings"
            /\ ~recovery /\ ~params.disable_flash =>
                 flash' = IF flash = 0 THEN 0 ELSE saved[tar].flash
        BY <1>1, <2>1, ProfileLoaded DEF load_profile
      <3>2. tar # None
        BY <2>1 DEF load_profile
      <3>3. expected # None => InTheArchive'
        BY <1>2, <1>3, <3>1, <3>2 DEF InTheArchive, Usable, Archive, Version
      <3>4. expected # None => Matches'
        BY <1>2, <1>3, <3>1, <3>2 DEF InTheArchive, Matches, Version
      <3> QED
        BY <3>1, <3>3, <3>4
    <2>2. CASE LoadRaises
      BY <1>1, <2>2, Constants DEF LoadRaises, ProfileTypeOK
    <2>3. CASE NewProfile
      <3>1. /\ tar = None /\ profile' = New /\ settings' = None /\ at' = "settings"
            /\ flash' = flash
        BY <2>3 DEF NewProfile
      <3>2. expected # None => InTheArchive'
        BY <1>2, <1>3, <3>1 DEF InTheArchive
      <3>3. Version(profile') = 0
        BY <3>1, Constants
      <3>4. expected # None => Matches'
        BY <1>2, <1>3, <3>1, <3>3 DEF InTheArchive, Matches, Version
      <3> QED
        BY <1>1, <3>1, <3>2, <3>4, Constants DEF ProfileTypeOK, Settings
    <2> QED
      BY <2>1, <2>2, <2>3 DEF Load
  <1>5. ProfileTypeOK'
    BY <1>1, <1>2, <1>4 DEF ProfileTypeOK
  <1>6. DumpGoing'
    BY <1>2, <1>4, Constants DEF DumpGoing, Dumping
  <1>7. AsBefore'
    BY <1>2, <1>4 DEF AsBefore
  <1>8. MailClient'
    BY <1>2, <1>4, Constants DEF MailClient
  <1> QED
    BY <1>5, <1>6, <1>7, <1>8 DEF ProfileInv

LEMMA StartingKeeps ==
  ASSUME ProfileInv, ChooseSettings \/ Configure \/ StartFirefox \/ StartFails
  PROVE  ProfileInv'
  <1> USE DEF ProfileInv, ProfileTypeOK, DumpGoing, Dumping, AsBefore, MailClient, InTheArchive,
              InTheMaking, Matches, history
  <1>1. CASE ChooseSettings
    <2>1. settings' \in Settings /\ settings' # None /\ (settings # None => settings' = settings)
      <3>1. settings \in Settings
        OBVIOUS
      <3>2. CASE settings # None
        <4>1. settings' = settings
          BY <1>1, <3>2 DEF ChooseSettings
        <4> QED
          BY <3>1, <3>2, <4>1
      <3>3. CASE settings = None
        <4>1. settings' \in Resolution \cup {Default}
          BY <1>1, <3>3 DEF ChooseSettings
        <4> QED
          BY <3>3, <4>1, Constants DEF Settings
      <3> QED
        BY <3>2, <3>3
    <2>2. /\ at = "settings" /\ at' = "configure"
          /\ UNCHANGED <<params, tar, recovery, profile, prefs, flash, firefox, dump, saved, writes,
                         expected, dumped>>
      BY <1>1 DEF ChooseSettings
    <2>3. expected # None => InTheArchive
      BY <2>2, Constants
    <2> QED
      BY <2>1, <2>2, <2>3 DEF Usable, Archive
  <1>2. CASE Configure
    <2>1. /\ at = "configure" /\ at' \in {"raised", "start"}
          /\ UNCHANGED <<params, tar, recovery, profile, settings, flash, firefox, dump, saved, writes,
                         expected, dumped>>
          /\ params.spoof_mailclient => "no_referrer" \in prefs'
      BY <1>2 DEF Configure, Referrer
    <2>2. expected # None => InTheArchive
      BY <2>1, Constants
    <2>3. dump.dir = None
      BY <2>1
    <2> QED
      BY <2>1, <2>2, <2>3, Constants DEF Usable, Archive
  <1>3. CASE StartFirefox
    <2>1. /\ at = "start" /\ at' = "running" /\ expected' = None /\ firefox'
          /\ UNCHANGED <<params, tar, recovery, settings, prefs, flash, dump, saved, writes, dumped>>
      BY <1>3 DEF StartFirefox
    <2>2. profile' \in Profile /\ (profile'.js <=> ~params.spoof_mailclient)
      <3>1. profile.js = TRUE /\ params.spoof_mailclient \in BOOLEAN /\ profile \in Profile
        BY <2>1, ProfileFields, ParamsChanged
      <3>2. CASE params.spoof_mailclient
        <4>1. profile' = [profile EXCEPT !.js = ~@]
          BY <1>3, <3>2 DEF StartFirefox, Toggled
        <4>2. profile' = [store |-> profile.store, wal |-> profile.wal, js |-> ~profile.js]
          BY <3>1, <4>1, ProfileFields
        <4> QED
          BY <3>1, <3>2, <4>2, ProfileFields, ProfileMade
      <3>3. CASE ~params.spoof_mailclient
        BY <1>3, <3>1, <3>3 DEF StartFirefox, Toggled
      <3> QED
        BY <3>2, <3>3
    <2>3. dump.dir = None
      BY <2>1
    <2> QED
      BY <2>1, <2>2, <2>3, Constants
  <1>4. CASE StartFails
    <2>1. /\ at = "start" /\ at' = "load" /\ profile' = New
          /\ UNCHANGED <<params, tar, recovery, settings, prefs, flash, firefox, dump, saved, writes,
                         expected, dumped>>
      BY <1>4 DEF StartFails
    <2>2. dump.dir = None
      BY <2>1
    <2> QED
      BY <2>1, <2>2, Constants DEF Usable, Archive
  <1> QED
    BY <1>1, <1>2, <1>3, <1>4

LEMMA BrowsingKeeps ==
  ASSUME ProfileInv, Browse \/ Checkpoint
  PROVE  ProfileInv'
  <1>1. ProfileTypeOK /\ DumpGoing /\ AsBefore /\ MailClient
    BY DEF ProfileInv
  <1>2. /\ firefox /\ dump' = [dump EXCEPT !.still = FALSE]
        /\ UNCHANGED <<at, params, tar, recovery, settings, prefs, firefox, saved, expected, dumped>>
    BY DEF Browse, Checkpoint, history
  <1>11. /\ dump' \in Dumped /\ dump'.dir = dump.dir /\ (dump'.gz <=> dump.gz)
         /\ (dump'.flash <=> dump.flash) /\ dump'.files = dump.files
    BY <1>1, <1>2, DumpStirred DEF ProfileTypeOK
  <1>3. profile' \in Profile /\ profile'.js = profile.js
    <2>1. profile.store \in Nat /\ profile.wal \in Nat /\ profile.js \in BOOLEAN /\ writes \in Nat
      BY <1>1, ProfileFields DEF ProfileTypeOK
    <2>2. \/ profile' = [store |-> profile.store, wal |-> writes + 1, js |-> profile.js]
          \/ profile' = [store |-> profile.wal, wal |-> 0, js |-> profile.js]
      BY <1>1, <2>1, ProfileFields DEF ProfileTypeOK, Browse, Checkpoint
    <2>3. writes + 1 \in Nat
      BY <2>1
    <2> QED
      BY <2>1, <2>2, <2>3, ProfileMade
  <1>4. flash' \in Nat /\ writes' \in Nat
    BY <1>1 DEF ProfileTypeOK, Browse, Checkpoint
  <1>5. dump.dir \notin {"crash", "archive"} /\ ~InTheArchive
    BY <1>1, <1>2 DEF DumpGoing, InTheArchive
  <1>6. expected # None => at = "raised"
    BY <1>1, <1>5 DEF AsBefore, InTheMaking
  <1>7. ProfileTypeOK'
    BY <1>1, <1>2, <1>3, <1>4, <1>11 DEF ProfileTypeOK
  <1>8. DumpGoing'
    BY <1>1, <1>2, <1>5, <1>11 DEF DumpGoing, Dumping
  <1>9. AsBefore'
    BY <1>1, <1>2, <1>6 DEF AsBefore
  <1>10. MailClient'
    BY <1>1, <1>2, <1>3, <1>11 DEF MailClient
  <1> QED
    BY <1>7, <1>8, <1>9, <1>10 DEF ProfileInv

LEMMA BeginningKeeps ==
  ASSUME ProfileInv, DumpCommand \/ CrashDump \/ ArchiveDump \/ ClearProfile \/ WaitForCheckpoint
                     \/ DumpTimesOut
  PROVE  ProfileInv'
  <1>1. ProfileTypeOK /\ DumpGoing /\ AsBefore /\ MailClient
    BY DEF ProfileInv
  <1>2. at \in {"running", "failed"} => expected = None /\ dump.dir = None /\ settings # None
    BY <1>1, Constants DEF DumpGoing, Dumping, AsBefore, InTheMaking, InTheArchive
  <1>3. CASE DumpCommand
    <2>1. PICK gz \in BOOLEAN : BeginDump("user", gz, FALSE) /\ CopyOf(gz, 0)
      BY <1>3 DEF DumpCommand
    <2>2. /\ dump' \in Dumped /\ saved' \in [Directory -> Kept] /\ dump'.dir = "user"
          /\ saved'["crash"].gz = saved["crash"].gz
      BY <1>1, <2>1, DumpBegun DEF Directory
    <2>3. /\ at = "running" /\ at' \in {"checkpoint", "store"}
          /\ UNCHANGED <<params, tar, recovery, profile, settings, prefs, flash, firefox, writes,
                         expected>>
      BY <1>3 DEF DumpCommand
    <2>4. dumped' \in Copies
      BY <1>1, <2>1, CopyNoted
    <2>5. ProfileTypeOK' /\ DumpGoing' /\ MailClient'
      BY <1>1, <1>2, <2>2, <2>3, <2>4, Constants DEF ProfileTypeOK, DumpGoing, Dumping, MailClient
    <2>6. AsBefore'
      BY <1>2, <2>3 DEF AsBefore
    <2> QED
      BY <2>5, <2>6 DEF ProfileInv
  <1>4. CASE CrashDump
    <2>1. BeginDump("crash", FALSE, FALSE)
      BY <1>4 DEF CrashDump
    <2>2. /\ dump' \in Dumped /\ saved' \in [Directory -> Kept] /\ dump'.dir = "crash"
          /\ ~dump'.gz /\ saved'["crash"].gz = saved["crash"].gz
      BY <1>1, <2>1, DumpBegun DEF Directory
    <2>3. /\ at \in {"running", "failed"} /\ at' = "store" /\ firefox' = FALSE
          /\ tar' = "crash" /\ recovery' = TRUE
          /\ params' = [params EXCEPT !.random_attributes = FALSE]
          /\ expected'.version = Version(profile) /\ expected'.settings = settings
          /\ expected'.flash = None
          /\ UNCHANGED <<profile, settings, prefs, flash, writes, dumped>>
      BY <1>4 DEF CrashDump
    <2>4. params' \in BrowserParams
      BY <1>1, <2>3, ParamsChanged DEF ProfileTypeOK
    <2>5. ProfileTypeOK'
      BY <1>1, <2>2, <2>3, <2>4 DEF ProfileTypeOK, Directory
    <2>7. DumpGoing' /\ MailClient'
      BY <1>1, <1>2, <2>2, <2>3, Constants DEF DumpGoing, Dumping, MailClient
    <2>6. AsBefore'
      BY <2>2, <2>3 DEF AsBefore, InTheMaking, Version, Matches
    <2> QED
      BY <2>5, <2>6, <2>7 DEF ProfileInv
  <1>5. CASE ArchiveDump
    <2>1. /\ BeginDump("archive", TRUE, ~params.disable_flash) /\ params.disable_flash \in BOOLEAN
          /\ (~params.disable_flash) \in BOOLEAN
      <3>1. BeginDump("archive", TRUE, ~params.disable_flash)
        BY <1>5 DEF ArchiveDump
      <3>2. params \in BrowserParams
        BY <1>1 DEF ProfileTypeOK
      <3> QED
        BY <3>1, <3>2, ParamsChanged
    <2>2. /\ dump' \in Dumped /\ saved' \in [Directory -> Kept] /\ dump'.dir = "archive"
          /\ dump'.gz /\ (dump'.flash <=> ~params.disable_flash)
          /\ saved'["crash"].gz = saved["crash"].gz
      BY <1>1, <2>1, DumpBegun DEF Directory
    <2>3. /\ at = "running" /\ at' = "store" /\ firefox' = FALSE
          /\ tar' = "archive" /\ recovery' = FALSE
          /\ expected'.version = Version(profile) /\ expected'.settings = settings
          /\ expected'.flash # None => ~params.disable_flash /\ expected'.flash = flash
          /\ UNCHANGED <<params, profile, settings, prefs, flash, writes, dumped>>
      BY <1>5 DEF ArchiveDump
    <2>4. ProfileTypeOK'
      BY <1>1, <2>2, <2>3 DEF ProfileTypeOK, Directory
    <2>5. DumpGoing' /\ MailClient'
      BY <1>1, <1>2, <2>2, <2>3, Constants DEF DumpGoing, Dumping, MailClient
    <2>6. AsBefore'
      BY <2>2, <2>3 DEF AsBefore, InTheMaking, Version, Matches
    <2> QED
      BY <2>4, <2>5, <2>6 DEF ProfileInv
  <1>6. CASE ClearProfile
    <2>1. /\ at \in {"running", "failed"} /\ at' = "load" /\ firefox' = FALSE /\ tar' = None
          /\ recovery' = FALSE /\ profile' = New
          /\ expected'.version = 0 /\ expected'.settings = None /\ expected'.flash = None
          /\ UNCHANGED <<params, settings, prefs, flash, dump, saved, writes, dumped>>
      BY <1>6 DEF ClearProfile
    <2>2. ProfileTypeOK' /\ DumpGoing' /\ MailClient'
      BY <1>1, <1>2, <2>1, Constants DEF ProfileTypeOK, DumpGoing, Dumping, MailClient
    <2>3. AsBefore'
      BY <2>1 DEF AsBefore, InTheArchive
    <2> QED
      BY <2>2, <2>3 DEF ProfileInv
  <1>7. CASE WaitForCheckpoint
    <2>1. /\ at = "checkpoint" /\ at' = "store"
          /\ UNCHANGED <<params, tar, recovery, profile, settings, prefs, flash, firefox, dump, saved,
                         writes, expected, dumped>>
      BY <1>7 DEF WaitForCheckpoint, history
    <2>2. dump.dir \notin {"crash", "archive"} /\ dump.dir # None
      BY <1>1, <2>1 DEF DumpGoing, Dumping
    <2>3. expected = None
      BY <1>1, <2>1, <2>2 DEF AsBefore, InTheMaking, InTheArchive
    <2> QED
      BY <1>1, <2>1, <2>2, <2>3
      DEF ProfileInv, ProfileTypeOK, DumpGoing, Dumping, AsBefore, MailClient
  <1>8. CASE DumpTimesOut
    <2>1. /\ dump.dir = "user" /\ dump.gz \in BOOLEAN /\ dump.files \in Archived
          /\ CopyOf(dump.gz, 0) /\ at' = "failed" /\ dump' = NoDump
          /\ UNCHANGED <<params, tar, recovery, profile, settings, prefs, flash, firefox, writes,
                         expected>>
      BY <1>1, <1>8, DumpedFields DEF DumpTimesOut, ProfileTypeOK
    <2>2. PICK whole \in BOOLEAN :
            Put("user", dump.gz, [store |-> dump.files.store, wal |-> dump.files.wal, whole |-> whole])
      <3>1. at \in {"wal", "close"} \/ at \notin {"wal", "close"}
        OBVIOUS
      <3> QED
        BY <1>8, <3>1 DEF DumpTimesOut
    <2>3. [store |-> dump.files.store, wal |-> dump.files.wal, whole |-> whole] \in MaybeArchived
      BY <2>1, ArchivedFields, ArchivedMade DEF MaybeArchived
    <2>4. saved' \in [Directory -> Kept] /\ saved'["crash"].gz = saved["crash"].gz
      BY <1>1, <2>1, <2>2, <2>3, ArchivePut DEF Directory
    <2>5. dumped' \in Copies
      BY <1>1, <2>1, CopyNoted
    <2>6. Dumping /\ settings # None /\ expected = None
      BY <1>1, <2>1, Constants DEF DumpGoing, Dumping, AsBefore, InTheMaking, InTheArchive
    <2>7. ProfileTypeOK' /\ DumpGoing' /\ MailClient'
      BY <1>1, <2>1, <2>4, <2>5, <2>6, Constants
      DEF ProfileTypeOK, DumpGoing, Dumping, MailClient
    <2>8. AsBefore'
      BY <2>1, <2>6 DEF AsBefore
    <2> QED
      BY <2>7, <2>8 DEF ProfileInv
  <1> QED
    BY <1>3, <1>4, <1>5, <1>6, <1>7, <1>8

(* What a command has dumped is what the next crawl starts from.           *)
LEMMA DumpStarted ==
  ASSUME ProfileInv, CommandDumps, StartFromDump
  PROVE  ProfileInv'
  <1>1. ProfileTypeOK /\ DumpGoing /\ AsBefore /\ MailClient
    BY DEF ProfileInv
  <1>2. /\ at = "running" /\ at' = "load" /\ firefox' = FALSE /\ tar' = "user"
        /\ recovery' = FALSE /\ profile' = New
        /\ UNCHANGED <<params, settings, prefs, flash, dump, saved, writes, dumped>>
    BY DEF StartFromDump
  <1>3. dump.dir = None
    BY <1>1, <1>2 DEF DumpGoing, Dumping
  <1> DEFINE version == IF dumped.gz # None THEN dumped.gz ELSE dumped.tar
  <1>4. /\ version # None /\ expected'.flash = None
        /\ expected'.version = IF version = 0 THEN None ELSE version
        /\ expected'.settings = dumped.settings
    BY DEF StartFromDump
  <1>5. /\ dumped.settings = saved["user"].settings
        /\ dumped.gz = None => saved["user"].gz = None
        /\ Holds(dumped.gz, saved["user"].gz) /\ Holds(dumped.tar, saved["user"].tar)
    BY <1>3, Constants DEF CommandDumps, GzGoing, TarGoing
  <1>6. version # 0 => Usable("user") /\ Version(Archive("user")) = version
    BY <1>4, <1>5 DEF Usable, Archive, Holds
  <1>7. InTheArchive'
    <2>1. (Usable("user") <=> Usable("user")') /\ Version(Archive("user"))' = Version(Archive("user"))
      BY <1>2 DEF Usable, Archive, Version
    <2>2. Usable(tar)' = Usable("user")' /\ Version(Archive(tar))' = Version(Archive("user"))'
      BY <1>2 DEF Usable, Archive, Version
    <2>3. expected'.version # None => Usable(tar)' /\ Version(Archive(tar))' = expected'.version
      BY <1>4, <1>6, <2>1, <2>2
    <2> QED
      BY <1>2, <1>4, <1>5, <2>3, Constants DEF InTheArchive
  <1>8. ProfileTypeOK' /\ DumpGoing' /\ MailClient'
    BY <1>1, <1>2, <1>3, Constants DEF ProfileTypeOK, DumpGoing, Dumping, MailClient, Directory
  <1>9. AsBefore'
    BY <1>2, <1>7 DEF AsBefore
  <1> QED
    BY <1>8, <1>9 DEF ProfileInv

LEMMA DumpingKeeps ==
  ASSUME ProfileInv, AddStore \/ AddLog \/ FinishDump
  PROVE  ProfileInv'
  <1>1. ProfileTypeOK /\ DumpGoing /\ AsBefore /\ MailClient
    BY DEF ProfileInv
  <1>2. /\ Dumping /\ dump.dir # None /\ settings # None /\ dump.dir \in Directory
        /\ at \notin {"load", "settings", "configure", "start", "raised", "running"}
    <2>1. at \in {"store", "wal", "close"}
      BY DEF AddStore, AddLog, FinishDump
    <2> QED
      BY <1>1, <2>1, DumpedFields DEF DumpGoing, Dumping, ProfileTypeOK
  <1>3. expected # None => InTheMaking
    BY <1>1, <1>2 DEF AsBefore, InTheArchive
  <1>4. UNCHANGED <<params, tar, recovery, profile, settings, prefs, flash, firefox, writes, expected>>
    BY DEF AddStore, AddLog, FinishDump, history
  <1>5. Version(profile)' = Version(profile)
    BY <1>4 DEF Version
  <1>6. CASE AddStore
    <2>1. /\ dump' \in Dumped /\ saved' \in [Directory -> Kept]
          /\ profile.store = 0 => dump'.dir = None
          /\ profile.store # 0 => /\ dump'.dir = dump.dir /\ dump'.gz = dump.gz
                                  /\ dump'.flash = dump.flash
                                  /\ dump'.files.store = profile.store
          /\ saved'["crash"].gz = saved["crash"].gz
      BY <1>1, <1>2, <1>6, StoreAdded DEF DumpGoing
    <2>2. /\ at = "store"
          /\ profile.store = 0 => at' = IF dump.dir = "user" THEN "failed" ELSE "raised"
          /\ profile.store # 0 => at' = "wal"
          /\ dumped' = dumped
      BY <1>6 DEF AddStore, history
    <2>3. ProfileTypeOK'
      BY <1>1, <1>4, <2>1, <2>2 DEF ProfileTypeOK
    <2>4. DumpGoing'
      BY <1>1, <1>2, <1>4, <2>1, <2>2, Constants DEF DumpGoing, Dumping
    <2>5. AsBefore'
      <3>1. CASE profile.store = 0
        <4>1. expected' # None => at' = "raised"
          BY <1>3, <1>4, <2>2, <3>1 DEF InTheMaking
        <4> QED
          BY <4>1 DEF AsBefore
      <3>2. CASE profile.store # 0
        <4>1. expected' # None => InTheMaking'
          BY <1>3, <1>4, <1>5, <2>1, <3>2 DEF InTheMaking
        <4> QED
          BY <2>2, <3>2, <4>1 DEF AsBefore
      <3> QED
        BY <3>1, <3>2
    <2>6. MailClient'
      BY <1>1, <1>2, <1>4, <2>1, <2>2, Constants DEF MailClient
    <2> QED
      BY <2>3, <2>4, <2>5, <2>6 DEF ProfileInv
  <1>7. CASE AddLog
    <2>1. /\ dump' \in Dumped /\ dump'.dir = dump.dir /\ dump'.gz = dump.gz
          /\ dump'.flash = dump.flash /\ dump'.files.whole
          /\ dump'.files.store = dump.files.store /\ dump'.files.wal = profile.wal
          /\ dumped' \in Copies
      BY <1>1, <1>2, <1>7, LogAdded
    <2>2. at = "wal" /\ at' = "close" /\ saved' = saved
      BY <1>7 DEF AddLog
    <2>3. ProfileTypeOK'
      BY <1>1, <1>4, <2>1, <2>2 DEF ProfileTypeOK
    <2>4. DumpGoing'
      BY <1>1, <1>2, <1>4, <2>1, <2>2 DEF DumpGoing, Dumping
    <2>5. expected' # None => InTheMaking'
      BY <1>3, <1>4, <1>5, <2>1 DEF InTheMaking
    <2>6. AsBefore'
      BY <2>2, <2>5 DEF AsBefore
    <2>7. MailClient'
      BY <1>1, <1>4, <2>1, <2>2 DEF MailClient
    <2> QED
      BY <2>3, <2>4, <2>6, <2>7 DEF ProfileInv
  <1>8. CASE FinishDump
    <2>1. /\ dump' \in Dumped /\ dump'.dir = None
          /\ saved' \in [Directory -> Kept] /\ saved'[dump.dir].settings = settings
          /\ dump.gz => saved'[dump.dir].gz = dump.files
          /\ ~dump.gz => /\ saved'[dump.dir].tar = dump.files
                         /\ saved'[dump.dir].gz = saved[dump.dir].gz
          /\ dump.flash /\ flash # 0 => saved'[dump.dir].flash = flash
          /\ \A e \in Directory : e # dump.dir => saved'[e] = saved[e]
          /\ dumped' \in Copies
      BY <1>1, <1>2, <1>8, DumpFinished
    <2>2. at = "close" /\ at' = IF dump.dir = "user" THEN "running" ELSE "load"
      BY <1>8 DEF FinishDump
    <2>3. ProfileTypeOK'
      BY <1>1, <1>4, <2>1, <2>2 DEF ProfileTypeOK
    <2>4. saved'["crash"].gz = None
      <3>1. "crash" \in Directory /\ (dump.dir = "crash" => ~dump.gz) /\ saved["crash"].gz = None
        BY <1>1 DEF DumpGoing, Directory
      <3> QED
        BY <2>1, <3>1
    <2>5. DumpGoing'
      BY <1>1, <1>2, <1>4, <2>1, <2>2, <2>4, Constants DEF DumpGoing, Dumping
    <2>6. ASSUME expected # None
          PROVE  InTheArchive' /\ at' = "load"
      <3>1. /\ dump.dir \in {"crash", "archive"} /\ tar = dump.dir /\ ~firefox /\ at' = "load"
            /\ dump.gz <=> dump.dir = "archive"
            /\ dump.files.whole /\ dump.files.store = profile.store /\ dump.files.wal = profile.wal
        BY <1>1, <1>3, <2>2, <2>6 DEF InTheMaking, DumpGoing
      <3>2. saved["crash"].gz = None /\ dump.files \in Archived
        BY <1>1, DumpedFields DEF DumpGoing, ProfileTypeOK
      <3>3. Archive(tar)' = dump.files
        BY <1>4, <2>1, <3>1, <3>2, Constants DEF Archive
      <3>4. Version(dump.files) = Version(profile)
        BY <3>1 DEF Version
      <3>5. Usable(tar)' /\ Version(Archive(tar))' = expected.version
        BY <1>3, <2>6, <3>1, <3>2, <3>3, <3>4, Constants DEF InTheMaking, Usable, Version
      <3>6. expected.flash # None =>
              /\ ~recovery /\ ~params.disable_flash
              /\ flash = expected.flash /\ (flash # 0 => saved'[tar].flash = flash)
        BY <1>1, <1>3, <2>1, <2>6, <3>1 DEF InTheMaking, DumpGoing
      <3>7. tar # None /\ expected.settings # None /\ saved'[tar].settings = expected.settings
        BY <1>2, <1>3, <2>1, <2>6, <3>1, Constants DEF InTheMaking
      <3> QED
        BY <1>4, <3>1, <3>5, <3>6, <3>7 DEF InTheArchive
    <2>7. AsBefore'
      BY <1>4, <2>6 DEF AsBefore
    <2>8. MailClient'
      BY <1>1, <1>4, <2>1, <2>2, Constants DEF MailClient
    <2> QED
      BY <2>3, <2>5, <2>7, <2>8 DEF ProfileInv
  <1> QED
    BY <1>6, <1>7, <1>8

(* The archives of commands hold what they are noted to be copies of.      *)
LEMMA CommandDumpsKept ==
  ASSUME ProfileInv, CommandDumps, ProfilesNext
  PROVE  CommandDumps'
  <1>1. /\ ProfileTypeOK /\ (Dumping <=> dump.dir # None)
        /\ at \in {"running"} \/ Dumping => settings # None
    BY DEF ProfileInv, DumpGoing
  <1>2. "user" \in Directory /\ dump \in Dumped /\ dump.gz \in BOOLEAN /\ dump.still \in BOOLEAN
    BY <1>1, DumpedFields DEF ProfileTypeOK, Directory
  <1>3. CASE Load \/ ChooseSettings \/ Configure \/ StartFirefox \/ StartFails \/ ClearProfile
              \/ StartFromDump
    <2>1. ~Dumping /\ UNCHANGED <<dump, saved, dumped>>
      BY <1>3 DEF Load, ChooseSettings, Configure, StartFirefox, StartFails, ClearProfile,
                  StartFromDump, Dumping, history
    <2> QED
      BY <1>1, <2>1, Constants DEF CommandDumps, GzGoing, TarGoing, Holds, Version
  <1>4. CASE Browse \/ Checkpoint
    <2>1. dump' = [dump EXCEPT !.still = FALSE] /\ UNCHANGED <<at, saved, dumped>>
      BY <1>4 DEF Browse, Checkpoint, history
    <2>2. /\ dump'.dir = dump.dir /\ (dump'.gz <=> dump.gz) /\ dump'.files = dump.files
          /\ ~dump'.still
      BY <1>2, <2>1, DumpStirred
    <2> QED
      BY <1>1, <2>1, <2>2 DEF CommandDumps, GzGoing, TarGoing, Holds, Version
  <1>5. CASE CrashDump \/ ArchiveDump
    <2>1. /\ ~Dumping /\ dumped' = dumped
          /\ BeginDump("crash", FALSE, FALSE) \/ BeginDump("archive", TRUE, ~params.disable_flash)
      BY <1>5 DEF CrashDump, ArchiveDump, Dumping
    <2>2. (~params.disable_flash) \in BOOLEAN
      BY <1>1, ParamsChanged DEF ProfileTypeOK
    <2>3. dump'.dir # "user" /\ saved'["user"] = saved["user"]
      BY <1>1, <1>2, <2>1, <2>2, DumpBegun DEF Directory
    <2>4. dump.dir # "user"
      BY <1>1, <2>1, Constants
    <2> QED
      BY <2>1, <2>3, <2>4 DEF CommandDumps, GzGoing, TarGoing, Holds, Version
  <1>6. CASE DumpCommand
    <2>1. PICK gz \in BOOLEAN : BeginDump("user", gz, FALSE) /\ CopyOf(gz, 0)
      BY <1>6 DEF DumpCommand
    <2>2. at = "running" /\ at' \in {"checkpoint", "store"}
      BY <1>6 DEF DumpCommand
    <2>3. /\ dump'.dir = "user" /\ (dump'.gz <=> gz)
          /\ saved'["user"].settings = saved["user"].settings
          /\ gz => saved'["user"].tar = saved["user"].tar
          /\ ~gz => saved'["user"].gz = saved["user"].gz
      BY <1>1, <1>2, <2>1, DumpBegun
    <2>4. /\ dumped'.settings = dumped.settings
          /\ gz => dumped'.gz = 0 /\ dumped'.tar = dumped.tar
          /\ ~gz => dumped'.gz = dumped.gz /\ dumped'.tar = 0
      BY <1>1, <2>1, CopyNoted
    <2>5. ~GzGoing /\ ~TarGoing
      BY <1>1, <2>2, Constants DEF Dumping, GzGoing, TarGoing
    <2> QED
      BY <2>2, <2>3, <2>4, <2>5, Constants DEF CommandDumps, GzGoing, TarGoing, Holds, Version
  <1>7. CASE WaitForCheckpoint
    <2>1. at = "checkpoint" /\ at' = "store" /\ UNCHANGED <<dump, saved, dumped>>
      BY <1>7 DEF WaitForCheckpoint, history
    <2> QED
      BY <2>1 DEF CommandDumps, GzGoing, TarGoing, Holds, Version
  <1>8. CASE DumpTimesOut
    <2>1. /\ dump.dir = "user" /\ dump.files \in Archived /\ CopyOf(dump.gz, 0) /\ dump' = NoDump
      BY <1>2, <1>8, DumpedFields DEF DumpTimesOut
    <2>2. PICK whole \in BOOLEAN :
            Put("user", dump.gz, [store |-> dump.files.store, wal |-> dump.files.wal, whole |-> whole])
      <3>1. at \in {"wal", "close"} \/ at \notin {"wal", "close"}
        OBVIOUS
      <3> QED
        BY <1>8, <3>1 DEF DumpTimesOut
    <2>3. [store |-> dump.files.store, wal |-> dump.files.wal, whole |-> whole] \in MaybeArchived
      BY <2>1, ArchivedFields, ArchivedMade DEF MaybeArchived
    <2>4. /\ saved'["user"].settings = saved["user"].settings
          /\ dump.gz => saved'["user"].tar = saved["user"].tar
          /\ ~dump.gz => saved'["user"].gz = saved["user"].gz
      BY <1>1, <1>2, <2>2, <2>3, ArchivePut
    <2>5. /\ dumped'.settings = dumped.settings
          /\ dump.gz => dumped'.gz = 0 /\ dumped'.tar = dumped.tar
          /\ ~dump.gz => dumped'.gz = dumped.gz /\ dumped'.tar = 0
      BY <1>1, <1>2, <2>1, CopyNoted
    <2>6. dump'.dir = None
      BY <2>1, Constants
    <2> QED
      BY <2>1, <2>4, <2>5, <2>6, Constants DEF CommandDumps, GzGoing, TarGoing, Holds, Version
  <1>9. CASE AddStore
    <2>1. at = "store" /\ dump.dir # None /\ dump.dir \in Directory
      BY <1>1, <1>2, <1>9, DumpedFields DEF AddStore, Dumping
    <2>2. /\ profile.store = 0 => /\ dump'.dir = None
                                  /\ saved'[dump.dir].settings = saved[dump.dir].settings
                                  /\ dump.gz => saved'[dump.dir].tar = saved[dump.dir].tar
                                  /\ ~dump.gz => saved'[dump.dir].gz = saved[dump.dir].gz
          /\ profile.store # 0 => /\ dump'.dir = dump.dir /\ dump'.gz = dump.gz
                                  /\ dump'.files.store = profile.store /\ saved' = saved
          /\ \A e \in Directory : e # dump.dir => saved'[e] = saved[e]
      BY <1>1, <1>9, <2>1, StoreAdded
    <2>3. /\ dumped' = dumped /\ profile' = profile
          /\ profile.store # 0 => at' = "wal"
      BY <1>9 DEF AddStore, history
    <2>4. CASE dump.dir # "user"
      <3>1. saved'["user"] = saved["user"] /\ dump'.dir # "user"
        BY <1>2, <2>2, <2>4, Constants
      <3> QED
        BY <2>3, <2>4, <3>1 DEF CommandDumps, GzGoing, TarGoing, Holds, Version
    <2>5. CASE dump.dir = "user" /\ profile.store = 0
      BY <2>1, <2>2, <2>3, <2>5, Constants DEF CommandDumps, GzGoing, TarGoing, Holds, Version
    <2>6. CASE dump.dir = "user" /\ profile.store # 0
      BY <2>1, <2>2, <2>3, <2>6 DEF CommandDumps, GzGoing, TarGoing, Holds, Version
    <2> QED
      BY <2>4, <2>5, <2>6
  <1>10. CASE AddLog
    <2>1. at = "wal" /\ at' = "close" /\ dump.dir # None /\ UNCHANGED <<saved, profile>>
      BY <1>1, <1>10 DEF AddLog, Dumping
    <2>2. /\ dump'.dir = dump.dir /\ dump'.gz = dump.gz /\ dump'.files.whole
          /\ dump'.files.store = dump.files.store /\ dump'.files.wal = profile.wal
          /\ dump.dir # "user" => dumped' = dumped
          /\ dump.dir = "user" => CopyOf(dump.gz, IF dump.still THEN Version(profile) ELSE 0)
          /\ dump' \in Dumped
      BY <1>1, <1>10, <2>1, LogAdded
    <2>3. CASE dump.dir # "user"
      BY <2>1, <2>2, <2>3 DEF CommandDumps, GzGoing, TarGoing, Holds, Version
    <2>4. CASE dump.dir = "user"
      <3> DEFINE version == IF dump.still THEN Version(profile) ELSE 0
      <3>1. version \in Nat
        BY <1>1, ProfileFields DEF ProfileTypeOK, Version
      <3>2. /\ dumped'.settings = dumped.settings
            /\ dump.gz => dumped'.gz = version /\ dumped'.tar = dumped.tar
            /\ ~dump.gz => dumped'.gz = dumped.gz /\ dumped'.tar = version
        <4> HIDE DEF version
        <4>1. CopyOf(dump.gz, version)
          BY <2>2, <2>4 DEF version
        <4> QED
          BY <1>1, <1>2, <3>1, <4>1, CopyNoted
      <3>3. dump.still => dump.files.store = profile.store
        BY <2>1, <2>4 DEF CommandDumps
      <3>4. Holds(version, dump'.files)
        <4>1. dump'.files # None
          BY <2>2, DumpedFields, Constants
        <4> QED
          BY <2>2, <3>3, <4>1 DEF Holds, Version
      <3>5. version # None
        BY <3>1, Constants
      <3> HIDE DEF version
      <3>6. CASE dump.gz
        <4>1. GzGoing /\ ~TarGoing /\ GzGoing' /\ ~TarGoing'
          BY <2>2, <2>4, <3>6 DEF GzGoing, TarGoing
        <4>2. Holds(dumped.tar, saved["user"].tar)' /\ Holds(dumped.gz, dump.files)'
          BY <2>1, <3>2, <3>4, <3>6, <4>1 DEF CommandDumps, Holds, Version
        <4> QED
          BY <2>1, <3>2, <3>5, <3>6, <4>1, <4>2 DEF CommandDumps
      <3>7. CASE ~dump.gz
        <4>1. ~GzGoing /\ TarGoing /\ ~GzGoing' /\ TarGoing'
          BY <2>2, <2>4, <3>7 DEF GzGoing, TarGoing
        <4>2. Holds(dumped.gz, saved["user"].gz)' /\ Holds(dumped.tar, dump.files)'
          BY <2>1, <3>2, <3>4, <3>7, <4>1 DEF CommandDumps, Holds, Version
        <4> QED
          BY <2>1, <3>2, <3>7, <4>1, <4>2 DEF CommandDumps
      <3> QED
        BY <3>6, <3>7
    <2> QED
      BY <2>3, <2>4
  <1>11. CASE FinishDump
    <2>1. at = "close" /\ dump.dir # None /\ settings # None
      BY <1>1, <1>11 DEF FinishDump, Dumping
    <2>2. /\ dump'.dir = None /\ saved'[dump.dir].settings = settings
          /\ dump.gz => /\ saved'[dump.dir].gz = dump.files
                        /\ saved'[dump.dir].tar = saved[dump.dir].tar
          /\ ~dump.gz => /\ saved'[dump.dir].tar = dump.files
                         /\ saved'[dump.dir].gz = saved[dump.dir].gz
          /\ dumped'.gz = dumped.gz /\ dumped'.tar = dumped.tar
          /\ dumped'.settings = IF dump.dir = "user" THEN settings ELSE dumped.settings
          /\ \A e \in Directory : e # dump.dir => saved'[e] = saved[e]
      BY <1>1, <1>11, <2>1, DumpFinished
    <2>3. CASE dump.dir # "user"
      <3>1. saved'["user"] = saved["user"] /\ dump'.dir # "user"
        BY <1>2, <2>2, <2>3, Constants
      <3> QED
        BY <2>2, <2>3, <3>1 DEF CommandDumps, GzGoing, TarGoing, Holds, Version
    <2>4. CASE dump.dir = "user"
      BY <2>1, <2>2, <2>4, Constants DEF CommandDumps, GzGoing, TarGoing, Holds, Version
    <2> QED
      BY <2>3, <2>4
  <1> QED
    BY <1>3, <1>4, <1>5, <1>6, <1>7, <1>8, <1>9, <1>10, <1>11 DEF ProfilesNext

LEMMA ProfilesStepKeeps ==
  ASSUME ProfileInv, CommandDumps, ProfilesNext
  PROVE  ProfileInv' /\ CommandDumps'
  BY LoadKeeps, StartingKeeps, BrowsingKeeps, BeginningKeeps, DumpStarted, DumpingKeeps,
     CommandDumpsKept DEF ProfilesNext

(* The next browser has what the last one had, after a crash, in the next  *)
(* crawl, from the archive of a command, or nothing of it if the profile   *)
(* was to be cleared; and that of a mail client never runs JavaScript.     *)
THEOREM BrowserRestored == Spec => []Restored
  <1> DEFINE Inv == ProfileInv /\ CommandDumps
  <1>1. Init => Inv
    <2> SUFFICES ASSUME Init PROVE Inv
      OBVIOUS
    <2>1. /\ at = "load" /\ params \in Params /\ tar \in {None, "archive"} /\ recovery = FALSE
          /\ profile = New /\ settings = None /\ prefs = {} /\ flash = 0 /\ firefox = FALSE
          /\ dump = NoDump /\ saved = [d \in Directory |-> EmptyDir]
          /\ writes = 0 /\ expected = None
          /\ dumped = [gz |-> None, tar |-> None, settings |-> None]
      BY DEF Init, ProfilesInit
    <2>2. /\ EmptyDir \in Kept /\ EmptyDir.gz = None /\ EmptyDir.settings = None
          /\ None \in Settings /\ dumped \in Copies
      BY <2>1 DEF EmptyDir, Kept, MaybeArchived, Settings, Copies, MaybeCopy
    <2>3. params \in BrowserParams /\ "crash" \in Directory /\ "user" \in Directory
      BY <2>1, ProfilesAssumption DEF Directory
    <2>4. ProfileTypeOK
      <3>1. saved \in [Directory -> Kept] /\ dump \in Dumped /\ profile \in Profile
        BY <2>1, <2>2, Constants
      <3>2. settings \in Settings /\ dumped \in Copies /\ tar \in Directory \cup {None}
        BY <2>1, <2>2 DEF Directory
      <3>3. at = "load" /\ recovery \in BOOLEAN /\ firefox \in BOOLEAN /\ flash \in Nat /\ writes \in Nat
        BY <2>1
      <3> QED
        BY <2>3, <3>1, <3>2, <3>3 DEF ProfileTypeOK
    <2>5. DumpGoing
      BY <2>1, <2>2, <2>3, Constants DEF DumpGoing, Dumping
    <2>6. AsBefore
      BY <2>1 DEF AsBefore
    <2>7. MailClient
      BY <2>1, Constants DEF MailClient
    <2>8. CommandDumps
      BY <2>1, <2>2, <2>3, Constants DEF CommandDumps, GzGoing, TarGoing, Holds
    <2> QED
      BY <2>4, <2>5, <2>6, <2>7, <2>8 DEF ProfileInv
  <1>2. Inv /\ [Next]_vars => Inv'
    <2>1. ProfileInv /\ UNCHANGED profileVars => ProfileInv'
      BY DEF profileVars, history, ProfileInv, ProfileTypeOK, DumpGoing, Dumping, AsBefore,
             InTheMaking, InTheArchive, Matches, MailClient, Version, Usable, Archive
    <2>2. CommandDumps /\ UNCHANGED profileVars => CommandDumps'
      BY DEF profileVars, history, CommandDumps, GzGoing, TarGoing, Holds, Version
    <2> QED
      BY <2>1, <2>2, ProfilesStep, ProfilesStepKeeps
  <1>3. Inv => Restored
    <2> SUFFICES ASSUME ProfileInv PROVE Restored
      OBVIOUS
    <2>1. /\ expected # None /\ at \in {"settings", "configure", "start"} =>
               Matches /\ (InTheArchive \/ InTheMaking)
      BY DEF ProfileInv, AsBefore
    <2>6. expected # None /\ at \in {"settings", "configure", "start"} /\ expected.flash # None =>
            flash = expected.flash
      BY <2>1 DEF InTheArchive, InTheMaking
    <2>2. at = "running" => (profile.js <=> ~params.spoof_mailclient)
      BY DEF ProfileInv, MailClient
    <2>3. profile.js \in BOOLEAN /\ params.spoof_mailclient \in BOOLEAN
      BY ProfileFields, ParamsChanged DEF ProfileInv, ProfileTypeOK
    <2>4. at = "running" => profile.js = ~params.spoof_mailclient
      BY <2>2, <2>3
    <2>5. at = "running" /\ params.spoof_mailclient => "no_referrer" \in prefs
      BY DEF ProfileInv, MailClient
    <2> QED
      BY <2>1, <2>4, <2>5, <2>6 DEF Restored, Matches
  <1> HIDE DEF Inv
  <1> QED
    BY <1>1, <1>2, <1>3, PTL DEF Spec

-----------------------------------------------------------------------------
(* Hostnames.  The longest public suffix of a name that is under one is a  *)
(* proper suffix of it, and no longer suffix is public: so it is the one   *)
(* that Registered chooses, less a label.                                  *)

(* The last n labels of a host.                                            *)
LEMMA SuffixOfHost ==
  ASSUME NEW host \in Seq(Labels), NEW n \in 1 .. Len(host)
  PROVE  /\ Suffix(host, n) \in Seq(Labels)
         /\ Len(Suffix(host, n)) = n
         /\ n = Len(host) => Suffix(host, n) = host
  <1>1. Len(host) \in Nat /\ host \in [1 .. Len(host) -> Labels]
    BY LenProperties
  <1>2. \A k \in Len(host) - n + 1 .. Len(host) : host[k] \in Labels
    BY <1>1
  <1>3. Len(host) - n + 1 \in Int /\ Len(host) - n + 1 <= Len(host)
    BY <1>1
  <1>4. Suffix(host, n) \in Seq(Labels) /\ Len(Suffix(host, n)) = n
    BY <1>1, <1>2, <1>3, SubSeqProperties DEF Suffix
  <1>5. n = Len(host) => Suffix(host, n) = host
    BY <1>1, SubSeqFull DEF Suffix
  <1> QED
    BY <1>4, <1>5

(* What get_public_suffix returns for a named host, and how many labels    *)
(* that has.                                                               *)
LEMMA RegisteredSuffix ==
  ASSUME NEW host \in Named
  PROVE  /\ host \in Seq(Labels) /\ host \notin Addresses /\ host # None
         /\ PublicSuffix(Whole, host) = Registered(host)
         /\ \E n \in 2 .. Len(host) : Registered(host) = Suffix(host, n)
  <1>1. /\ host \in Seq(Labels) /\ host # <<>> /\ host \notin Addresses /\ host # None
        /\ Suffix(host, 1) \in Whole /\ host \notin Whole
    BY DomainsAssumption DEF Named
  <1>2. Len(host) \in Nat \ {0}
    BY <1>1, EmptySeq, LenProperties
  <1> DEFINE fits == {n \in 1 .. Len(host) : Suffix(host, n) \in Whole} \cup {1}
             Longest(n) == n \in fits /\ \A m \in fits : m <= n
             Chosen(n) == /\ n \in 2 .. Len(host)
                          /\ Suffix(host, n - 1) \in Whole
                          /\ \A k \in n .. Len(host) : Suffix(host, k) \notin Whole
  <1>3. fits \in SUBSET (0 .. Len(host)) /\ fits # {}
    BY <1>2
  <1>4. PICK n \in fits : \A m \in fits : m <= n
    <2> HIDE DEF fits
    <2> QED
      BY <1>2, <1>3, Greatest
  <1>5. n \in 1 .. Len(host) /\ Suffix(host, n) \in Whole
    BY <1>1, <1>2, <1>4
  <1>6. n # Len(host)
    BY <1>1, <1>5, SuffixOfHost
  <1> DEFINE longest == CHOOSE m \in fits : \A k \in fits : k <= m
  <1>7. longest = n
    <2>1. \A m \in fits : (\A k \in fits : k <= m) => m = n
      BY <1>3, <1>4
    <2> HIDE DEF fits
    <2> QED
      BY <1>4, <2>1
  <1>8. PublicSuffix(Whole, host) = Suffix(host, n + 1)
    <2>1. PublicSuffix(Whole, host) =
            IF longest < Len(host) THEN Suffix(host, longest + 1) ELSE host
      BY Zenon DEF PublicSuffix
    <2> HIDE DEF longest
    <2> QED
      BY <1>2, <1>5, <1>6, <1>7, <2>1
  <1>9. Chosen(n + 1)
    <2>1. n + 1 \in 2 .. Len(host) /\ (n + 1) - 1 = n
      BY <1>2, <1>5, <1>6
    <2>2. ASSUME NEW k \in n + 1 .. Len(host)  PROVE Suffix(host, k) \notin Whole
      BY <1>2, <1>4, <1>5
    <2> QED
      BY <1>5, <2>1, <2>2
  <1>10. \A m : Chosen(m) => m = n + 1
    <2>1. SUFFICES ASSUME NEW m, Chosen(m)  PROVE m = n + 1
      OBVIOUS
    <2>2. m - 1 \in fits /\ m - 1 <= n
      BY <1>2, <1>4, <2>1
    <2>3. ~ (n \in m .. Len(host))
      BY <1>5, <2>1
    <2> QED
      BY <1>2, <1>5, <2>1, <2>2, <2>3
  <1>11. Registered(host) = Suffix(host, n + 1)
    <2>1. (CHOOSE m \in 2 .. Len(host) :
             /\ Suffix(host, m - 1) \in Whole
             /\ \A k \in m .. Len(host) : Suffix(host, k) \notin Whole) = n + 1
      <3>1. n + 1 \in 2 .. Len(host)
        BY <1>9
      <3> QED
        BY <1>9, <1>10, <3>1, Zenon
    <2> QED
      BY <2>1 DEF Registered
  <1> QED
    BY <1>1, <1>8, <1>9, <1>11

(* The parts of a host: one for each label before what is registered, and  *)
(* that.  Part k of the host is its suffix of k - 1 labels less.           *)
LEMMA PartsOfHost ==
  ASSUME NEW host \in Seq(Labels), NEW r \in 2 .. Len(host), host \notin Addresses,
         PublicSuffix(Whole, host) = Suffix(host, r)
  PROVE  LET parts == hostname_subparts(Whole, host, FALSE)
         IN {parts[n] : n \in DOMAIN parts} = {Suffix(host, n) : n \in r .. Len(host)}
  <1> DEFINE base  == Suffix(host, r)
             cut   == Len(host) - r
             above == [k \in 1 .. cut |-> SubSeq(host, k, Len(host))]
             parts == above \o <<base>>
  <1>1. Len(host) \in Nat /\ cut \in Nat /\ Len(base) = r /\ base \in Seq(Labels)
    BY LenProperties, SuffixOfHost
  <1>2. hostname_subparts(Whole, host, FALSE) = parts \o <<>>
    BY <1>1 DEF hostname_subparts
  <1>3. \A k \in 1 .. cut : above[k] = Suffix(host, Len(host) - k + 1)
    BY <1>1 DEF Suffix
  <1>4. above \in Seq(Seq(Labels)) /\ Len(above) = cut
    <2>1. \A k \in 1 .. cut : above[k] \in Seq(Labels)
      BY <1>1, <1>3, SuffixOfHost
    <2> QED
      BY <1>1, <2>1
  <1>5. parts \in Seq(Seq(Labels)) /\ <<base>> \in Seq(Seq(Labels)) /\ Len(parts) = cut + 1
        /\ (\A k \in 1 .. cut : parts[k] = above[k]) /\ parts[cut + 1] = base
    <2> HIDE DEF base, cut, above
    <2> QED
      BY <1>1, <1>4, ConcatProperties
  <1>6. parts \o <<>> = parts /\ DOMAIN parts = 1 .. cut + 1
    <2> HIDE DEF parts, cut
    <2> QED
      BY <1>5, ConcatEmptySeq, LenProperties
  <1>7. \A k \in 1 .. cut + 1 : parts[k] = Suffix(host, Len(host) - k + 1)
    <2> SUFFICES ASSUME NEW k \in 1 .. cut + 1
                 PROVE  parts[k] = Suffix(host, Len(host) - k + 1)
      OBVIOUS
    <2>1. CASE k \in 1 .. cut
      BY <1>3, <1>5, <2>1
    <2>2. CASE k = cut + 1
      <3>1. Len(host) - k + 1 = r
        BY <1>1, <2>2
      <3> QED
        BY <1>5, <2>2, <3>1
    <2> QED
      BY <1>1, <2>1, <2>2
  <1>8. {parts[n] : n \in DOMAIN parts} = {Suffix(host, n) : n \in r .. Len(host)}
    <2> HIDE DEF parts
    <2>1. ASSUME NEW n \in DOMAIN parts
          PROVE  \E m \in r .. Len(host) : parts[n] = Suffix(host, m)
      <3>1. n \in 1 .. cut + 1 /\ Len(host) - n + 1 \in r .. Len(host)
        BY <1>1, <1>6
      <3> QED
        BY <1>7, <3>1
    <2>2. ASSUME NEW m \in r .. Len(host)
          PROVE  \E n \in DOMAIN parts : parts[n] = Suffix(host, m)
      <3>1. Len(host) - m + 1 \in 1 .. cut + 1
            /\ Len(host) - (Len(host) - m + 1) + 1 = m
        BY <1>1
      <3> QED
        BY <1>6, <1>7, <3>1
    <2> QED
      BY <2>1, <2>2
  <1> QED
    BY <1>2, <1>6, <1>8

(* With the whole list, each child finds what is registered of a hostname, *)
(* and the names from the hostname down to that: get_ps_plus_1 and         *)
(* hostname_subparts of domain_utils, for any list and any hostnames.      *)
THEOREM HostsToldApart == Spec => []SitesToldApart
  <1>1. SitesToldApart
    <2> SUFFICES ASSUME NEW host \in Named
                 PROVE  /\ get_ps_plus_1(Whole, host) = Registered(host)
                        /\ LET parts == hostname_subparts(Whole, host, FALSE)
                           IN {parts[n] : n \in DOMAIN parts} =
                                {Suffix(host, n) : n \in Len(Registered(host)) .. Len(host)}
      BY DEF SitesToldApart
    <2>1. PICK r \in 2 .. Len(host) : Registered(host) = Suffix(host, r)
      BY RegisteredSuffix
    <2>2. Len(Registered(host)) = r
      <3>1. Len(host) \in Nat /\ r \in 1 .. Len(host)
        BY RegisteredSuffix, LenProperties
      <3> QED
        BY <2>1, <3>1, RegisteredSuffix, SuffixOfHost
    <2>3. get_ps_plus_1(Whole, host) = Registered(host)
      BY RegisteredSuffix DEF get_ps_plus_1
    <2> QED
      BY <2>1, <2>2, <2>3, RegisteredSuffix, PartsOfHost
  <1> QED
    BY <1>1, PTL

-----------------------------------------------------------------------------
(* Cookie tables.  However often build_http_cookie_table is interrupted,   *)
(* stopped by a header that it cannot parse, or run again, each header has *)
(* either no rows or exactly the rows of its strings, and none lacks them  *)
(* when a run has been complete; for any databases, strings and COMMIT.    *)
THEOREM CookieTablesBuilt == Spec => []CookieRowsOnce
  <1> DEFINE Inv == CookieTypeOK /\ CookieInv
  <1>1. Init => Inv
    BY CookieTableBegins DEF Init
  <1>2. Inv /\ [Next]_vars => Inv'
    <2>1. [Next]_vars => CookieTableNext \/ UNCHANGED cookieTableVars
      BY DEF Next, vars, OfProxy
    <2> QED
      BY <2>1, CookieTableKeeps
  <1>3. Inv => CookieRowsOnce
    BY CookiesOnce
  <1> HIDE DEF Inv
  <1> QED
    BY <1>1, <1>2, <1>3, PTL DEF Spec
=============================================================================
