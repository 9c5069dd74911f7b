------------------------------- MODULE WebApi -------------------------------
(***************************************************************************)
(* The HTTP interface of the mail server (WebServer.java): /register hands *)
(* out email addresses to the sign-up crawler, /visit hands out a group of *)
(* links found in mails to the crawler that clicks them, /results takes    *)
(* back the requests those clicks caused.  Spark runs the handlers on its  *)
(* own threads; clients may be slow, retry, or post results twice.         *)
(***************************************************************************)
EXTENDS MailDB

CONSTANTS
  WebThread,    \* threads of the web server
  Report,       \* the request lists a client may post
  MaxRequests   \* bound: requests made by all clients

ASSUME WebApiAssumption ==
  /\ WebThread \subseteq Thread
  /\ Report \subseteq Seq(URL)
  /\ MaxRequests \in Nat

VARIABLES
  web,       \* the state of each handler thread
  requests,  \* requests made (bounded by MaxRequests)
  issued,    \* issued[a]: how often /register answered a
  offered,   \* ids of the groups /visit answered
  accepted   \* the results answered with 200: group and requests

webVars == <<web, requests, issued, offered, accepted>>

NoRequest == [pc |-> "idle"]

Respond(w) == web' = [web EXCEPT ![w] = NoRequest]

Begin(w, state) ==
  /\ web[w].pc = "idle" /\ requests < MaxRequests
  /\ requests' = requests + 1
  /\ web' = [web EXCEPT ![w] = state]
  /\ UNCHANGED <<issued, offered, accepted, dbVars>>

-----------------------------------------------------------------------------
(* POST /register.  Three attempts at an address that is not taken.        *)

PostRegister(w) ==
  \E d \in Domain : Begin(w, [pc |-> "register", domain |-> d, retries |-> 3])

(* A mutant: whether the row was new is not looked at.                     *)
GenerateAddressUnchecked(w) ==
  /\ web[w].pc = "register" /\ Works({"users"})
  /\ \E a \in Address :
       /\ AddMailUser(a, web[w].domain)
       /\ Respond(w) /\ issued' = [issued EXCEPT ![a] = @ + 1]
  /\ UNCHANGED <<requests, offered, accepted, mailVars, leakVars, groupVars, redirects,
                 faults>>

GenerateAddress(w) ==
  /\ web[w].pc = "register"
  /\ \/ /\ Works({"users"}) /\ UNCHANGED faults
        /\ \E a \in Address :
             /\ AddMailUser(a, web[w].domain)
             /\ IF a \notin users
                THEN Respond(w) /\ issued' = [issued EXCEPT ![a] = @ + 1]
                ELSE /\ UNCHANGED issued
                     /\ IF web[w].retries > 1
                        THEN web' = [web EXCEPT ![w].retries = @ - 1]
                        ELSE Respond(w)
     \/ /\ Throws({"users"}) /\ Respond(w) /\ UNCHANGED <<userVars, issued>>
  /\ UNCHANGED <<requests, offered, accepted, mailVars, leakVars, groupVars, redirects>>

-----------------------------------------------------------------------------
(* GET /visit.  Any group; it stays in the table and is not reserved.      *)
GetVisit(w) ==
  /\ web[w].pc = "idle" /\ requests < MaxRequests
  /\ requests' = requests + 1
  /\ \/ /\ Works({"link_groups"}) /\ UNCHANGED faults
        /\ \/ \E g \in linkGroups : offered' = offered \cup {g.id}
           \/ linkGroups = {} /\ UNCHANGED offered
     \/ Throws({"link_groups"}) /\ UNCHANGED offered
  /\ UNCHANGED <<web, issued, accepted, userVars, mailVars, leakVars, groupVars,
                 redirects>>

-----------------------------------------------------------------------------
(* POST /results                                                           *)

(* For a group the client was once given, or for an id no group has.       *)
PostResults(w) ==
  \E id \in offered \cup {0}, r \in Report :
    Begin(w, [pc |-> "group", id |-> id, report |-> r])

(* getLinkGroup: the group is read once and used until the end.            *)
LookUpGroup(w) ==
  LET s == web[w] IN
  /\ s.pc = "group"
  /\ \/ /\ Works({"link_groups"}) /\ UNCHANGED faults
        /\ \/ \E g \in linkGroups :
                /\ g.id = s.id
                /\ web' = [web EXCEPT ![w] = [pc |-> "user", group |-> g,
                                              report |-> s.report]]
           \/ (\A g \in linkGroups : g.id # s.id) /\ Respond(w)
     \/ Throws({"link_groups"}) /\ Respond(w)
  /\ UNCHANGED <<requests, issued, offered, accepted,
                 userVars, mailVars, leakVars, groupVars, redirects>>

(* The URLs of the group itself.                                           *)
BaseUrls(g) == {g.urls[i] : i \in DOMAIN g.urls}

(* getUserInfo, and the search for leaks begins.                           *)
LookUpRecipient(w) ==
  LET s == web[w]
      a == s.group.recipient IN
  /\ s.pc = "user"
  /\ \/ /\ Works({"users", "counters"}) /\ a \in users /\ UNCHANGED faults
        /\ web' = [web EXCEPT ![w].pc = "leaks"]
        /\ FindLeakedEmailAddress(w, a, s.group.domain, "link", BaseUrls(s.group), s.report)
     \/ /\ Works({"users", "counters"}) /\ a \notin users /\ UNCHANGED <<faults, leakVars>>
        /\ Respond(w)
     \/ /\ Throws({"users", "counters"}) /\ UNCHANGED leakVars
        /\ Respond(w)
  /\ UNCHANGED <<requests, issued, offered, accepted,
                 userVars, mailVars, groupVars, redirects>>

RecordLinkLeak(w) ==
  /\ RecordLeak(w)
  /\ UNCHANGED webVars

(* An exception while recording: 500, and the group stays.                 *)
ResultsFailed(w) ==
  /\ web[w].pc = "leaks" /\ leak[w] = Failed
  /\ leak' = [leak EXCEPT ![w] = Idle]
  /\ Respond(w)
  /\ UNCHANGED <<requests, issued, offered, accepted,
                 userVars, mailVars, groupVars, redirects, faults,
                 leakCount, tpLeakCount, leakedEmails, leakRows, tpLeakRows>>

(* All recorded: the group is removed, or fails to be, and the answer is   *)
(* 200 either way.                                                         *)
RemoveGroup(w) ==
  LET s == web[w] IN
  /\ s.pc = "leaks" /\ leak[w] = Idle
  /\ \/ /\ Works({"link_groups"}) /\ UNCHANGED faults
        /\ RemoveLinkGroup(s.group.id)
     \/ Throws({"link_groups"}) /\ UNCHANGED linkGroups
  /\ accepted' = accepted \cup {[group |-> s.group, report |-> s.report]}
  /\ Respond(w)
  /\ UNCHANGED <<requests, issued, offered, nextGroup,
                 userVars, mailVars, leakVars, redirects>>

WebStep(w) ==
  \/ GenerateAddress(w)
  \/ LookUpGroup(w) \/ LookUpRecipient(w) \/ ResultsFailed(w) \/ RemoveGroup(w)
  \/ RecordLinkLeak(w)

Client(w) == PostRegister(w) \/ GetVisit(w) \/ PostResults(w)

-----------------------------------------------------------------------------
WebInit ==
  /\ web = [w \in WebThread |-> NoRequest]
  /\ requests = 0
  /\ issued = [a \in Address |-> 0]
  /\ offered = {}
  /\ accepted = {}

WebNext == \E w \in WebThread : WebStep(w) \/ Client(w)

WebTypeOK ==
  /\ web \in [WebThread ->
       {NoRequest}
       \cup [pc : {"register"}, domain : Domain, retries : 1 .. 3]
       \cup [pc : {"group"}, id : Nat, report : Report]
       \cup [pc : {"user", "leaks"}, group : LinkGroup, report : Report]]
  /\ requests \in 0 .. MaxRequests
  /\ issued \in [Address -> Nat]
  /\ offered \subseteq Nat
  /\ accepted \subseteq [group : LinkGroup, report : Report]
=============================================================================
