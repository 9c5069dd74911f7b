------------------------------- MODULE MailDB -------------------------------
(***************************************************************************)
(* The database of the mail server (MailDB.java over MySQL) and the one    *)
(* multi-statement routine that every part of the server runs against it,  *)
(* the recording of leaked email addresses.                                *)
(*                                                                         *)
(* The tables are MyISAM: a statement is atomic, and there is no           *)
(* transaction around the two or three statements of a method.  So a       *)
(* statement is an operator or an action of its own, threads interleave    *)
(* between statements, and a statement may throw an SQLException after its *)
(* predecessor took effect.                                                *)
(***************************************************************************)
EXTENDS Integers, FiniteSets, Sequences

CONSTANTS
  Address,       \* the email addresses mail can be sent to
  URL,           \* the URLs in mails, in redirects and in reported requests
  Thread,        \* every thread that uses the database
  NoDomain,      \* what the code stores when it finds no domain: ""
  DomainOf,      \* DomainOf[u]: registered domain of u, or NoDomain
  Encodings,     \* Encodings[u]: how many encodings of the address occur in u
  Registrations, \* which addresses may have registered before, for what domain
  Schema,        \* which tables, and which columns added to users, exist
  MaxFaults      \* bound: how many statements or file writes may fail

(* What the code queries.  "counters" stands for users.leak_count and      *)
(* users.tp_leak_count.                                                    *)
Tables == {"users", "inbox", "counters", "leaked_emails", "link_groups",
           "redirects"}

Domain == {NoDomain} \cup {DomainOf[u] : u \in URL}

(* What the shipped sql-files/main.sql creates.                            *)
ShippedSchema == {"users", "inbox"}

ASSUME MailDBAssumption ==
  /\ Address # {}
  /\ Encodings \in [URL -> Nat]
  /\ \A r \in Registrations : DOMAIN r \subseteq Address
  /\ \A r \in Registrations : \A a \in DOMAIN r : r[a] \in Domain
  /\ Schema \subseteq Tables
  /\ MaxFaults \in Nat
  /\ IsFiniteSet(Thread)

VARIABLES
  users,           \* addresses with a row in users
  registerDomain,  \* users.register_domain
  emailsReceived,  \* users.emails_received
  leakCount,       \* users.leak_count
  tpLeakCount,     \* users.tp_leak_count
  inbox,           \* inbox[a]: filenames of the rows of recipient a
  leakedEmails,    \* leaked_emails: the distinct rows
  leakRows,        \* leaked_emails: number of rows of each recipient
  tpLeakRows,      \* ... of those, rows whose domain is not the sender's
  linkGroups,      \* link_groups
  nextGroup,       \* its AUTO_INCREMENT id
  redirects,       \* redirects
  leak,            \* each thread's activation of findLeakedEmailAddress
  faults           \* exceptions so far (bounded by MaxFaults)

userVars  == <<users, registerDomain>>
mailVars  == <<emailsReceived, inbox>>
leakVars  == <<leakCount, tpLeakCount, leakedEmails, leakRows, tpLeakRows, leak>>
groupVars == <<linkGroups, nextGroup>>
dbVars    == <<userVars, mailVars, leakVars, groupVars, redirects, faults>>

-----------------------------------------------------------------------------
(* Exceptions *)

(* A statement over tables T goes through only if they exist ...           *)
Works(T) == T \subseteq Schema

(* ... and otherwise throws, as any statement may, MaxFaults times.        *)
Throws(T) == \/ ~Works(T) /\ UNCHANGED faults
             \/ faults < MaxFaults /\ faults' = faults + 1

-----------------------------------------------------------------------------
(* Single statements *)

(* INSERT IGNORE INTO users: an existing row stays as it is.               *)
AddMailUser(a, d) ==
  /\ users' = users \cup {a}
  /\ registerDomain' = IF a \in users THEN registerDomain
                       ELSE [registerDomain EXCEPT ![a] = d]

UserExists(a) == a \in users

(* The row a caller of getUserInfo keeps while others change the table.    *)
UserInfo(a) == [received |-> emailsReceived[a], domain |-> registerDomain[a]]

(* A mutant: INSERT IGNORE, so that a taken key is counted again.          *)
InsertInboxIgnore(a, f) == inbox' = [inbox EXCEPT ![a] = @ \cup {f}]

(* addMailEntry, first statement; (recipient, filename) is the key.        *)
InsertInbox(a, f) == f \notin inbox[a] /\ inbox' = [inbox EXCEPT ![a] = @ \cup {f}]
InboxKeyTaken(a, f) == f \in inbox[a]

(* addMailEntry, second statement.                                         *)
CountEmail(a) == emailsReceived' = [emailsReceived EXCEPT ![a] = @ + 1]

(* A mutant: ids are not advanced.                                         *)
AddLinkGroupSameId(us, d, a) ==
  /\ linkGroups' = linkGroups \cup
       {[id |-> nextGroup, recipient |-> a, domain |-> d, urls |-> us]}
  /\ UNCHANGED nextGroup

AddLinkGroup(us, d, a) ==
  /\ linkGroups' = linkGroups \cup
       {[id |-> nextGroup, recipient |-> a, domain |-> d, urls |-> us]}
  /\ nextGroup' = nextGroup + 1

RemoveLinkGroup(id) == linkGroups' = {g \in linkGroups : g.id # id}

(* addRedirects, one row: the k-th redirect of a request.                  *)
AddRedirect(a, req, k, target) ==
  redirects' = redirects \cup
    {[recipient |-> a, request |-> req, rank |-> k, target |-> target]}

-----------------------------------------------------------------------------
(* Recording leaks.  MailAnalyzer.findLeakedEmailAddress and               *)
(* WebServer.findLeakedEmailAddress walk over URLs and, for each encoding  *)
(* of the recipient's address that occurs, call addLeakedEmailAddress:     *)
(* INSERT INTO leaked_emails, UPDATE leak_count, UPDATE tp_leak_count.     *)
(* leak[t] is thread t's activation: the statement it is at, the URLs to   *)
(* go (the head is the current one), the encodings left in that one, and   *)
(* the URLs to skip.                                                       *)

Idle   == [step |-> "idle"]
Failed == [step |-> "failed"]

LeakSource == {"mail", "image", "link"}

Activation(a, d, src, skip, us) ==
  IF us = <<>> THEN Idle
  ELSE [step |-> "url", recipient |-> a, domain |-> d, source |-> src,
        skip |-> skip, todo |-> us, left |-> 0]

(* The activation once the current URL is left ...                         *)
NextURL(l) == Activation(l.recipient, l.domain, l.source, l.skip, Tail(l.todo))

(* ... and once the current encoding is recorded.                          *)
NextEncoding(l) ==
  IF l.left > 1 THEN [l EXCEPT !.step = "insert", !.left = @ - 1] ELSE NextURL(l)

(* The URL's domain is known and is not the sender's.                      *)
ThirdParty(l) == DomainOf[Head(l.todo)] \notin {NoDomain, l.domain}

(* Look at the next URL: one that is skipped or does not contain the       *)
(* address writes nothing.                                                 *)
ScanURL(t) ==
  LET l == leak[t]
      u == Head(l.todo) IN
  /\ l.step = "url"
  /\ leak' = [leak EXCEPT ![t] =
       IF u \in l.skip \/ Encodings[u] = 0 THEN NextURL(l)
       ELSE [l EXCEPT !.step = "insert", !.left = Encodings[u]]]
  /\ UNCHANGED <<leakCount, tpLeakCount, leakedEmails, leakRows, tpLeakRows, faults>>

(* A mutant: a row that is already there is not inserted again.            *)
InsertLeakIgnore(t) ==
  LET l == leak[t]
      row == [recipient |-> l.recipient, url |-> Head(l.todo), source |-> l.source] IN
  /\ l.step = "insert" /\ Works({"leaked_emails"})
  /\ leakedEmails' = leakedEmails \cup {row}
  /\ leakRows' = IF row \in leakedEmails THEN leakRows
                 ELSE [leakRows EXCEPT ![l.recipient] = @ + 1]
  /\ leak' = [leak EXCEPT ![t].step = "count"]
  /\ UNCHANGED <<leakCount, tpLeakCount, tpLeakRows, faults>>

InsertLeak(t) ==
  LET l == leak[t] IN
  /\ l.step = "insert" /\ Works({"leaked_emails"})
  /\ leakedEmails' = leakedEmails \cup
       {[recipient |-> l.recipient, url |-> Head(l.todo), source |-> l.source]}
  /\ leakRows' = [leakRows EXCEPT ![l.recipient] = @ + 1]
  /\ tpLeakRows' = IF ThirdParty(l)
                   THEN [tpLeakRows EXCEPT ![l.recipient] = @ + 1] ELSE tpLeakRows
  /\ leak' = [leak EXCEPT ![t].step = "count"]
  /\ UNCHANGED <<leakCount, tpLeakCount, faults>>

(* A mutant: third-party leaks are counted in tp_leak_count only.          *)
CountLeakEither(t) ==
  LET l == leak[t] IN
  /\ l.step = "count" /\ Works({"counters"})
  /\ IF ThirdParty(l)
     THEN /\ leak' = [leak EXCEPT ![t].step = "tpcount"] /\ UNCHANGED leakCount
     ELSE /\ leak' = [leak EXCEPT ![t] = NextEncoding(l)]
          /\ leakCount' = [leakCount EXCEPT ![l.recipient] = @ + 1]
  /\ UNCHANGED <<tpLeakCount, leakedEmails, leakRows, tpLeakRows, faults>>

CountLeak(t) ==
  LET l == leak[t] IN
  /\ l.step = "count" /\ Works({"counters"})
  /\ leakCount' = [leakCount EXCEPT ![l.recipient] = @ + 1]
  /\ leak' = [leak EXCEPT ![t] =
       IF ThirdParty(l) THEN [l EXCEPT !.step = "tpcount"] ELSE NextEncoding(l)]
  /\ UNCHANGED <<tpLeakCount, leakedEmails, leakRows, tpLeakRows, faults>>

CountThirdParty(t) ==
  LET l == leak[t] IN
  /\ l.step = "tpcount" /\ Works({"counters"})
  /\ tpLeakCount' = [tpLeakCount EXCEPT ![l.recipient] = @ + 1]
  /\ leak' = [leak EXCEPT ![t] = NextEncoding(l)]
  /\ UNCHANGED <<leakCount, leakedEmails, leakRows, tpLeakRows, faults>>

(* A mutant: an exception never ends the search.                           *)
LeakThrowsGoesOn(t) ==
  LET l == leak[t] IN
  /\ \/ l.step = "insert" /\ Throws({"leaked_emails"})
     \/ l.step \in {"count", "tpcount"} /\ Throws({"counters"})
  /\ leak' = [leak EXCEPT ![t] = NextURL(l)]
  /\ UNCHANGED <<leakCount, tpLeakCount, leakedEmails, leakRows, tpLeakRows>>

(* A mutant: a failed INSERT is counted all the same.                      *)
LeakThrowsCounts(t) ==
  LET l == leak[t] IN
  /\ l.step = "insert" /\ Throws({"leaked_emails"})
  /\ leak' = [leak EXCEPT ![t].step = "count"]
  /\ UNCHANGED <<leakCount, tpLeakCount, leakedEmails, leakRows, tpLeakRows>>

(* An exception in any of the three.  The analyzer logs it and goes on     *)
(* with the next URL; the web server gives up, and its caller answers 500. *)
LeakThrows(t) ==
  LET l == leak[t] IN
  /\ \/ l.step = "insert" /\ Throws({"leaked_emails"})
     \/ l.step \in {"count", "tpcount"} /\ Throws({"counters"})
  /\ leak' = [leak EXCEPT ![t] =
       IF l.source = "link" THEN Failed ELSE NextURL(l)]
  /\ UNCHANGED <<leakCount, tpLeakCount, leakedEmails, leakRows, tpLeakRows>>

RecordLeak(t) ==
  /\ \/ ScanURL(t) \/ InsertLeak(t) \/ CountLeak(t) \/ CountThirdParty(t)
     \/ LeakThrows(t)
  /\ UNCHANGED <<userVars, mailVars, groupVars, redirects>>

(* A caller starts the recording of the URLs us, in order.                 *)
FindLeakedEmailAddress(t, a, d, src, skip, us) ==
  /\ leak' = [leak EXCEPT ![t] = Activation(a, d, src, skip, us)]
  /\ UNCHANGED <<leakCount, tpLeakCount, leakedEmails, leakRows, tpLeakRows>>

-----------------------------------------------------------------------------
(* Some addresses have registered already; nothing has been received.      *)
DBInit ==
  /\ \E r \in Registrations :
       /\ users = DOMAIN r
       /\ registerDomain = [a \in Address |-> IF a \in DOMAIN r THEN r[a] ELSE NoDomain]
  /\ emailsReceived = [a \in Address |-> 0]
  /\ leakCount = [a \in Address |-> 0]
  /\ tpLeakCount = [a \in Address |-> 0]
  /\ inbox = [a \in Address |-> {}]
  /\ leakedEmails = {}
  /\ leakRows = [a \in Address |-> 0]
  /\ tpLeakRows = [a \in Address |-> 0]
  /\ linkGroups = {}
  /\ nextGroup = 1
  /\ redirects = {}
  /\ leak = [t \in Thread |-> Idle]
  /\ faults = 0

LeakActivation ==
  {Idle, Failed} \cup
  {l \in [step : {"url", "insert", "count", "tpcount"}, recipient : Address,
          domain : Domain, source : LeakSource, skip : SUBSET URL,
          todo : Seq(URL), left : Nat] : l.todo # <<>>}

LinkGroup == [id : Nat, recipient : Address, domain : Domain, urls : Seq(URL)]

DBTypeOK ==
  /\ users \subseteq Address
  /\ registerDomain \in [Address -> Domain]
  /\ emailsReceived \in [Address -> Nat]
  /\ leakCount \in [Address -> Nat]
  /\ tpLeakCount \in [Address -> Nat]
  /\ inbox \in [Address -> SUBSET Nat]
  /\ \A a \in Address : IsFiniteSet(inbox[a])
  /\ leakedEmails \subseteq [recipient : Address, url : URL, source : LeakSource]
  /\ leakRows \in [Address -> Nat]
  /\ tpLeakRows \in [Address -> Nat]
  /\ nextGroup \in Nat \ {0}
  /\ linkGroups \subseteq LinkGroup
  /\ \A g \in linkGroups : g.id < nextGroup
  /\ \A r \in redirects : r.recipient \in Address /\ r.rank \in Nat \ {0}
  /\ leak \in [Thread -> LeakActivation]
  /\ faults \in 0 .. MaxFaults
=============================================================================
