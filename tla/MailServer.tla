----------------------------- MODULE MailServer -----------------------------
(***************************************************************************)
(* The mail server process (Launcher.java): the SMTP server and the web    *)
(* server over one database and one disk.  The process may crash: threads, *)
(* queued tasks and locks are gone, tables and files stay.                 *)
(***************************************************************************)
EXTENDS MailDelivery, WebApi

CONSTANT MaxCrashes   \* bound: crashes of the process

ASSUME MailServerAssumption ==
  /\ WebThread \cap (SmtpThread \cup PoolThread) = {}
  /\ MaxCrashes \in Nat

VARIABLE crashes

vars == <<dbVars, deliveryVars, webVars, crashes>>

Crash ==
  /\ crashes < MaxCrashes /\ crashes' = crashes + 1
  /\ smtp' = [t \in SmtpThread |-> NotRunning]
  /\ pool' = [p \in PoolThread |-> NotRunning]
  /\ web' = [w \in WebThread |-> NoRequest]
  /\ leak' = [t \in Thread |-> Idle]
  /\ queue' = <<>> /\ dbLock' = None
  /\ UNCHANGED <<userVars, mailVars, leakCount, tpLeakCount, leakedEmails, leakRows,
                 tpLeakRows, groupVars, redirects, faults, senderVars, now, diskVars,
                 requests, issued, offered, accepted>>

Init == DBInit /\ DeliveryInit /\ WebInit /\ crashes = 0

Next ==
  \/ DeliveryNext /\ UNCHANGED <<webVars, crashes>>
  \/ WebNext /\ UNCHANGED <<deliveryVars, crashes>>
  \/ Crash

Spec == Init /\ [][Next]_vars

(* The Java runtime and the pool run every thread that can run.  Senders,  *)
(* clients, the clock and crashes are under no obligation.                 *)
Fairness ==
  /\ \A t \in SmtpThread : WF_vars(SmtpStep(t) /\ UNCHANGED <<webVars, crashes>>)
  /\ \A p \in PoolThread : WF_vars(PoolStep(p) /\ UNCHANGED <<webVars, crashes>>)
  /\ \A w \in WebThread : WF_vars(WebStep(w) /\ UNCHANGED <<deliveryVars, crashes>>)

FairSpec == Spec /\ Fairness

TypeOK ==
  /\ DBTypeOK /\ DeliveryTypeOK /\ WebTypeOK
  /\ crashes \in 0 .. MaxCrashes

-----------------------------------------------------------------------------
(* Counters and rows *)

(* Threads between the INSERT of a row and the UPDATE of a counter.        *)
Uncounted(a) ==
  {t \in Thread : leak[t].step = "count" /\ leak[t].recipient = a}
UncountedThirdParty(a) ==
  {t \in Thread : /\ leak[t].step \in {"count", "tpcount"}
                  /\ leak[t].recipient = a /\ ThirdParty(leak[t])}
AwaitingThirdParty(a) ==
  {t \in Thread : leak[t].step = "tpcount" /\ leak[t].recipient = a}
UncountedMail(a) ==
  {t \in SmtpThread : smtp[t].pc = "count" /\ smtp[t].mail.to = a}

(* users.leak_count and users.tp_leak_count (MailDB.addLeakedEmailAddress) *)
(* never exceed the rows of leaked_emails they count, whatever threads     *)
(* interleave, statements fail or crashes hit between INSERT and UPDATE;   *)
(* a thread that has inserted and not counted yet is owed one.             *)
LeakCountsCovered ==
  \A a \in Address :
    /\ leakCount[a] + Cardinality(Uncounted(a)) <= leakRows[a]
    /\ tpLeakCount[a] + Cardinality(UncountedThirdParty(a)) <= tpLeakRows[a]
    /\ tpLeakCount[a] + Cardinality(AwaitingThirdParty(a)) <= leakCount[a]

(* As long as nothing failed, no count is missing either: what the         *)
(* counters lack is exactly what running threads have still to count.      *)
LeakCountsExact ==
  faults = 0 /\ crashes = 0 =>
    \A a \in Address :
      /\ leakCount[a] + Cardinality(Uncounted(a)) = leakRows[a]
      /\ tpLeakCount[a] + Cardinality(UncountedThirdParty(a)) = tpLeakRows[a]

(* users.emails_received (MailDB.addMailEntry) never exceeds the rows of   *)
(* inbox, although a row may be refused as a duplicate key.                *)
ReceivedCovered ==
  \A a \in Address :
    emailsReceived[a] + Cardinality(UncountedMail(a)) <= Cardinality(inbox[a])

(* The two tables with their counters implement the abstract ledger.       *)
LeakLedger == INSTANCE TwoStepLedger
  WITH Account <- Address, entered <- leakRows, counted <- leakCount
InboxLedger == INSTANCE TwoStepLedger
  WITH Account <- Address, entered <- [a \in Address |-> Cardinality(inbox[a])],
       counted <- emailsReceived

(* A leak is counted only after its row, one at a time.                    *)
LeakLedgerImplemented == LeakLedger!Spec
(* A mail is counted only after its row, one at a time.                    *)
InboxLedgerImplemented == InboxLedger!Spec

(* No step takes a row of users away or lowers a count in it: in           *)
(* particular not /register, which may generate an address that is taken   *)
(* (INSERT IGNORE).                                                        *)
UsersNeverReset ==
  [][/\ users \subseteq users'
     /\ \A a \in users : /\ emailsReceived'[a] >= emailsReceived[a]
                         /\ leakCount'[a] >= leakCount[a]
                         /\ registerDomain'[a] = registerDomain[a]]_vars

-----------------------------------------------------------------------------
(* Mails and files *)

(* A file without a row is one whose session is about to insert the row,   *)
(* unless that failed; a row without a file is one whose write failed      *)
(* (MailStorage.store).                                                    *)
DiskMatchesInbox ==
  faults = 0 =>
    /\ \A a \in Address, n \in 1 .. MaxTime :
         n \in inbox[a] => \E f \in files : f.name = n /\ f.dir \in {a, Root}
    /\ crashes = 0 =>
         \A f \in files :
           \/ f.name \in inbox[f.mail.to]
           \/ \E t \in SmtpThread : /\ smtp[t].pc = "insert"
                                    /\ smtp[t].mail = f.mail /\ smtp[t].name = f.name

(* Without a failed statement or write, a mail the sender was told is      *)
(* accepted is on disk, whatever was retried or crashed, unless a mail     *)
(* stored in the same millisecond took its file.                           *)
AckedMailIsStored ==
  faults = 0 =>
    \A m \in Mail :
      sent[m] = "acked" => m \in lost \/ \E f \in files : f.mail = m

(* "Incoming mail is stored on disk" (mailserver/README.md): an accepted   *)
(* mail is on disk, with no exception for mails of the same millisecond.   *)
AckedMailIsOnDisk ==
  faults = 0 =>
    \A m \in Mail : sent[m] = "acked" => \E f \in files : f.mail = m

(* "{root_mail_dir}/{email}/{timestamp}.eml" (MailStorage.java:51): every  *)
(* file is in the directory of its recipient.                              *)
FileUnderItsAddress ==
  faults = 0 => \A f \in files : f.dir = f.mail.to

(* The mails of an address in the root directory, and the sessions that are*)
(* about to put one there.                                                 *)
Misfiled(a) == {f \in files : f.dir = Root /\ f.mail # NoMail /\ f.mail.to = a}
Misfiling(a) ==
  {t \in SmtpThread :
     \/ smtp[t].pc = "mkdirs" /\ smtp[t].mail.to = a /\ a \in dirs
     \/ smtp[t].pc = "write" /\ smtp[t].mail.to = a /\ smtp[t].dir = Root}

(* The sessions that lose the race to make a directory put their mail in   *)
(* the root directory; each of them once, for only sessions that ran at the*)
(* same time may lose it, and one of them wins: all later mails of the     *)
(* address, those sent again after a crash included, are in its directory  *)
(* (MailStorage.store).                                                    *)
MisfiledInRaceOnly ==
  faults = 0 =>
    \A a \in Address :
      /\ Misfiled(a) # {} => a \in dirs
      /\ Cardinality(Misfiled(a)) + Cardinality(Misfiling(a)) < Cardinality(SmtpThread)

(* Mail for an address that is not registered is never stored, even when   *)
(* the check in accept failed and let it in.                               *)
OnlyRegisteredStored ==
  /\ \A f \in files : f.mail # NoMail => f.mail.to \in users
  /\ \A a \in Address : inbox[a] # {} => a \in users

(* "is this the first email?" (MailAnalyzer.java:147): an address has one  *)
(* first mail, so at most one confirmation link is recorded for it.        *)
OneConfirmation ==
  faults = 0 /\ crashes = 0 =>
    \A a \in Address :
      Cardinality({g \in linkGroups : /\ g.recipient = a
                                      /\ \E m \in Mail : g.urls = m.confirm}) <= 1

(* The sessions that found no mail of an address counted when they began,  *)
(* and the confirmations of their mails with those that are recorded.      *)
FirstSessions(a) ==
  {t \in SmtpThread : /\ smtp[t].pc \notin {"idle", "accept", "handle"}
                      /\ smtp[t].mail.to = a /\ smtp[t].user.received = 0}
OnlyConfirmations == {m.confirm : m \in Mail} \ {m.visit : m \in Mail}
FirstMails(a) ==
  {smtp[t].mail.confirm : t \in FirstSessions(a)}
    \cup ({g.urls : g \in {h \in linkGroups : h.recipient = a}} \cap OnlyConfirmations)

(* Two mails may be taken for the first one, as emails_received is read    *)
(* before and written after a mail is stored.  But the mail that is counted*)
(* first is one that was taken for the first, and from then on no other    *)
(* one is, whatever fails, crashes or is sent again: what sessions have    *)
(* read gets stale, and never too late (MailHandler.handleMessage,         *)
(* MailAnalyzer.analyze).                                                  *)
FirstMailsClosed ==
  [][\A a \in Address :
       /\ emailsReceived[a] = 0 /\ emailsReceived'[a] # 0 => FirstSessions(a) # {}
       /\ emailsReceived[a] # 0 => FirstMails(a)' \subseteq FirstMails(a)]_vars

(* A leak found in the redirects of an image was recorded after the        *)
(* redirects themselves, and the recorded redirects of a request have no   *)
(* gap (RequestTask.call, MailDB.addRedirects).                            *)
RedirectsBeforeLeaks ==
  /\ \A l \in leakedEmails :
       l.source = "image" =>
         \E r \in redirects : r.recipient = l.recipient /\ r.target = l.url
  /\ \A r \in redirects :
       r.rank > 1 => \E q \in redirects : /\ q.recipient = r.recipient
                                          /\ q.request = r.request
                                          /\ q.rank = r.rank - 1

-----------------------------------------------------------------------------
(* Link groups and registrations *)

(* Results answered with 200 are in the table, every leak of them: a       *)
(* client that retries only what was not answered 200 loses nothing        *)
(* (WebServer.results).                                                    *)
AcceptedResultsRecorded ==
  \A o \in accepted : \A i \in DOMAIN o.report :
    o.report[i] \notin BaseUrls(o.group) /\ Encodings[o.report[i]] > 0 =>
      [recipient |-> o.group.recipient, url |-> o.report[i], source |-> "link"]
        \in leakedEmails

(* A group disappears only with results that were accepted for it; a       *)
(* request that failed leaves it to be visited again.                      *)
GroupsLeaveWithResults ==
  \A id \in 1 .. nextGroup - 1 :
    \/ \E g \in linkGroups : g.id = id
    \/ \E o \in accepted : o.group.id = id

(* Two registrations never get the same address, whatever the generator    *)
(* draws (WebServer.register).                                             *)
AddressesUnique == \A a \in Address : issued[a] <= 1

-----------------------------------------------------------------------------
(* Progress *)

(* Every SMTP session ends: its mail is acknowledged, refused or failed.   *)
SessionsEnd == \A t \in SmtpThread : smtp[t].pc # "idle" ~> smtp[t].pc = "idle"

(* Every scheduled image request is taken and its thread is free again:    *)
(* no thread keeps the others out of addRedirects for good.                *)
TasksEnd == queue # <<>> ~> queue = <<>> /\ \A p \in PoolThread : pool[p].pc = "idle"

(* Every request to the web server is answered.                            *)
RequestsEnd == \A w \in WebThread : web[w].pc # "idle" ~> web[w].pc = "idle"
=============================================================================
