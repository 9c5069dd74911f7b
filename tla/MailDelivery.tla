---------------------------- MODULE MailDelivery ----------------------------
(***************************************************************************)
(* Incoming mail: the SMTP sessions of MailServer.java and MailHandler,    *)
(* the files and rows MailStorage writes, the analysis MailAnalyzer runs   *)
(* before the mail is acknowledged, and the pool of RequestTasks it leaves *)
(* behind.  One action per access to the database, to the disk or to the   *)
(* pool; sessions run concurrently.                                        *)
(*                                                                         *)
(* A mail is a record: the recipient to; whether it has a subject header;  *)
(* body "html", "text" or "bad" (cannot be parsed); links, every URL in    *)
(* it; confirm, the URL the confirmation search picks (<<>> for none);     *)
(* pixels, the images always requested, and others, of which one is;       *)
(* visit, the URLs recordLinksToVisit picks.                               *)
(***************************************************************************)
EXTENDS MailDB

CONSTANTS
  Mail,         \* the mails of the senders
  SmtpThread,   \* session threads of the SMTP server
  PoolThread,   \* threads of the RequestTask pool (5 in the code)
  Chains,       \* Chains[u]: the redirect chains a request of u may meet
  Root,         \* the directory mail/ itself
  NoMail,       \* content of a file whose write failed half way
  None,         \* no thread
  MaxTime,      \* bound: ticks of the millisecond clock
  MaxAttempts   \* bound: how often a sender tries a mail

ASSUME MailDeliveryAssumption ==
  /\ SmtpThread \cup PoolThread \subseteq Thread
  /\ SmtpThread \cap PoolThread = {}
  /\ None \notin Thread /\ NoMail \notin Mail /\ Root \notin Address
  /\ \A m \in Mail : /\ m.to \in Address
                     /\ m.subject \in BOOLEAN
                     /\ m.body \in {"html", "text", "bad"}
                     /\ m.links \in Seq(URL)
                     /\ m.confirm \in Seq(URL)
                     /\ m.visit \in Seq(URL)
                     /\ m.pixels \subseteq URL
                     /\ m.others \subseteq URL
  /\ MaxTime \in Nat \ {0} /\ MaxAttempts \in Nat
  /\ \A u \in URL : Chains[u] \subseteq Seq(URL)

VARIABLES
  sent,      \* what the sender of a mail knows: "queued", "acked", "bounced"
  attempts,  \* how often it has tried
  smtp,      \* the state of each session thread
  now,       \* System.currentTimeMillis()
  dirs,      \* addresses whose mail directory exists
  files,     \* the .eml files: directory, name and the mail in it
  queue,     \* the pool's tasks, in the order they become due
  pool,      \* the state of each pool thread
  lost,      \* history: mails whose file was replaced by another mail's
  dbLock     \* holder of MailDB's monitor (addRedirects is synchronized)

diskVars     == <<dirs, files, lost>>
senderVars   == <<sent, attempts>>
poolVars     == <<queue, pool, dbLock>>
deliveryVars == <<senderVars, smtp, now, diskVars, poolVars>>

NotRunning == [pc |-> "idle"]

Goto(t, l) == smtp' = [smtp EXCEPT ![t].pc = l]

(* A step of session t that changes nothing but what it names: the groups  *)
(* of variables it leaves alone.                                           *)
KeepDB      == UNCHANGED dbVars
KeepDisk    == UNCHANGED diskVars
KeepSenders == UNCHANGED senderVars
KeepPool    == UNCHANGED poolVars

-----------------------------------------------------------------------------
(* Senders (external), and the clock *)

(* A sender opens a session for a mail it has not got rid of.              *)
Connect(t, m) ==
  /\ smtp[t].pc = "idle" /\ sent[m] = "queued" /\ attempts[m] < MaxAttempts
  /\ \A s \in SmtpThread : smtp[s].pc # "idle" => smtp[s].mail # m
  /\ attempts' = [attempts EXCEPT ![m] = @ + 1]
  /\ smtp' = [smtp EXCEPT ![t] = [pc |-> "accept", mail |-> m]]
  /\ KeepDB /\ KeepDisk /\ KeepPool /\ UNCHANGED <<sent, now>>

Tick ==
  /\ now < MaxTime /\ now' = now + 1
  /\ KeepDB /\ KeepDisk /\ KeepPool /\ KeepSenders /\ UNCHANGED smtp

(* deliver returns, or throws: the sender is told "250" or a temporary     *)
(* failure after which it tries again.                                     *)
Finish(t, answer) ==
  /\ sent' = [sent EXCEPT ![smtp[t].mail] = answer]
  /\ smtp' = [smtp EXCEPT ![t] = NotRunning]
  /\ UNCHANGED attempts

Return(t) == Finish(t, "acked")

-----------------------------------------------------------------------------
(* MailHandler *)

(* accept: a failing query accepts the mail.                               *)
Accept(t) ==
  LET to == smtp[t].mail.to IN
  /\ smtp[t].pc = "accept"
  /\ \/ /\ Works({"users"}) /\ UserExists(to)
        /\ Goto(t, "handle") /\ KeepSenders /\ UNCHANGED faults
     \/ /\ Works({"users"}) /\ ~UserExists(to)
        /\ Finish(t, "bounced") /\ UNCHANGED faults
     \/ /\ Throws({"users"})
        /\ Goto(t, "handle") /\ KeepSenders
  /\ KeepDisk /\ KeepPool
  /\ UNCHANGED <<now, userVars, mailVars, leakVars, groupVars, redirects>>

(* A mutant: a missing user is not noticed.                                *)
HandleMessageUnchecked(t) ==
  /\ smtp[t].pc = "handle"
  /\ smtp' = [smtp EXCEPT ![t] = [pc |-> "isdir", mail |-> @.mail,
                                  user |-> UserInfo(@.mail.to)]]
  /\ KeepDB /\ KeepSenders /\ KeepDisk /\ KeepPool /\ UNCHANGED now

(* A mutant: the mail is acknowledged before it is handled.                *)
HandleMessageAckFirst(t) ==
  /\ smtp[t].pc = "handle"
  /\ smtp' = [smtp EXCEPT ![t] = [pc |-> "isdir", mail |-> @.mail,
                                  user |-> UserInfo(@.mail.to)]]
  /\ sent' = [sent EXCEPT ![smtp[t].mail] = "acked"]
  /\ KeepDB /\ KeepDisk /\ KeepPool /\ UNCHANGED <<now, attempts>>

(* handleMessage up to the call of store: the user is read once, and what  *)
(* was read is used until the end of the analysis.                         *)
HandleMessage(t) ==
  LET to == smtp[t].mail.to IN
  /\ smtp[t].pc = "handle"
  /\ \/ /\ Works({"users", "counters"}) /\ to \in users
        /\ smtp' = [smtp EXCEPT ![t] = [pc |-> "isdir", mail |-> @.mail,
                                        user |-> UserInfo(to)]]
        /\ KeepSenders /\ UNCHANGED faults
     \/ /\ Works({"users", "counters"}) /\ to \notin users
        /\ Return(t) /\ UNCHANGED faults
     \/ /\ Throws({"users", "counters"})
        /\ Return(t)
  /\ KeepDisk /\ KeepPool
  /\ UNCHANGED <<now, userVars, mailVars, leakVars, groupVars, redirects>>

-----------------------------------------------------------------------------
(* MailStorage.store *)

(* The directory a session will write to.                                  *)
WriteTo(t, dir) ==
  smtp' = [smtp EXCEPT ![t] = [pc |-> "write", mail |-> @.mail, user |-> @.user,
                               dir |-> dir]]

(* A mutant: mkdirs is tried whether or not the directory is there.        *)
IsDirectoryUnchecked(t) ==
  /\ smtp[t].pc = "isdir"
  /\ Goto(t, "mkdirs")
  /\ KeepDB /\ KeepDisk /\ KeepPool /\ KeepSenders /\ UNCHANGED now

(* dir.isDirectory() ...                                                   *)
IsDirectory(t) ==
  LET to == smtp[t].mail.to IN
  /\ smtp[t].pc = "isdir"
  /\ IF to \in dirs THEN WriteTo(t, to) ELSE Goto(t, "mkdirs")
  /\ KeepDB /\ KeepDisk /\ KeepPool /\ KeepSenders /\ UNCHANGED now

(* ... && !dir.mkdirs(), which also fails if the directory appeared in     *)
(* the meantime: then the root is used.                                    *)
Mkdirs(t) ==
  LET to == smtp[t].mail.to IN
  /\ smtp[t].pc = "mkdirs"
  /\ \/ /\ to \notin dirs
        /\ dirs' = dirs \cup {to} /\ WriteTo(t, to) /\ UNCHANGED faults
     \/ /\ to \in dirs
        /\ WriteTo(t, Root) /\ UNCHANGED <<dirs, faults>>
     \/ /\ faults < MaxFaults /\ faults' = faults + 1
        /\ WriteTo(t, Root) /\ UNCHANGED dirs
  /\ KeepPool /\ KeepSenders
  /\ UNCHANGED <<now, files, lost, userVars, mailVars, leakVars, groupVars, redirects>>

Put(dir, name, m) ==
  {f \in files : f.dir # dir \/ f.name # name} \cup
    {[dir |-> dir, name |-> name, mail |-> m]}

(* The mails whose file is replaced by that.                               *)
Replaced(dir, name) == {f.mail : f \in {g \in files : g.dir = dir /\ g.name = name}}

(* A mutant: the clock is read again for the row.                          *)
WriteFileTwoReads(t) ==
  /\ smtp[t].pc = "write"
  /\ files' = Put(smtp[t].dir, now, smtp[t].mail)
  /\ lost' = lost \cup (Replaced(smtp[t].dir, now) \ {smtp[t].mail, NoMail})
  /\ \E later \in now .. MaxTime :
       smtp' = [smtp EXCEPT ![t] = [pc |-> "insert", mail |-> @.mail,
                                    user |-> @.user, name |-> later]]
  /\ KeepPool /\ KeepSenders
  /\ UNCHANGED <<now, dirs, dbVars>>

(* Open the file named after the clock, replacing what has that name, and  *)
(* write the mail.  An IOException, before or after the file was truncated,*)
(* is logged and the entry is made all the same.                           *)
WriteFile(t) ==
  /\ smtp[t].pc = "write"
  /\ \/ files' = Put(smtp[t].dir, now, smtp[t].mail) /\ UNCHANGED faults
     \/ /\ faults < MaxFaults /\ faults' = faults + 1
        /\ files' \in {files, Put(smtp[t].dir, now, NoMail)}
  /\ lost' = lost \cup (Replaced(smtp[t].dir, now) \ {smtp[t].mail, NoMail})
  /\ smtp' = [smtp EXCEPT ![t] = [pc |-> "insert", mail |-> @.mail, user |-> @.user,
                                  name |-> now]]
  /\ KeepPool /\ KeepSenders
  /\ UNCHANGED <<now, dirs, userVars, mailVars, leakVars, groupVars, redirects>>

(* addMailEntry: the row ...                                               *)
InsertMailEntry(t) ==
  LET to == smtp[t].mail.to IN
  /\ smtp[t].pc = "insert"
  /\ \/ /\ Works({"inbox"}) /\ InsertInbox(to, smtp[t].name)
        /\ Goto(t, "count") /\ UNCHANGED faults
     \/ /\ Works({"inbox"}) /\ InboxKeyTaken(to, smtp[t].name)
        /\ Goto(t, "analyze") /\ UNCHANGED <<inbox, faults>>
     \/ /\ Throws({"inbox"})
        /\ Goto(t, "analyze") /\ UNCHANGED inbox
  /\ KeepDisk /\ KeepPool /\ KeepSenders
  /\ UNCHANGED <<now, userVars, emailsReceived, leakVars, groupVars, redirects>>

(* ... and the count.                                                      *)
UpdateReceived(t) ==
  /\ smtp[t].pc = "count"
  /\ \/ CountEmail(smtp[t].mail.to) /\ Works({"users"}) /\ UNCHANGED faults
     \/ Throws({"users"}) /\ UNCHANGED emailsReceived
  /\ Goto(t, "analyze")
  /\ KeepDisk /\ KeepPool /\ KeepSenders
  /\ UNCHANGED <<now, userVars, inbox, leakVars, groupVars, redirects>>

-----------------------------------------------------------------------------
(* MailAnalyzer.analyze *)

(* With an HTML part the analysis goes on, without one it is over.         *)
AnalyzeLinks(t) ==
  LET m == smtp[t].mail IN
  IF m.body = "html"
  THEN /\ Goto(t, "leaks") /\ KeepSenders
       /\ FindLeakedEmailAddress(t, m.to, smtp[t].user.domain, "mail", {}, m.links)
  ELSE Return(t) /\ UNCHANGED leakVars

(* A mutant: the count is taken to include this mail.                      *)
FirstMailOffByOne(u) == u.received <= 1

(* "is this the first email?"                                              *)
FirstMail(u) == u.received = 0

(* Up to the first database access.  The count of the user read before     *)
(* the mail was stored decides whether this is the first mail; a first     *)
(* mail without subject runs into a null pointer.                          *)
Analyze(t) ==
  LET m == smtp[t].mail
      u == smtp[t].user
      analyzed == u.domain # NoDomain /\ m.body # "bad"
      first == FirstMail(u) IN
  /\ smtp[t].pc = "analyze"
  /\ \/ ~analyzed /\ Return(t) /\ UNCHANGED leakVars
     \/ analyzed /\ first /\ ~m.subject /\ Finish(t, "queued") /\ UNCHANGED leakVars
     \/ /\ analyzed /\ first /\ m.subject /\ m.confirm # <<>>
        /\ Goto(t, "confirm") /\ KeepSenders /\ UNCHANGED leakVars
     \/ /\ analyzed /\ (first => m.subject /\ m.confirm = <<>>)
        /\ AnalyzeLinks(t)
  /\ KeepDisk /\ KeepPool
  /\ UNCHANGED <<now, userVars, mailVars, groupVars, redirects, faults>>

(* findConfirmationLinksToVisit found a link.                              *)
RecordConfirmation(t) ==
  LET m == smtp[t].mail IN
  /\ smtp[t].pc = "confirm"
  /\ \/ /\ Works({"link_groups"}) /\ UNCHANGED faults
        /\ AddLinkGroup(m.confirm, smtp[t].user.domain, m.to)
     \/ Throws({"link_groups"}) /\ UNCHANGED groupVars
  /\ AnalyzeLinks(t)
  /\ KeepDisk /\ KeepPool
  /\ UNCHANGED <<now, userVars, mailVars, redirects>>

(* requestTrackingImages, once the links are recorded: the pixels and one  *)
(* other image.                                                            *)
ChooseImages(t) ==
  LET m == smtp[t].mail IN
  /\ smtp[t].pc = "leaks" /\ leak[t] = Idle
  /\ \E o \in SUBSET m.others :
       /\ Cardinality(o) = (IF m.others = {} THEN 0 ELSE 1)
       /\ smtp' = [smtp EXCEPT ![t] = [pc |-> "images", mail |-> m, user |-> @.user,
                                       images |-> m.pixels \cup o]]
  /\ KeepDB /\ KeepDisk /\ KeepPool /\ KeepSenders /\ UNCHANGED now

ScheduleImage(t) ==
  /\ smtp[t].pc = "images"
  /\ \E u \in smtp[t].images :
       /\ queue' = Append(queue, [recipient |-> smtp[t].mail.to,
                                  domain |-> smtp[t].user.domain, url |-> u])
       /\ smtp' = [smtp EXCEPT ![t].images = @ \ {u}]
  /\ KeepDB /\ KeepDisk /\ KeepSenders /\ UNCHANGED <<now, pool, dbLock>>

(* recordLinksToVisit, and the mail is acknowledged.                       *)
RecordLinksToVisit(t) ==
  LET m == smtp[t].mail IN
  /\ smtp[t].pc = "images" /\ smtp[t].images = {}
  /\ \/ m.visit = <<>> /\ UNCHANGED <<groupVars, faults>>
     \/ /\ m.visit # <<>> /\ Works({"link_groups"}) /\ UNCHANGED faults
        /\ AddLinkGroup(m.visit, smtp[t].user.domain, m.to)
     \/ m.visit # <<>> /\ Throws({"link_groups"}) /\ UNCHANGED groupVars
  /\ Return(t)
  /\ KeepDisk /\ KeepPool
  /\ UNCHANGED <<now, userVars, mailVars, leakVars, redirects>>

RecordMailLeak(t) ==
  /\ RecordLeak(t)
  /\ UNCHANGED deliveryVars

SmtpStep(t) ==
  \/ Accept(t) \/ HandleMessage(t)
  \/ IsDirectory(t) \/ Mkdirs(t) \/ WriteFile(t)
  \/ InsertMailEntry(t) \/ UpdateReceived(t)
  \/ Analyze(t) \/ RecordConfirmation(t) \/ ChooseImages(t) \/ ScheduleImage(t)
  \/ RecordLinksToVisit(t)
  \/ RecordMailLeak(t)

-----------------------------------------------------------------------------
(* RequestTask.call on a pool thread *)

PoolGoto(p, l) == pool' = [pool EXCEPT ![p].pc = l]
PoolIdle(p) == pool' = [pool EXCEPT ![p] = NotRunning]

TakeTask(p) ==
  /\ pool[p].pc = "idle" /\ queue # <<>>
  /\ pool' = [pool EXCEPT ![p] = [pc |-> "go", task |-> Head(queue)]]
  /\ queue' = Tail(queue)
  /\ KeepDB /\ KeepDisk /\ KeepSenders /\ UNCHANGED <<smtp, now, dbLock>>

(* req.go(): the redirects followed until an answer or a read timeout;     *)
(* any other problem throws and nothing is recorded.                       *)
Go(p) ==
  /\ pool[p].pc = "go"
  /\ \/ \E c \in Chains[pool[p].task.url] :
          pool' = [pool EXCEPT ![p] = [pc |-> "monitor", task |-> @.task, chain |-> c]]
     \/ PoolIdle(p)
  /\ KeepDB /\ KeepDisk /\ KeepSenders /\ UNCHANGED <<smtp, now, queue, dbLock>>

(* addRedirects takes the monitor, and returns at once without redirects.  *)
EnterAddRedirects(p) ==
  /\ pool[p].pc = "monitor" /\ dbLock = None
  /\ IF pool[p].chain = <<>> THEN PoolIdle(p) /\ UNCHANGED dbLock
     ELSE /\ dbLock' = p
          /\ pool' = [pool EXCEPT ![p] = [pc |-> "redirects", task |-> @.task,
                                          chain |-> @.chain, rank |-> 1]]
  /\ KeepDB /\ KeepDisk /\ KeepSenders /\ UNCHANGED <<smtp, now, queue>>

(* One row; after the last one the redirects are searched for leaks.       *)
InsertRedirect(p) ==
  LET s == pool[p] IN
  /\ s.pc = "redirects" /\ Works({"redirects"})
  /\ AddRedirect(s.task.recipient, s.task.url, s.rank, s.chain[s.rank])
  /\ \/ /\ s.rank < Len(s.chain)
        /\ pool' = [pool EXCEPT ![p].rank = @ + 1]
        /\ UNCHANGED <<dbLock, leakVars>>
     \/ /\ s.rank = Len(s.chain)
        /\ dbLock' = None
        /\ PoolGoto(p, "leaks")
        /\ FindLeakedEmailAddress(p, s.task.recipient, s.task.domain, "image", {}, s.chain)
  /\ KeepDisk /\ KeepSenders
  /\ UNCHANGED <<smtp, now, queue, userVars, mailVars, groupVars, faults>>

(* A mutant: the monitor is not given back.                                *)
RedirectThrowsLocked(p) ==
  /\ pool[p].pc = "redirects" /\ Throws({"redirects"})
  /\ PoolIdle(p)
  /\ KeepDisk /\ KeepSenders
  /\ UNCHANGED <<smtp, now, queue, dbLock, userVars, mailVars, leakVars, groupVars,
                 redirects>>

(* A mutant: the search for leaks goes ahead without the rows.             *)
RedirectThrowsGoesOn(p) ==
  LET s == pool[p] IN
  /\ s.pc = "redirects" /\ Throws({"redirects"})
  /\ dbLock' = None /\ PoolGoto(p, "leaks")
  /\ FindLeakedEmailAddress(p, s.task.recipient, s.task.domain, "image", {}, s.chain)
  /\ KeepDisk /\ KeepSenders
  /\ UNCHANGED <<smtp, now, queue, userVars, mailVars, groupVars, redirects>>

RedirectThrows(p) ==
  /\ pool[p].pc = "redirects" /\ Throws({"redirects"})
  /\ dbLock' = None /\ PoolIdle(p)
  /\ KeepDisk /\ KeepSenders
  /\ UNCHANGED <<smtp, now, queue, userVars, mailVars, leakVars, groupVars, redirects>>

TaskDone(p) ==
  /\ pool[p].pc = "leaks" /\ leak[p] = Idle /\ PoolIdle(p)
  /\ KeepDB /\ KeepDisk /\ KeepSenders /\ UNCHANGED <<smtp, now, queue, dbLock>>

RecordImageLeak(p) ==
  /\ RecordLeak(p)
  /\ UNCHANGED deliveryVars

PoolStep(p) ==
  \/ TakeTask(p) \/ Go(p) \/ EnterAddRedirects(p) \/ InsertRedirect(p)
  \/ RedirectThrows(p) \/ TaskDone(p)
  \/ RecordImageLeak(p)

-----------------------------------------------------------------------------
DeliveryInit ==
  /\ sent = [m \in Mail |-> "queued"]
  /\ attempts = [m \in Mail |-> 0]
  /\ smtp = [t \in SmtpThread |-> NotRunning]
  /\ now = 1
  /\ dirs = {} /\ files = {} /\ lost = {}
  /\ queue = <<>>
  /\ pool = [p \in PoolThread |-> NotRunning]
  /\ dbLock = None

DeliveryNext ==
  \/ \E t \in SmtpThread : SmtpStep(t) \/ \E m \in Mail : Connect(t, m)
  \/ \E p \in PoolThread : PoolStep(p)
  \/ Tick

Snapshot == [received : Nat, domain : Domain]

Session ==
  {NotRunning}
  \cup [pc : {"accept", "handle"}, mail : Mail]
  \cup [pc : {"isdir", "mkdirs"}, mail : Mail, user : Snapshot]
  \cup [pc : {"write"}, mail : Mail, user : Snapshot, dir : Address \cup {Root}]
  \cup [pc : {"insert", "count", "analyze", "confirm", "leaks"}, mail : Mail,
        user : Snapshot, name : Nat]
  \cup [pc : {"images"}, mail : Mail, user : Snapshot, images : SUBSET URL]

Task == [recipient : Address, domain : Domain, url : URL]

PoolState ==
  {NotRunning}
  \cup [pc : {"go"}, task : Task]
  \cup [pc : {"monitor"}, task : Task, chain : Seq(URL)]
  \cup [pc : {"redirects", "leaks"}, task : Task, chain : Seq(URL), rank : Nat \ {0}]

DeliveryTypeOK ==
  /\ sent \in [Mail -> {"queued", "acked", "bounced"}]
  /\ attempts \in [Mail -> 0 .. MaxAttempts]
  /\ smtp \in [SmtpThread -> Session]
  /\ now \in 1 .. MaxTime
  /\ dirs \subseteq Address
  /\ files \subseteq [dir : Address \cup {Root}, name : 1 .. MaxTime,
                      mail : Mail \cup {NoMail}]
  /\ lost \subseteq Mail
  /\ queue \in Seq(Task)
  /\ pool \in [PoolThread -> PoolState]
  /\ dbLock \in PoolThread \cup {None}
=============================================================================
