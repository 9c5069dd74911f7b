------------------------ MODULE MailDelivery_proofs ------------------------
(***************************************************************************)
(* What holds of the mails for any numbers of threads, senders, faults and *)
(* crashes: mail is stored for registered addresses only, the counter of   *)
(* received mails never runs ahead of the rows, files and rows belong      *)
(* together, and a mail its sender was told is accepted is on disk.  None  *)
(* of this follows from the tables and files alone: each invariant says    *)
(* what a session that is under way has done and has still to do.          *)
(***************************************************************************)
EXTENDS MailServer_proofs

(* Where a session is past the check of its recipient, and where past the  *)
(* write of its file.                                                      *)
PastWrite == {"insert", "count", "analyze", "confirm", "leaks", "images"}
PastCheck == {"isdir", "mkdirs", "write"} \cup PastWrite
Analysis  == {"analyze", "confirm", "leaks", "images"}

-----------------------------------------------------------------------------
(* How a step of the server can change sessions, mails and files.          *)

(* A step of another part: only leaks, groups, redirects, requests, the    *)
(* clock or the pool.                                                      *)
Elsewhere == UNCHANGED <<smtp, sent, files, lost, inbox, emailsReceived>>

(* A step of the analysis of a mail: the session goes on or returns.       *)
AnalysisStep(t) ==
  /\ smtp[t].pc \in Analysis
  /\ UNCHANGED <<users, files, lost, inbox, emailsReceived>>
  /\ \/ /\ UNCHANGED sent
        /\ \E n \in Session : /\ n.pc \in Analysis /\ n.mail = smtp[t].mail
                              /\ smtp' = [smtp EXCEPT ![t] = n]
     \/ \E answer \in {"acked", "queued"} : Finish(t, answer)

(* A step of MailHandler or MailStorage.                                   *)
StorageStep(t) ==
  \/ Accept(t) \/ HandleMessage(t) \/ IsDirectory(t) \/ Mkdirs(t) \/ WriteFile(t)
  \/ InsertMailEntry(t) \/ UpdateReceived(t)

(* What a session keeps when it goes to another label.                     *)
LEMMA GotoKeeps ==
  ASSUME NEW s \in Session, s # NotRunning, NEW l
  PROVE  LET n == [s EXCEPT !.pc = l] IN n.pc = l /\ n.mail = s.mail
  BY DEF Session, NotRunning

LEMMA NamedGotoKeeps ==
  ASSUME NEW s \in Session, s.pc \in {"insert", "count", "analyze", "confirm", "leaks"},
         NEW l \in {"insert", "count", "analyze", "confirm", "leaks"}
  PROVE  LET n == [s EXCEPT !.pc = l] IN
         n \in Session /\ n.pc = l /\ n.mail = s.mail /\ n.name = s.name
  BY DEF Session, NotRunning

LEMMA AnalyzeLinksEffect ==
  ASSUME TypeOK, NEW t \in SmtpThread, AnalyzeLinks(t),
         smtp[t].pc \in {"analyze", "confirm"}
  PROVE  \/ /\ UNCHANGED sent
            /\ \E n \in Session : /\ n.pc \in Analysis /\ n.mail = smtp[t].mail
                                  /\ smtp' = [smtp EXCEPT ![t] = n]
         \/ \E answer \in {"acked", "queued"} : Finish(t, answer)
  <1>1. smtp[t] \in Session
    BY DEF TypeOK, DeliveryTypeOK
  <1>2. CASE smtp[t].mail.body = "html"
    <2> DEFINE n == [smtp[t] EXCEPT !.pc = "leaks"]
    <2>1. n \in Session /\ n.pc = "leaks" /\ n.mail = smtp[t].mail
      BY <1>1, NamedGotoKeeps
    <2>2. smtp' = [smtp EXCEPT ![t] = n] /\ UNCHANGED sent
      BY <1>2 DEF AnalyzeLinks, Goto, KeepSenders, senderVars
    <2> HIDE DEF n
    <2> QED
      BY <2>1, <2>2 DEF Analysis
  <1>3. CASE smtp[t].mail.body # "html"
    BY <1>3 DEF AnalyzeLinks, Return
  <1> QED
    BY <1>2, <1>3

LEMMA AnalysisEffect ==
  ASSUME TypeOK, NEW t \in SmtpThread,
         \/ Analyze(t) \/ RecordConfirmation(t) \/ ChooseImages(t) \/ ScheduleImage(t)
         \/ RecordLinksToVisit(t)
  PROVE  AnalysisStep(t)
  <1>1. smtp[t] \in Session
    BY DEF TypeOK, DeliveryTypeOK
  <1>2. CASE Analyze(t)
    <2>1. smtp[t].pc = "analyze" /\ UNCHANGED <<users, files, lost, inbox, emailsReceived>>
      BY <1>2 DEF Analyze, KeepDisk, diskVars, userVars, mailVars
    <2>2. CASE AnalyzeLinks(t)
      BY <2>1, <2>2, AnalyzeLinksEffect DEF AnalysisStep, Analysis
    <2>3. CASE \E answer \in {"acked", "queued"} : Finish(t, answer)
      BY <2>1, <2>3 DEF AnalysisStep, Analysis
    <2>4. CASE Goto(t, "confirm") /\ KeepSenders
      <3> DEFINE n == [smtp[t] EXCEPT !.pc = "confirm"]
      <3>1. n \in Session /\ n.pc = "confirm" /\ n.mail = smtp[t].mail
        BY <1>1, <2>1, NamedGotoKeeps
      <3>2. smtp' = [smtp EXCEPT ![t] = n] /\ UNCHANGED sent
        BY <2>4 DEF Goto, KeepSenders, senderVars
      <3> HIDE DEF n
      <3> QED
        BY <2>1, <3>1, <3>2 DEF AnalysisStep, Analysis
    <2> QED
      BY <1>2, <2>2, <2>3, <2>4 DEF Analyze, Return
  <1>3. CASE RecordConfirmation(t)
    <2>1. /\ smtp[t].pc = "confirm" /\ AnalyzeLinks(t)
          /\ UNCHANGED <<users, files, lost, inbox, emailsReceived>>
      BY <1>3 DEF RecordConfirmation, KeepDisk, diskVars, userVars, mailVars
    <2> QED
      BY <2>1, AnalyzeLinksEffect DEF AnalysisStep, Analysis
  <1>4. CASE ChooseImages(t)
    <2>1. /\ smtp[t].pc = "leaks" /\ UNCHANGED sent
          /\ UNCHANGED <<users, files, lost, inbox, emailsReceived>>
      BY <1>4 DEF ChooseImages, KeepDisk, diskVars, KeepDB, dbVars, userVars, mailVars,
                  KeepSenders, senderVars
    <2>2. PICK o \in SUBSET smtp[t].mail.others :
            smtp' = [smtp EXCEPT ![t] = [pc |-> "images", mail |-> smtp[t].mail,
                                         user |-> smtp[t].user,
                                         images |-> smtp[t].mail.pixels \cup o]]
      BY <1>4 DEF ChooseImages
    <2>3. /\ smtp[t].mail \in Mail /\ smtp[t].user \in Snapshot
          /\ smtp[t].mail.pixels \subseteq URL /\ smtp[t].mail.others \subseteq URL
      BY <1>1, <2>1, NamedSessionFields, MailType
    <2>4. [pc |-> "images", mail |-> smtp[t].mail, user |-> smtp[t].user,
           images |-> smtp[t].mail.pixels \cup o] \in Session
      BY <2>3 DEF Session
    <2> QED
      BY <2>1, <2>2, <2>4 DEF AnalysisStep, Analysis
  <1>5. CASE ScheduleImage(t)
    <2>1. /\ smtp[t].pc = "images" /\ UNCHANGED sent
          /\ UNCHANGED <<users, files, lost, inbox, emailsReceived>>
      BY <1>5 DEF ScheduleImage, KeepDisk, diskVars, KeepDB, dbVars, userVars, mailVars,
                  KeepSenders, senderVars
    <2>2. PICK u \in smtp[t].images :
            smtp' = [smtp EXCEPT ![t] = [smtp[t] EXCEPT !.images = smtp[t].images \ {u}]]
      BY <1>5 DEF ScheduleImage
    <2> DEFINE n == [smtp[t] EXCEPT !.images = smtp[t].images \ {u}]
    <2>3. n \in Session /\ n.pc = "images" /\ n.mail = smtp[t].mail
      BY <1>1, <2>1 DEF Session, NotRunning
    <2> HIDE DEF n
    <2>4. smtp' = [smtp EXCEPT ![t] = n]
      BY <2>2 DEF n
    <2> QED
      BY <2>1, <2>3, <2>4 DEF AnalysisStep, Analysis
  <1>6. CASE RecordLinksToVisit(t)
    BY <1>6 DEF RecordLinksToVisit, Return, AnalysisStep, Analysis, KeepDisk, diskVars,
                userVars, mailVars
  <1> QED
    BY <1>2, <1>3, <1>4, <1>5, <1>6

(* The steps of the pool, the clock and the senders leave the mails alone. *)
LEMMA DeliveryEffect ==
  ASSUME TypeOK, DeliveryNext
  PROVE  \/ Elsewhere /\ UNCHANGED users
         \/ \E t \in SmtpThread, m \in Mail : Connect(t, m)
         \/ \E t \in SmtpThread : StorageStep(t) \/ AnalysisStep(t)
  <1>1. ASSUME NEW t \in Thread, RecordLeak(t), UNCHANGED deliveryVars
        PROVE  Elsewhere /\ UNCHANGED users
    BY <1>1 DEF RecordLeak, Elsewhere, deliveryVars, senderVars, diskVars, userVars,
                mailVars
  <1>2. SmtpThread \subseteq Thread /\ PoolThread \subseteq Thread
    BY MailDeliveryAssumption
  <1>3. ASSUME NEW t \in SmtpThread, SmtpStep(t)
        PROVE  \/ Elsewhere /\ UNCHANGED users
               \/ \E s \in SmtpThread : StorageStep(s) \/ AnalysisStep(s)
    <2>1. CASE \/ Analyze(t) \/ RecordConfirmation(t) \/ ChooseImages(t)
               \/ ScheduleImage(t) \/ RecordLinksToVisit(t)
      BY <2>1, AnalysisEffect
    <2>2. CASE RecordMailLeak(t)
      BY <1>1, <1>2, <2>2 DEF RecordMailLeak
    <2> QED
      BY <1>3, <2>1, <2>2 DEF SmtpStep, StorageStep
  <1>4. ASSUME NEW p \in PoolThread, PoolStep(p)
        PROVE  Elsewhere /\ UNCHANGED users
    <2>1. CASE RecordImageLeak(p)
      BY <1>1, <1>2, <2>1 DEF RecordImageLeak
    <2>2. CASE TakeTask(p) \/ Go(p) \/ EnterAddRedirects(p) \/ TaskDone(p)
      BY <2>2 DEF TakeTask, Go, EnterAddRedirects, TaskDone, Elsewhere, KeepDB, dbVars,
                  userVars, mailVars, KeepDisk, diskVars, KeepSenders, senderVars
    <2>3. CASE InsertRedirect(p) \/ RedirectThrows(p)
      BY <2>3 DEF InsertRedirect, RedirectThrows, Elsewhere, userVars, mailVars,
                  KeepDisk, diskVars, KeepSenders, senderVars
    <2> QED
      BY <1>4, <2>1, <2>2, <2>3 DEF PoolStep
  <1>5. Tick => Elsewhere /\ UNCHANGED users
    BY DEF Tick, Elsewhere, KeepDB, dbVars, userVars, mailVars, KeepDisk, diskVars,
           KeepSenders, senderVars
  <1> QED
    BY <1>3, <1>4, <1>5 DEF DeliveryNext

LEMMA WebUsers ==
  ASSUME WebNext
  PROVE  users \subseteq users' /\ UNCHANGED mailVars
  <1> SUFFICES ASSUME NEW w \in WebThread, WebStep(w) \/ Client(w)
               PROVE  users \subseteq users' /\ UNCHANGED mailVars
    BY DEF WebNext
  <1>1. CASE GenerateAddress(w)
    BY <1>1 DEF GenerateAddress, AddMailUser, userVars
  <1>2. CASE LookUpGroup(w) \/ LookUpRecipient(w) \/ ResultsFailed(w) \/ RemoveGroup(w)
    BY <1>2 DEF LookUpGroup, LookUpRecipient, ResultsFailed, RemoveGroup, userVars
  <1>3. CASE RecordLinkLeak(w)
    BY <1>3 DEF RecordLinkLeak, RecordLeak, userVars
  <1>4. CASE Client(w)
    BY <1>4 DEF Client, PostRegister, GetVisit, PostResults, Begin, dbVars, userVars
  <1> QED
    BY <1>1, <1>2, <1>3, <1>4 DEF WebStep

(* A crash ends the sessions; what is stored stays.                        *)
LEMMA StepEffect ==
  ASSUME TypeOK, [Next]_vars
  PROVE  \/ Elsewhere /\ users \subseteq users'
         \/ \E t \in SmtpThread, m \in Mail : Connect(t, m)
         \/ \E t \in SmtpThread : StorageStep(t) \/ AnalysisStep(t)
         \/ Crash
  <1>1. CASE DeliveryNext
    BY <1>1, DeliveryEffect
  <1>2. CASE WebNext /\ UNCHANGED deliveryVars
    BY <1>2, WebUsers DEF Elsewhere, deliveryVars, senderVars, diskVars, mailVars
  <1>3. CASE UNCHANGED vars
    BY <1>3 DEF vars, dbVars, deliveryVars, senderVars, diskVars, userVars, mailVars,
                Elsewhere
  <1> QED
    BY <1>1, <1>2, <1>3 DEF Next

LEMMA UsersGrow ==
  ASSUME TypeOK, [Next]_vars
  PROVE  users \subseteq users'
  <1>1. ASSUME NEW t \in SmtpThread, NEW m \in Mail, Connect(t, m) PROVE UNCHANGED users
    BY <1>1 DEF Connect, KeepDB, dbVars, userVars
  <1>2. ASSUME NEW t \in SmtpThread, StorageStep(t) PROVE UNCHANGED users
    BY <1>2 DEF StorageStep, Accept, HandleMessage, IsDirectory, Mkdirs, WriteFile,
                InsertMailEntry, UpdateReceived, KeepDB, dbVars, userVars
  <1>3. Crash => UNCHANGED users
    BY DEF Crash, userVars
  <1> QED
    BY <1>1, <1>2, <1>3, StepEffect DEF AnalysisStep

(* Faults and crashes are counted, never forgotten.                        *)
LEMMA FaultsGrow ==
  ASSUME TypeOK, [Next]_vars
  PROVE  /\ faults' = 0 => faults = 0
         /\ crashes' = 0 => crashes = 0 /\ ~Crash
  <1>1. faults \in Nat /\ crashes \in Nat
    BY MailDBAssumption, MailServerAssumption DEF TypeOK, DBTypeOK
  <1>2. ASSUME NEW T, Throws(T) PROVE faults' = 0 => faults = 0
    BY <1>1, <1>2 DEF Throws
  <1>3. ASSUME NEW t, RecordLeak(t) PROVE faults' = 0 => faults = 0
    BY <1>2, <1>3 DEF RecordLeak, ScanURL, InsertLeak, CountLeak, CountThirdParty,
                      LeakThrows
  <1>4. ASSUME NEW t \in SmtpThread, SmtpStep(t) PROVE faults' = 0 => faults = 0
    <2>1. CASE IsDirectory(t) \/ ChooseImages(t) \/ ScheduleImage(t)
      BY <2>1 DEF IsDirectory, ChooseImages, ScheduleImage, KeepDB, dbVars
    <2>2. CASE Mkdirs(t) \/ WriteFile(t) \/ Analyze(t)
      BY <1>1, <2>2 DEF Mkdirs, WriteFile, Analyze
    <2>3. CASE \/ Accept(t) \/ HandleMessage(t) \/ InsertMailEntry(t)
               \/ UpdateReceived(t) \/ RecordConfirmation(t) \/ RecordLinksToVisit(t)
      BY <1>2, <2>3 DEF Accept, HandleMessage, InsertMailEntry, UpdateReceived,
                        RecordConfirmation, RecordLinksToVisit
    <2> QED
      BY <1>3, <1>4, <2>1, <2>2, <2>3 DEF SmtpStep, RecordMailLeak
  <1>5. ASSUME NEW p \in PoolThread, PoolStep(p) PROVE faults' = 0 => faults = 0
    <2>1. CASE TakeTask(p) \/ Go(p) \/ EnterAddRedirects(p) \/ TaskDone(p)
      BY <2>1 DEF TakeTask, Go, EnterAddRedirects, TaskDone, KeepDB, dbVars
    <2>2. CASE InsertRedirect(p) \/ RedirectThrows(p)
      BY <1>2, <2>2 DEF InsertRedirect, RedirectThrows
    <2> QED
      BY <1>3, <1>5, <2>1, <2>2 DEF PoolStep, RecordImageLeak
  <1>6. DeliveryNext => (faults' = 0 => faults = 0)
    BY <1>4, <1>5 DEF DeliveryNext, Tick, Connect, KeepDB, dbVars
  <1>7. WebNext => (faults' = 0 => faults = 0)
    <2> SUFFICES ASSUME NEW w \in WebThread, WebStep(w) \/ Client(w)
                 PROVE  faults' = 0 => faults = 0
      BY DEF WebNext
    <2>1. CASE GenerateAddress(w) \/ LookUpGroup(w) \/ LookUpRecipient(w) \/ RemoveGroup(w)
      BY <1>2, <2>1 DEF GenerateAddress, LookUpGroup, LookUpRecipient, RemoveGroup
    <2>2. CASE ResultsFailed(w)
      BY <2>2 DEF ResultsFailed
    <2>3. CASE Client(w)
      BY <1>2, <2>3 DEF Client, PostRegister, GetVisit, PostResults, Begin, dbVars
    <2> QED
      BY <1>3, <2>1, <2>2, <2>3 DEF WebStep, RecordLinkLeak
  <1>8. Crash => (faults' = 0 => faults = 0) /\ crashes' # 0
    BY <1>1 DEF Crash
  <1>9. UNCHANGED vars => (faults' = 0 => faults = 0) /\ UNCHANGED crashes
    BY DEF vars, dbVars
  <1> QED
    BY <1>6, <1>7, <1>8, <1>9 DEF Next

-----------------------------------------------------------------------------
(* What a session is after each of its steps through the storage.          *)

Continues(t, pcs) ==
  \E n \in Session : /\ n.pc \in pcs /\ n.mail = smtp[t].mail
                     /\ smtp' = [smtp EXCEPT ![t] = n]

LEMMA AcceptEffect ==
  ASSUME TypeOK, NEW t \in SmtpThread, Accept(t)
  PROVE  /\ smtp[t].pc = "accept"
         /\ UNCHANGED <<users, files, lost, inbox, emailsReceived>>
         /\ \/ /\ Continues(t, {"handle"}) /\ UNCHANGED sent
               /\ smtp[t].mail.to \in users \/ Throws({"users"})
            \/ Finish(t, "bounced")
  <1>1. smtp[t] \in Session /\ smtp[t].pc = "accept"
    BY DEF TypeOK, DeliveryTypeOK, Accept
  <1> DEFINE n == [smtp[t] EXCEPT !.pc = "handle"]
  <1>2. n \in Session /\ n.pc = "handle" /\ n.mail = smtp[t].mail
    <2>1. smtp[t] # NotRunning
      BY <1>1 DEF NotRunning
    <2> QED
      BY <1>1, <2>1, SessionFields, GotoKeeps
  <1>3. \/ smtp' = [smtp EXCEPT ![t] = n] /\ UNCHANGED sent
           /\ (smtp[t].mail.to \in users \/ Throws({"users"}))
        \/ Finish(t, "bounced")
    BY DEF Accept, UserExists, Goto, KeepSenders, senderVars
  <1>4. UNCHANGED <<users, files, lost, inbox, emailsReceived>>
    BY DEF Accept, KeepDisk, diskVars, userVars, mailVars
  <1> HIDE DEF n
  <1> QED
    BY <1>1, <1>2, <1>3, <1>4 DEF Continues

LEMMA HandleMessageEffect ==
  ASSUME TypeOK, NEW t \in SmtpThread, HandleMessage(t)
  PROVE  /\ smtp[t].pc = "handle"
         /\ UNCHANGED <<users, files, lost, inbox, emailsReceived>>
         /\ \/ /\ Continues(t, {"isdir"}) /\ UNCHANGED sent
               /\ smtp[t].mail.to \in users
            \/ /\ Return(t)
               /\ smtp[t].mail.to \notin users \/ Throws({"users", "counters"})
  <1>1. smtp[t] \in Session /\ smtp[t].pc = "handle"
    BY DEF TypeOK, DeliveryTypeOK, HandleMessage
  <1>2. smtp[t].mail \in Mail /\ smtp[t].mail.to \in Address
    BY <1>1, SessionFields, MailType
  <1>3. UserInfo(smtp[t].mail.to) \in Snapshot
    BY <1>2 DEF TypeOK, DBTypeOK, UserInfo, Snapshot
  <1> DEFINE n == [pc |-> "isdir", mail |-> smtp[t].mail, user |-> UserInfo(smtp[t].mail.to)]
  <1>4. n \in Session /\ n.pc = "isdir" /\ n.mail = smtp[t].mail
    BY <1>2, <1>3 DEF Session
  <1>5. \/ smtp' = [smtp EXCEPT ![t] = n] /\ UNCHANGED sent /\ smtp[t].mail.to \in users
        \/ /\ Return(t)
           /\ smtp[t].mail.to \notin users \/ Throws({"users", "counters"})
    BY DEF HandleMessage, KeepSenders, senderVars
  <1>6. UNCHANGED <<users, files, lost, inbox, emailsReceived>>
    BY DEF HandleMessage, KeepDisk, diskVars, userVars, mailVars
  <1> HIDE DEF n
  <1> QED
    BY <1>1, <1>4, <1>5, <1>6 DEF Continues

(* The directory is chosen: that of the recipient or the root.             *)
LEMMA DirectoryEffect ==
  ASSUME TypeOK, NEW t \in SmtpThread, IsDirectory(t) \/ Mkdirs(t)
  PROVE  /\ smtp[t].pc \in {"isdir", "mkdirs"}
         /\ UNCHANGED <<users, sent, files, lost, inbox, emailsReceived>>
         /\ \E n \in Session :
              /\ n.pc \in {"mkdirs", "write"} /\ n.mail = smtp[t].mail
              /\ n.pc = "write" => n.dir \in {n.mail.to, Root}
              /\ smtp' = [smtp EXCEPT ![t] = n]
  <1>1. smtp[t] \in Session /\ smtp[t].pc \in {"isdir", "mkdirs"}
    BY DEF TypeOK, DeliveryTypeOK, IsDirectory, Mkdirs
  <1>2. UNCHANGED <<users, sent, files, lost, inbox, emailsReceived>>
    BY DEF IsDirectory, Mkdirs, KeepDisk, diskVars, KeepDB, dbVars, userVars, mailVars,
           KeepSenders, senderVars
  <1>3. CASE Goto(t, "mkdirs") /\ smtp[t].pc = "isdir"
    <2> DEFINE n == [smtp[t] EXCEPT !.pc = "mkdirs"]
    <2>1. n \in Session /\ n.pc = "mkdirs" /\ n.mail = smtp[t].mail
      <3>1. smtp[t] # NotRunning
        BY <1>3 DEF NotRunning
      <3> QED
        BY <1>1, <1>3, <3>1, SessionFields, GotoKeeps
    <2>2. smtp' = [smtp EXCEPT ![t] = n]
      BY <1>3 DEF Goto
    <2> HIDE DEF n
    <2> QED
      BY <1>1, <1>2, <2>1, <2>2
  <1>4. ASSUME NEW dir \in {smtp[t].mail.to, Root}, WriteTo(t, dir)
        PROVE  \E n \in Session :
                 /\ n.pc \in {"mkdirs", "write"} /\ n.mail = smtp[t].mail
                 /\ n.pc = "write" => n.dir \in {n.mail.to, Root}
                 /\ smtp' = [smtp EXCEPT ![t] = n]
    <2> DEFINE n == [pc |-> "write", mail |-> smtp[t].mail, user |-> smtp[t].user,
                     dir |-> dir]
    <2>1. smtp[t].mail.to \in Address
      BY <1>1, SessionFields, MailType
    <2>2. n \in Session
      BY <1>1, <2>1, WriteToType
    <2>3. smtp' = [smtp EXCEPT ![t] = n]
      BY <1>4 DEF WriteTo
    <2> QED
      BY <2>2, <2>3
  <1>5. \/ Goto(t, "mkdirs") /\ smtp[t].pc = "isdir"
        \/ \E dir \in {smtp[t].mail.to, Root} : WriteTo(t, dir)
    BY DEF IsDirectory, Mkdirs
  <1> QED
    BY <1>1, <1>2, <1>3, <1>4, <1>5

LEMMA WriteFileEffect ==
  ASSUME TypeOK, NEW t \in SmtpThread, WriteFile(t)
  PROVE  /\ smtp[t].pc = "write" /\ UNCHANGED <<users, sent, inbox, emailsReceived>>
         /\ smtp[t].mail \in Mail /\ now \in 1 .. MaxTime
         /\ lost' = lost \cup (Replaced(smtp[t].dir, now) \ {smtp[t].mail, NoMail})
         /\ \E m \in {smtp[t].mail, NoMail} :
              /\ files' = Put(smtp[t].dir, now, m) \/ files' = files
              /\ UNCHANGED faults => files' = Put(smtp[t].dir, now, smtp[t].mail)
         /\ \E n \in Session : /\ n.pc = "insert" /\ n.mail = smtp[t].mail /\ n.name = now
                               /\ smtp' = [smtp EXCEPT ![t] = n]
  <1>1. /\ smtp[t] \in Session /\ smtp[t].pc = "write" /\ now \in Nat /\ now \in 1 .. MaxTime
        /\ faults \in Nat
    BY MailDeliveryAssumption, MailDBAssumption DEF TypeOK, DBTypeOK, DeliveryTypeOK, WriteFile
  <1>2. smtp[t].mail \in Mail /\ smtp[t].user \in Snapshot
    BY <1>1, SessionFields
  <1> DEFINE n == [pc |-> "insert", mail |-> smtp[t].mail, user |-> smtp[t].user,
                   name |-> now]
  <1>3. n \in Session /\ n.pc = "insert" /\ n.mail = smtp[t].mail /\ n.name = now
    BY <1>1, <1>2 DEF Session
  <1>4. smtp' = [smtp EXCEPT ![t] = n]
    BY DEF WriteFile
  <1>5. UNCHANGED <<users, sent, inbox, emailsReceived>>
    BY DEF WriteFile, KeepSenders, senderVars, userVars, mailVars
  <1>6. \E m \in {smtp[t].mail, NoMail} :
          /\ files' = Put(smtp[t].dir, now, m) \/ files' = files
          /\ UNCHANGED faults => files' = Put(smtp[t].dir, now, smtp[t].mail)
    BY <1>1 DEF WriteFile
  <1>7. lost' = lost \cup (Replaced(smtp[t].dir, now) \ {smtp[t].mail, NoMail})
    BY DEF WriteFile
  <1> HIDE DEF n
  <1> QED
    BY <1>1, <1>2, <1>3, <1>4, <1>5, <1>6, <1>7

LEMMA InsertMailEntryEffect ==
  ASSUME TypeOK, NEW t \in SmtpThread, InsertMailEntry(t)
  PROVE  /\ smtp[t].pc = "insert" /\ smtp[t].mail \in Mail /\ smtp[t].name \in Nat
         /\ UNCHANGED <<users, sent, files, lost, emailsReceived>>
         /\ \/ /\ InsertInbox(smtp[t].mail.to, smtp[t].name) /\ Continues(t, {"count"})
               /\ UNCHANGED faults
            \/ /\ InboxKeyTaken(smtp[t].mail.to, smtp[t].name)
               /\ Continues(t, {"analyze"}) /\ UNCHANGED <<inbox, faults>>
            \/ Throws({"inbox"}) /\ Continues(t, {"analyze"}) /\ UNCHANGED inbox
  <1>1. smtp[t] \in Session /\ smtp[t].pc = "insert"
    BY DEF TypeOK, DeliveryTypeOK, InsertMailEntry
  <1>2. smtp[t].mail \in Mail /\ smtp[t].name \in Nat
    BY <1>1, NamedSessionFields
  <1>3. \A l \in {"count", "analyze"} : Goto(t, l) => Continues(t, {l})
    <2> SUFFICES ASSUME NEW l \in {"count", "analyze"}, Goto(t, l) PROVE Continues(t, {l})
      OBVIOUS
    <2> DEFINE n == [smtp[t] EXCEPT !.pc = l]
    <2>0. l \in {"insert", "count", "analyze", "confirm", "leaks"}
      OBVIOUS
    <2>1. n \in Session /\ n.pc = l /\ n.mail = smtp[t].mail
      BY <1>1, <2>0, NamedGotoKeeps
    <2>2. smtp' = [smtp EXCEPT ![t] = n]
      BY DEF Goto
    <2> HIDE DEF n
    <2> QED
      BY <2>1, <2>2 DEF Continues
  <1>4. UNCHANGED <<users, sent, files, lost, emailsReceived>>
    BY DEF InsertMailEntry, KeepDisk, diskVars, KeepSenders, senderVars, userVars
  <1> QED
    BY <1>1, <1>2, <1>3, <1>4 DEF InsertMailEntry

LEMMA UpdateReceivedEffect ==
  ASSUME TypeOK, NEW t \in SmtpThread, UpdateReceived(t)
  PROVE  /\ smtp[t].pc = "count" /\ smtp[t].mail \in Mail
         /\ UNCHANGED <<users, sent, files, lost, inbox>> /\ Continues(t, {"analyze"})
         /\ CountEmail(smtp[t].mail.to) \/ UNCHANGED emailsReceived
  <1>1. smtp[t] \in Session /\ smtp[t].pc = "count"
    BY DEF TypeOK, DeliveryTypeOK, UpdateReceived
  <1> DEFINE n == [smtp[t] EXCEPT !.pc = "analyze"]
  <1>2. n \in Session /\ n.pc = "analyze" /\ n.mail = smtp[t].mail /\ smtp[t].mail \in Mail
    BY <1>1, NamedGotoKeeps, NamedSessionFields
  <1>3. smtp' = [smtp EXCEPT ![t] = n]
    BY DEF UpdateReceived, Goto
  <1>4. UNCHANGED <<users, sent, files, lost, inbox>>
    BY DEF UpdateReceived, KeepDisk, diskVars, KeepSenders, senderVars, userVars
  <1>5. CountEmail(smtp[t].mail.to) \/ UNCHANGED emailsReceived
    BY DEF UpdateReceived
  <1> HIDE DEF n
  <1> QED
    BY <1>1, <1>2, <1>3, <1>4, <1>5 DEF Continues

-----------------------------------------------------------------------------
(* The counter of received mails.  A session between the INSERT of its row *)
(* and the UPDATE of the counter is owed one.                              *)

MailOwed(a) == emailsReceived[a] + Cardinality(UncountedMail(a)) <= Cardinality(inbox[a])

(* Session t leaves the state smtp[t] for n.                               *)
SessionBecomes(t, n) == smtp' = [smtp EXCEPT ![t] = n]

LEMMA OwedMailSets ==
  ASSUME TypeOK, NEW t \in SmtpThread, NEW n, SessionBecomes(t, n), NEW a \in Address
  PROVE  /\ Cardinality(UncountedMail(a)) \in Nat /\ Cardinality(UncountedMail(a)') \in Nat
         /\ LET owed == smtp[t].pc = "count" /\ smtp[t].mail.to = a
                owedNext == n.pc = "count" /\ n.mail.to = a
            IN /\ (owed <=> owedNext) =>
                    Cardinality(UncountedMail(a)') = Cardinality(UncountedMail(a))
               /\ ~owed /\ owedNext =>
                    Cardinality(UncountedMail(a)') = Cardinality(UncountedMail(a)) + 1
               /\ owed /\ ~owedNext =>
                    Cardinality(UncountedMail(a)) = Cardinality(UncountedMail(a)') + 1
  <1>1. t \in Thread /\ SmtpThread \subseteq Thread
    BY MailDeliveryAssumption
  <1>2. smtp'[t] = n /\ \A s \in SmtpThread \ {t} : smtp'[s] = smtp[s]
    BY DEF TypeOK, DeliveryTypeOK, SessionBecomes
  <1>3. /\ UncountedMail(a) \in SUBSET Thread /\ UncountedMail(a)' \in SUBSET Thread
        /\ UncountedMail(a) \ {t} = UncountedMail(a)' \ {t}
        /\ t \in UncountedMail(a) <=> smtp[t].pc = "count" /\ smtp[t].mail.to = a
        /\ t \in UncountedMail(a)' <=> n.pc = "count" /\ n.mail.to = a
    BY <1>1, <1>2 DEF UncountedMail
  <1> QED
    BY <1>1, <1>3, OneThreadMoves

(* Outside the two statements a session is not between them.               *)
LEMMA UncountedMailKept ==
  ASSUME TypeOK, NEW t \in SmtpThread, NEW n, SessionBecomes(t, n), NEW a \in Address,
         smtp[t].pc # "count", n.pc # "count", UNCHANGED <<inbox, emailsReceived>>,
         MailOwed(a)
  PROVE  MailOwed(a)'
  <1>1. Cardinality(UncountedMail(a)') = Cardinality(UncountedMail(a))
    BY OwedMailSets
  <1> QED
    BY <1>1 DEF MailOwed

LEMMA ReceivedStep ==
  ASSUME TypeOK, [Next]_vars, NEW a \in Address, MailOwed(a)
  PROVE  MailOwed(a)'
  <1>1. /\ emailsReceived \in [Address -> Nat] /\ inbox[a] \in SUBSET Nat
        /\ IsFiniteSet(inbox[a]) /\ Cardinality(inbox[a]) \in Nat
    BY FS_CardinalityType DEF TypeOK, DBTypeOK
  <1>2. CASE Elsewhere
    BY <1>2 DEF Elsewhere, MailOwed, UncountedMail
  <1>3. ASSUME NEW t \in SmtpThread, NEW m \in Mail, Connect(t, m) PROVE MailOwed(a)'
    <2>1. /\ SessionBecomes(t, [pc |-> "accept", mail |-> m]) /\ smtp[t].pc # "count"
          /\ UNCHANGED <<inbox, emailsReceived>>
      BY <1>3 DEF Connect, SessionBecomes, KeepDB, dbVars, mailVars
    <2> QED
      BY <2>1, UncountedMailKept
  <1>4. ASSUME NEW t \in SmtpThread, NEW pcs, Continues(t, pcs), "count" \notin pcs,
               smtp[t].pc # "count", UNCHANGED <<inbox, emailsReceived>>
        PROVE  MailOwed(a)'
    BY <1>4, UncountedMailKept DEF Continues, SessionBecomes
  <1>5. ASSUME NEW t \in SmtpThread, NEW answer, Finish(t, answer),
               smtp[t].pc # "count", UNCHANGED <<inbox, emailsReceived>>
        PROVE  MailOwed(a)'
    <2>1. SessionBecomes(t, NotRunning) /\ NotRunning.pc # "count"
      BY <1>5 DEF Finish, SessionBecomes, NotRunning
    <2> HIDE DEF NotRunning
    <2> QED
      BY <1>5, <2>1, UncountedMailKept
  <1>6. ASSUME NEW t \in SmtpThread, StorageStep(t) PROVE MailOwed(a)'
    <2>1. CASE Accept(t)
      BY <1>4, <1>5, <2>1, AcceptEffect
    <2>2. CASE HandleMessage(t)
      BY <1>4, <1>5, <2>2, HandleMessageEffect DEF Return
    <2>3. CASE IsDirectory(t) \/ Mkdirs(t)
      BY <1>4, <2>3, DirectoryEffect DEF Continues
    <2>4. CASE WriteFile(t)
      BY <1>4, <2>4, WriteFileEffect DEF Continues
    <2>5. CASE InsertMailEntry(t)
      <3>1. /\ smtp[t].pc = "insert" /\ smtp[t].mail \in Mail /\ smtp[t].name \in Nat
            /\ emailsReceived' = emailsReceived
        BY <2>5, InsertMailEntryEffect
      <3>2. CASE InsertInbox(smtp[t].mail.to, smtp[t].name) /\ Continues(t, {"count"})
        <4> DEFINE to == smtp[t].mail.to
        <4>1. PICK n \in Session : n.pc = "count" /\ n.mail = smtp[t].mail
                                   /\ SessionBecomes(t, n)
          BY <3>2 DEF Continues, SessionBecomes
        <4>2. inbox'[a] = IF a = to THEN inbox[a] \cup {smtp[t].name} ELSE inbox[a]
          BY <3>2 DEF InsertInbox, TypeOK, DBTypeOK
        <4>3. a = to => Cardinality(inbox'[a]) = Cardinality(inbox[a]) + 1
          BY <1>1, <3>2, <4>2, FS_AddElement DEF InsertInbox
        <4>4. /\ Cardinality(UncountedMail(a)) \in Nat
              /\ a = to =>
                   Cardinality(UncountedMail(a)') = Cardinality(UncountedMail(a)) + 1
              /\ a # to => Cardinality(UncountedMail(a)') = Cardinality(UncountedMail(a))
          BY <3>1, <4>1, OwedMailSets
        <4>5. a # to => inbox'[a] = inbox[a]
          BY <4>2
        <4> HIDE DEF to
        <4> QED
          BY <1>1, <3>1, <4>3, <4>4, <4>5 DEF MailOwed
      <3>3. CASE Continues(t, {"analyze"}) /\ UNCHANGED inbox
        BY <1>4, <3>1, <3>3
      <3> QED
        BY <2>5, <3>2, <3>3, InsertMailEntryEffect
    <2>6. CASE UpdateReceived(t)
      <3>1. /\ smtp[t].pc = "count" /\ inbox' = inbox /\ Continues(t, {"analyze"})
            /\ CountEmail(smtp[t].mail.to) \/ UNCHANGED emailsReceived
        BY <2>6, UpdateReceivedEffect
      <3> DEFINE to == smtp[t].mail.to
      <3>2. PICK n \in Session : n.pc = "analyze" /\ SessionBecomes(t, n)
        BY <3>1 DEF Continues, SessionBecomes
      <3>3. /\ Cardinality(UncountedMail(a)) \in Nat /\ Cardinality(UncountedMail(a)') \in Nat
            /\ a = to => Cardinality(UncountedMail(a)) = Cardinality(UncountedMail(a)') + 1
            /\ a # to => Cardinality(UncountedMail(a)') = Cardinality(UncountedMail(a))
        BY <3>1, <3>2, OwedMailSets
      <3>4. emailsReceived'[a] \in
              IF a = to THEN {emailsReceived[a], emailsReceived[a] + 1}
              ELSE {emailsReceived[a]}
        BY <1>1, <3>1 DEF CountEmail
      <3> HIDE DEF to
      <3> QED
        BY <1>1, <3>1, <3>3, <3>4 DEF MailOwed
    <2> QED
      BY <1>6, <2>1, <2>2, <2>3, <2>4, <2>5, <2>6 DEF StorageStep
  <1>7. ASSUME NEW t \in SmtpThread, AnalysisStep(t) PROVE MailOwed(a)'
    <2>1. smtp[t].pc # "count" /\ UNCHANGED <<inbox, emailsReceived>>
      BY <1>7 DEF AnalysisStep, Analysis
    <2>2. Continues(t, Analysis) \/ \E answer : Finish(t, answer)
      BY <1>7 DEF AnalysisStep, Continues
    <2> QED
      BY <1>4, <1>5, <2>1, <2>2 DEF Analysis
  <1>8. CASE Crash
    <2>1. UncountedMail(a)' = {} /\ emailsReceived' = emailsReceived /\ inbox' = inbox
      BY <1>8 DEF Crash, NotRunning, UncountedMail, mailVars
    <2>2. Cardinality(UncountedMail(a)) \in Nat
      BY MailDeliveryAssumption, MailDBAssumption, FS_Subset, FS_CardinalityType
         DEF UncountedMail
    <2> QED
      BY <1>1, <2>1, <2>2, FS_EmptySet DEF MailOwed
  <1> QED
    BY <1>2, <1>3, <1>6, <1>7, <1>8, StepEffect

(* users.emails_received never exceeds the rows of inbox it counts, for    *)
(* any number of sessions, faults and crashes (MailDB.addMailEntry).       *)
THEOREM ReceivedMails == Spec => []ReceivedCovered
  <1>1. Init => ReceivedCovered
    <2> SUFFICES ASSUME Init, NEW a \in Address PROVE MailOwed(a)
      BY DEF ReceivedCovered, MailOwed
    <2>1. UncountedMail(a) = {}
      BY DEF Init, DeliveryInit, NotRunning, UncountedMail
    <2> QED
      BY <2>1, FS_EmptySet DEF Init, DBInit, MailOwed
  <1>2. TypeOK /\ ReceivedCovered /\ [Next]_vars => ReceivedCovered'
    BY ReceivedStep DEF ReceivedCovered, MailOwed
  <1> QED
    BY <1>1, <1>2, TypeCorrect, PTL DEF Spec

(* The rows of inbox and their counter implement the abstract ledger.      *)
InboxRows == [a \in Address |-> Cardinality(inbox[a])]

LEMMA RowsAndCountKept ==
  ASSUME TypeOK, [Next]_vars
  PROVE  \/ UNCHANGED <<inbox, emailsReceived>>
         \/ \E t \in SmtpThread : InsertMailEntry(t) \/ UpdateReceived(t)
  <1>1. ASSUME NEW t \in SmtpThread, NEW m \in Mail, Connect(t, m)
        PROVE  UNCHANGED <<inbox, emailsReceived>>
    BY <1>1 DEF Connect, KeepDB, dbVars, mailVars
  <1>2. ASSUME NEW t \in SmtpThread,
               Accept(t) \/ HandleMessage(t) \/ IsDirectory(t) \/ Mkdirs(t) \/ WriteFile(t)
        PROVE  UNCHANGED <<inbox, emailsReceived>>
    BY <1>2, AcceptEffect, HandleMessageEffect, DirectoryEffect, WriteFileEffect
  <1>3. Crash => UNCHANGED <<inbox, emailsReceived>>
    BY DEF Crash, mailVars
  <1> QED
    BY <1>1, <1>2, <1>3, StepEffect DEF Elsewhere, AnalysisStep, StorageStep

LEMMA InboxRefinedStep ==
  ASSUME TypeOK, ReceivedCovered, [Next]_vars
  PROVE  [InboxLedger!Next]_<<InboxRows, emailsReceived>>
  <1>1. /\ emailsReceived \in [Address -> Nat]
        /\ \A a \in Address : IsFiniteSet(inbox[a]) /\ Cardinality(inbox[a]) \in Nat
    BY FS_CardinalityType DEF TypeOK, DBTypeOK
  <1>2. CASE UNCHANGED <<inbox, emailsReceived>>
    BY <1>2 DEF InboxRows
  <1>3. ASSUME NEW t \in SmtpThread, InsertMailEntry(t)
        PROVE  InboxLedger!Next \/ UNCHANGED <<inbox, emailsReceived>>
    <2>1. /\ smtp[t].mail \in Mail /\ emailsReceived' = emailsReceived
          /\ InsertInbox(smtp[t].mail.to, smtp[t].name) \/ UNCHANGED inbox
      BY <1>3, InsertMailEntryEffect
    <2> DEFINE to == smtp[t].mail.to
               f == smtp[t].name
    <2>2. to \in Address
      BY <2>1, MailType
    <2> HIDE DEF to, f
    <2>3. CASE InsertInbox(to, f)
      <3>1. /\ Cardinality(inbox'[to]) = Cardinality(inbox[to]) + 1
            /\ \A a \in Address \ {to} : inbox'[a] = inbox[a]
        <4>1. /\ f \notin inbox[to] /\ inbox'[to] = inbox[to] \cup {f}
              /\ \A a \in Address \ {to} : inbox'[a] = inbox[a]
          BY <2>2, <2>3 DEF InsertInbox, TypeOK, DBTypeOK
        <4>2. Cardinality(inbox[to] \cup {f}) = Cardinality(inbox[to]) + 1
          BY <1>1, <2>2, <4>1, FS_AddElement
        <4> QED
          BY <4>1, <4>2
      <3>2. InboxRows' = [InboxRows EXCEPT ![to] = InboxRows[to] + 1]
        BY <2>2, <3>1 DEF InboxRows
      <3>3. InboxLedger!Enter(to)
        BY <2>1, <3>2 DEF InboxLedger!Enter, InboxRows
      <3> QED
        BY <2>2, <3>3 DEF InboxLedger!Next
    <2> QED
      BY <2>1, <2>3 DEF to, f
  <1>4. ASSUME NEW t \in SmtpThread, UpdateReceived(t)
        PROVE  InboxLedger!Next \/ UNCHANGED <<inbox, emailsReceived>>
    <2>1. /\ smtp[t].pc = "count" /\ smtp[t].mail \in Mail /\ inbox' = inbox
          /\ CountEmail(smtp[t].mail.to) \/ UNCHANGED emailsReceived
      BY <1>4, UpdateReceivedEffect
    <2> DEFINE to == smtp[t].mail.to
    <2>2. to \in Address /\ t \in UncountedMail(to)
      BY <2>1, MailType DEF UncountedMail
    <2>3. /\ Cardinality(UncountedMail(to)) \in Nat /\ Cardinality(UncountedMail(to)) # 0
      <3>1. IsFiniteSet(UncountedMail(to))
        BY MailDeliveryAssumption, MailDBAssumption, FS_Subset DEF UncountedMail
      <3> QED
        BY <2>2, <3>1, FS_CardinalityType, FS_EmptySet
    <2>4. emailsReceived[to] + Cardinality(UncountedMail(to)) <= Cardinality(inbox[to])
      BY <2>2 DEF ReceivedCovered
    <2>5. emailsReceived[to] < InboxRows[to]
      BY <1>1, <2>2, <2>3, <2>4 DEF InboxRows
    <2> HIDE DEF to
    <2>6. CountEmail(to) => InboxLedger!Count(to)
      BY <2>1, <2>5 DEF CountEmail, InboxLedger!Count, InboxRows
    <2> QED
      BY <2>1, <2>2, <2>6 DEF InboxLedger!Next, to
  <1> QED
    BY <1>2, <1>3, <1>4, RowsAndCountKept

(* Every behaviour of the server is one of the ledger: a mail is counted   *)
(* only after its row and never twice (MailDB.addMailEntry).               *)
THEOREM InboxLedgerRefined == Spec => InboxLedgerImplemented
  <1>1. Init => InboxLedger!Init
    BY FS_EmptySet DEF Init, DBInit, InboxLedger!Init
  <1>2. TypeOK /\ ReceivedCovered /\ [Next]_vars
          => [InboxLedger!Next]_<<InboxRows, emailsReceived>>
    BY InboxRefinedStep
  <1> QED
    BY <1>1, <1>2, TypeCorrect, ReceivedMails, PTL
       DEF Spec, InboxLedgerImplemented, InboxLedger!Spec, InboxRows

-----------------------------------------------------------------------------
(* Only mail for registered addresses is stored.  The address is looked up *)
(* again in handleMessage, and no row of users is ever removed: from there *)
(* on the recipient of a session is registered.                            *)

RecipientsKnown ==
  \A t \in SmtpThread : smtp[t].pc \in PastCheck => smtp[t].mail.to \in users

LEMMA RecipientsKnownStep ==
  ASSUME TypeOK, RecipientsKnown, [Next]_vars
  PROVE  RecipientsKnown'
  <1>1. users \subseteq users' /\ smtp \in [SmtpThread -> Session]
    BY UsersGrow DEF TypeOK, DeliveryTypeOK
  <1>2. ASSUME NEW t \in SmtpThread, NEW n, SessionBecomes(t, n),
               n.pc \in PastCheck => n.mail.to \in users
        PROVE  RecipientsKnown'
    BY <1>1, <1>2 DEF SessionBecomes, RecipientsKnown
  <1>3. ASSUME NEW t \in SmtpThread, NEW m \in Mail, Connect(t, m) PROVE RecipientsKnown'
    <2> DEFINE n == [pc |-> "accept", mail |-> m]
    <2>1. SessionBecomes(t, n) /\ n.pc \notin PastCheck
      BY <1>3 DEF Connect, SessionBecomes, PastCheck, PastWrite
    <2> HIDE DEF n
    <2> QED
      BY <1>2, <2>1
  <1>4. ASSUME NEW t \in SmtpThread, NEW pcs, Continues(t, pcs),
               smtp[t].mail.to \in users \/ pcs \cap PastCheck = {}
        PROVE  RecipientsKnown'
    BY <1>2, <1>4 DEF Continues, SessionBecomes
  <1>5. ASSUME NEW t \in SmtpThread, NEW answer, Finish(t, answer) PROVE RecipientsKnown'
    <2>1. SessionBecomes(t, NotRunning) /\ NotRunning.pc \notin PastCheck
      BY <1>5 DEF Finish, SessionBecomes, NotRunning, PastCheck, PastWrite
    <2> HIDE DEF NotRunning
    <2> QED
      BY <1>2, <2>1
  <1>6. ASSUME NEW t \in SmtpThread, smtp[t].pc \in PastCheck
        PROVE  smtp[t].mail.to \in users
    BY <1>6 DEF RecipientsKnown
  <1>7. ASSUME NEW t \in SmtpThread, StorageStep(t) PROVE RecipientsKnown'
    <2>1. CASE Accept(t)
      BY <1>4, <1>5, <2>1, AcceptEffect DEF PastCheck, PastWrite
    <2>2. CASE HandleMessage(t)
      BY <1>4, <1>5, <2>2, HandleMessageEffect DEF Return
    <2>3. CASE IsDirectory(t) \/ Mkdirs(t)
      <3>1. smtp[t].pc \in {"isdir", "mkdirs"} /\ Continues(t, {"mkdirs", "write"})
        BY <2>3, DirectoryEffect DEF Continues
      <3> QED
        BY <1>4, <1>6, <3>1 DEF PastCheck
    <2>4. CASE WriteFile(t)
      <3>1. smtp[t].pc = "write" /\ Continues(t, {"insert"})
        BY <2>4, WriteFileEffect DEF Continues
      <3> QED
        BY <1>4, <1>6, <3>1 DEF PastCheck
    <2>5. CASE InsertMailEntry(t) \/ UpdateReceived(t)
      <3>1. /\ smtp[t].pc \in {"insert", "count"}
            /\ Continues(t, {"count"}) \/ Continues(t, {"analyze"})
        BY <2>5, InsertMailEntryEffect, UpdateReceivedEffect
      <3> QED
        BY <1>4, <1>6, <3>1 DEF PastCheck, PastWrite
    <2> QED
      BY <1>7, <2>1, <2>2, <2>3, <2>4, <2>5 DEF StorageStep
  <1>8. ASSUME NEW t \in SmtpThread, AnalysisStep(t) PROVE RecipientsKnown'
    <2>1. /\ smtp[t].pc \in PastCheck
          /\ Continues(t, Analysis) \/ \E answer : Finish(t, answer)
      BY <1>8 DEF AnalysisStep, Continues, Analysis, PastCheck, PastWrite
    <2> QED
      BY <1>4, <1>5, <1>6, <2>1
  <1>9. CASE Elsewhere
    BY <1>1, <1>9 DEF Elsewhere, RecipientsKnown
  <1>10. CASE Crash
    BY <1>10 DEF Crash, RecipientsKnown, NotRunning, PastCheck, PastWrite
  <1> QED
    BY <1>3, <1>7, <1>8, <1>9, <1>10, StepEffect

(* The files change in one action only.                                    *)
LEMMA FilesKept ==
  ASSUME TypeOK, [Next]_vars
  PROVE  UNCHANGED <<files, lost>> \/ \E t \in SmtpThread : WriteFile(t)
  <1>1. ASSUME NEW t \in SmtpThread, NEW m \in Mail, Connect(t, m)
        PROVE  UNCHANGED <<files, lost>>
    BY <1>1 DEF Connect, KeepDisk, diskVars
  <1>2. ASSUME NEW t \in SmtpThread, StorageStep(t), ~WriteFile(t)
        PROVE  UNCHANGED <<files, lost>>
    BY <1>2, AcceptEffect, HandleMessageEffect, DirectoryEffect, InsertMailEntryEffect,
       UpdateReceivedEffect DEF StorageStep
  <1>3. Crash => UNCHANGED <<files, lost>>
    BY DEF Crash, diskVars
  <1> QED
    BY <1>1, <1>2, <1>3, StepEffect DEF Elsewhere, AnalysisStep

LEMMA OnlyRegisteredStep ==
  ASSUME TypeOK, RecipientsKnown, OnlyRegisteredStored, [Next]_vars
  PROVE  OnlyRegisteredStored'
  <1>1. users \subseteq users' /\ inbox \in [Address -> SUBSET Nat]
    BY UsersGrow DEF TypeOK, DBTypeOK
  <1>2. \A f \in files' : f.mail # NoMail => f.mail.to \in users'
    <2>1. CASE UNCHANGED <<files, lost>>
      BY <1>1, <2>1 DEF OnlyRegisteredStored
    <2>2. ASSUME NEW t \in SmtpThread, WriteFile(t)
          PROVE  \A f \in files' : f.mail # NoMail => f.mail.to \in users'
      <3>1. /\ smtp[t].pc = "write"
            /\ \E m \in {smtp[t].mail, NoMail} :
                 files' = Put(smtp[t].dir, now, m) \/ files' = files
        BY <2>2, WriteFileEffect
      <3>2. smtp[t].mail.to \in users
        BY <3>1 DEF RecipientsKnown, PastCheck
      <3>3. \A f \in files' : f \in files \/ f.mail \in {smtp[t].mail, NoMail}
        BY <3>1 DEF Put
      <3> QED
        BY <1>1, <3>2, <3>3 DEF OnlyRegisteredStored
    <2> QED
      BY <2>1, <2>2, FilesKept
  <1>3. \A a \in Address : inbox'[a] # {} => a \in users'
    <2>1. CASE UNCHANGED <<inbox, emailsReceived>>
      BY <1>1, <2>1 DEF OnlyRegisteredStored
    <2>2. ASSUME NEW t \in SmtpThread, InsertMailEntry(t) \/ UpdateReceived(t)
          PROVE  \A a \in Address : inbox'[a] # {} => a \in users'
      <3>1. /\ smtp[t].pc \in {"insert", "count"}
            /\ UNCHANGED inbox \/ InsertInbox(smtp[t].mail.to, smtp[t].name)
        BY <2>2, InsertMailEntryEffect, UpdateReceivedEffect
      <3>2. smtp[t].mail.to \in users
        BY <3>1 DEF RecipientsKnown, PastCheck, PastWrite
      <3>3. \A a \in Address : inbox'[a] = inbox[a] \/ a = smtp[t].mail.to
        BY <1>1, <3>1 DEF InsertInbox
      <3> QED
        BY <1>1, <3>2, <3>3 DEF OnlyRegisteredStored
    <2> QED
      BY <2>1, <2>2, RowsAndCountKept
  <1> QED
    BY <1>2, <1>3 DEF OnlyRegisteredStored

(* No file and no row of inbox for an address that is not registered, even *)
(* when the query in accept failed and let its mail in                     *)
(* (MailHandler.accept, MailHandler.handleMessage).                        *)
THEOREM RegisteredOnly == Spec => []OnlyRegisteredStored
  <1>1. Init => RecipientsKnown /\ OnlyRegisteredStored
    BY DEF Init, DBInit, DeliveryInit, RecipientsKnown, OnlyRegisteredStored, NotRunning,
           PastCheck, PastWrite
  <1>2. TypeOK /\ RecipientsKnown /\ OnlyRegisteredStored /\ [Next]_vars
          => RecipientsKnown' /\ OnlyRegisteredStored'
    BY RecipientsKnownStep, OnlyRegisteredStep
  <1> QED
    BY <1>1, <1>2, TypeCorrect, PTL DEF Spec

-----------------------------------------------------------------------------
(* Files and rows.  As long as nothing failed, a session that is about to  *)
(* insert its row has its file, under the name the row will have; and a    *)
(* file whose row is missing has such a session.                           *)

(* The file of a row of a, as store may have placed it.                    *)
FiledFor(a, n) == \E f \in files : f.name = n /\ f.dir \in {a, Root}

(* A file has its row, or the session that inserts it.                     *)
HasRow(f) ==
  \/ f.name \in inbox[f.mail.to]
  \/ \E t \in SmtpThread : /\ smtp[t].pc = "insert"
                           /\ smtp[t].mail = f.mail /\ smtp[t].name = f.name

WritersWellPlaced ==
  \A t \in SmtpThread :
    smtp[t].pc = "write" => smtp[t].dir \in {smtp[t].mail.to, Root}

InsertersFiled ==
  faults = 0 =>
    \A t \in SmtpThread :
      smtp[t].pc = "insert" => FiledFor(smtp[t].mail.to, smtp[t].name)

RowsFiled ==
  faults = 0 => \A a \in Address, n \in 1 .. MaxTime : n \in inbox[a] => FiledFor(a, n)

FilesHaveRows == faults = 0 /\ crashes = 0 => \A f \in files : HasRow(f)

FilesWhole == faults = 0 => \A f \in files : f.mail \in Mail

DiskInv ==
  WritersWellPlaced /\ InsertersFiled /\ RowsFiled /\ FilesHaveRows /\ FilesWhole

LEMMA WritersStep ==
  ASSUME TypeOK, WritersWellPlaced, [Next]_vars
  PROVE  WritersWellPlaced'
  <1>1. smtp \in [SmtpThread -> Session]
    BY DEF TypeOK, DeliveryTypeOK
  <1>2. ASSUME NEW t \in SmtpThread, NEW n, SessionBecomes(t, n),
               n.pc = "write" => n.dir \in {n.mail.to, Root}
        PROVE  WritersWellPlaced'
    BY <1>1, <1>2 DEF SessionBecomes, WritersWellPlaced
  <1>3. ASSUME NEW t \in SmtpThread, NEW m \in Mail, Connect(t, m) PROVE WritersWellPlaced'
    <2> DEFINE n == [pc |-> "accept", mail |-> m]
    <2>1. SessionBecomes(t, n) /\ n.pc # "write"
      BY <1>3 DEF Connect, SessionBecomes
    <2> HIDE DEF n
    <2> QED
      BY <1>2, <2>1
  <1>4. ASSUME NEW t \in SmtpThread, NEW pcs, Continues(t, pcs), "write" \notin pcs
        PROVE  WritersWellPlaced'
    BY <1>2, <1>4 DEF Continues, SessionBecomes
  <1>5. ASSUME NEW t \in SmtpThread, NEW answer, Finish(t, answer) PROVE WritersWellPlaced'
    <2>1. SessionBecomes(t, NotRunning) /\ NotRunning.pc # "write"
      BY <1>5 DEF Finish, SessionBecomes, NotRunning
    <2> HIDE DEF NotRunning
    <2> QED
      BY <1>2, <2>1
  <1>6. ASSUME NEW t \in SmtpThread, IsDirectory(t) \/ Mkdirs(t) PROVE WritersWellPlaced'
    BY <1>2, <1>6, DirectoryEffect DEF SessionBecomes
  <1>7. ASSUME NEW t \in SmtpThread, WriteFile(t) PROVE Continues(t, {"insert"})
    BY <1>7, WriteFileEffect DEF Continues
  <1>8. ASSUME NEW t \in SmtpThread, StorageStep(t) PROVE WritersWellPlaced'
    BY <1>4, <1>5, <1>6, <1>7, <1>8, AcceptEffect, HandleMessageEffect,
       InsertMailEntryEffect, UpdateReceivedEffect DEF StorageStep, Return
  <1>9. ASSUME NEW t \in SmtpThread, AnalysisStep(t) PROVE WritersWellPlaced'
    <2>1. Continues(t, Analysis) \/ \E answer : Finish(t, answer)
      BY <1>9 DEF AnalysisStep, Continues
    <2> QED
      BY <1>4, <1>5, <2>1 DEF Analysis
  <1>10. CASE Elsewhere
    BY <1>10 DEF Elsewhere, WritersWellPlaced
  <1>11. CASE Crash
    BY <1>11 DEF Crash, WritersWellPlaced, NotRunning
  <1> QED
    BY <1>3, <1>8, <1>9, <1>10, <1>11, StepEffect

(* A file is replaced by one of the same place and name only.              *)
LEMMA FiledForKept ==
  ASSUME TypeOK, [Next]_vars, NEW a, NEW n, FiledFor(a, n)
  PROVE  FiledFor(a, n)'
  <1>1. CASE UNCHANGED <<files, lost>>
    BY <1>1 DEF FiledFor
  <1>2. ASSUME NEW t \in SmtpThread, WriteFile(t) PROVE FiledFor(a, n)'
    <2>1. PICK m : files' = Put(smtp[t].dir, now, m) \/ files' = files
      BY <1>2, WriteFileEffect
    <2> DEFINE d == smtp[t].dir
               new == [dir |-> d, name |-> now, mail |-> m]
    <2>2. PICK f \in files : f.name = n /\ f.dir \in {a, Root}
      BY DEF FiledFor
    <2>3. CASE files' = files
      BY <2>3 DEF FiledFor
    <2>4. CASE files' = Put(d, now, m)
      <3>1. new \in files' /\ new.dir = d /\ new.name = now
        BY <2>4 DEF Put
      <3>2. f \in files' \/ (f.dir = d /\ f.name = now)
        BY <2>4 DEF Put
      <3> HIDE DEF new
      <3> QED
        BY <2>2, <3>1, <3>2 DEF FiledFor
    <2> QED
      BY <2>1, <2>3, <2>4
  <1> QED
    BY <1>1, <1>2, FilesKept

(* The file a session has just written.                                    *)
LEMMA FiledByWrite ==
  ASSUME TypeOK, WritersWellPlaced, NEW t \in SmtpThread, WriteFile(t), UNCHANGED faults,
         NEW a, a = smtp[t].mail.to, NEW n, n = now
  PROVE  FiledFor(a, n)'
  <1>1. /\ smtp[t].dir \in {a, Root}
        /\ files' = Put(smtp[t].dir, now, smtp[t].mail)
    BY WriteFileEffect DEF WritersWellPlaced
  <1> DEFINE new == [dir |-> smtp[t].dir, name |-> now, mail |-> smtp[t].mail]
  <1>2. new \in files' /\ new.dir = smtp[t].dir /\ new.name = now
    BY <1>1 DEF Put
  <1> HIDE DEF new
  <1> QED
    BY <1>1, <1>2 DEF FiledFor

(* A session comes to the INSERT of its row from the write of its file ... *)
LEMMA ReachesInsert ==
  ASSUME TypeOK, [Next]_vars, NEW s \in SmtpThread, smtp'[s].pc = "insert"
  PROVE  \/ smtp'[s] = smtp[s]
         \/ WriteFile(s) /\ smtp'[s].mail = smtp[s].mail /\ smtp'[s].name = now
  <1>1. smtp \in [SmtpThread -> Session]
    BY DEF TypeOK, DeliveryTypeOK
  <1>2. ASSUME NEW t \in SmtpThread, NEW n, SessionBecomes(t, n), n.pc # "insert"
        PROVE  smtp'[s] = smtp[s]
    BY <1>1, <1>2 DEF SessionBecomes
  <1>3. ASSUME NEW t \in SmtpThread, NEW m \in Mail, Connect(t, m) PROVE smtp'[s] = smtp[s]
    <2> DEFINE n == [pc |-> "accept", mail |-> m]
    <2>1. SessionBecomes(t, n) /\ n.pc # "insert"
      BY <1>3 DEF Connect, SessionBecomes
    <2> HIDE DEF n
    <2> QED
      BY <1>2, <2>1
  <1>4. ASSUME NEW t \in SmtpThread, NEW pcs, Continues(t, pcs), "insert" \notin pcs
        PROVE  smtp'[s] = smtp[s]
    BY <1>2, <1>4 DEF Continues, SessionBecomes
  <1>5. ASSUME NEW t \in SmtpThread, NEW answer, Finish(t, answer)
        PROVE  smtp'[s] = smtp[s]
    <2>1. SessionBecomes(t, NotRunning) /\ NotRunning.pc # "insert"
      BY <1>5 DEF Finish, SessionBecomes, NotRunning
    <2> HIDE DEF NotRunning
    <2> QED
      BY <1>2, <2>1
  <1>6. ASSUME NEW t \in SmtpThread, WriteFile(t)
        PROVE  \/ smtp'[s] = smtp[s]
               \/ t = s /\ smtp'[s].mail = smtp[s].mail /\ smtp'[s].name = now
    BY <1>1, <1>6, WriteFileEffect
  <1>7. ASSUME NEW t \in SmtpThread, IsDirectory(t) \/ Mkdirs(t) PROVE smtp'[s] = smtp[s]
    BY <1>2, <1>7, DirectoryEffect DEF SessionBecomes
  <1>8. ASSUME NEW t \in SmtpThread, StorageStep(t), ~WriteFile(t)
        PROVE  smtp'[s] = smtp[s]
    BY <1>4, <1>5, <1>7, <1>8, AcceptEffect, HandleMessageEffect,
       InsertMailEntryEffect, UpdateReceivedEffect DEF StorageStep, Return
  <1>9. ASSUME NEW t \in SmtpThread, AnalysisStep(t) PROVE smtp'[s] = smtp[s]
    <2>1. Continues(t, Analysis) \/ \E answer : Finish(t, answer)
      BY <1>9 DEF AnalysisStep, Continues
    <2> QED
      BY <1>4, <1>5, <2>1 DEF Analysis
  <1>10. CASE Elsewhere
    BY <1>10 DEF Elsewhere
  <1>11. ~Crash
    BY DEF Crash, NotRunning
  <1> QED
    BY <1>3, <1>6, <1>8, <1>9, <1>10, <1>11, StepEffect

(* ... and leaves it by that INSERT only, as long as nothing crashes.      *)
LEMMA LeavesInsert ==
  ASSUME TypeOK, [Next]_vars, NEW s \in SmtpThread, smtp[s].pc = "insert"
  PROVE  smtp'[s] = smtp[s] \/ InsertMailEntry(s) \/ Crash
  <1>1. smtp \in [SmtpThread -> Session]
    BY DEF TypeOK, DeliveryTypeOK
  <1>2. ASSUME NEW t \in SmtpThread, NEW n, SessionBecomes(t, n), smtp[t].pc # "insert"
        PROVE  smtp'[s] = smtp[s]
    BY <1>1, <1>2 DEF SessionBecomes
  <1>3. ASSUME NEW t \in SmtpThread, smtp[t].pc # "insert",
               \/ \E m \in Mail : Connect(t, m)
               \/ \E pcs : Continues(t, pcs)
               \/ \E answer : Finish(t, answer)
        PROVE  smtp'[s] = smtp[s]
    BY <1>2, <1>3 DEF Connect, Continues, Finish, SessionBecomes
  <1>4. ASSUME NEW t \in SmtpThread, StorageStep(t), t # s PROVE smtp'[s] = smtp[s]
    BY <1>1, <1>4, AcceptEffect, HandleMessageEffect, DirectoryEffect, WriteFileEffect,
       InsertMailEntryEffect, UpdateReceivedEffect
       DEF StorageStep, Return, Continues, Finish
  <1>5. StorageStep(s) => InsertMailEntry(s)
    BY DEF StorageStep, Accept, HandleMessage, IsDirectory, Mkdirs, WriteFile,
           UpdateReceived
  <1>6. ASSUME NEW t \in SmtpThread, AnalysisStep(t) PROVE smtp'[s] = smtp[s]
    <2>1. smtp[t].pc # "insert" /\ (Continues(t, Analysis) \/ \E answer : Finish(t, answer))
      BY <1>6 DEF AnalysisStep, Continues, Analysis
    <2> QED
      BY <1>3, <2>1
  <1>7. ASSUME NEW t \in SmtpThread, NEW m \in Mail, Connect(t, m) PROVE smtp'[s] = smtp[s]
    BY <1>3, <1>7 DEF Connect
  <1> QED
    BY <1>4, <1>5, <1>6, <1>7, StepEffect DEF Elsewhere

LEMMA FiledStep ==
  ASSUME TypeOK, DiskInv, [Next]_vars
  PROVE  InsertersFiled' /\ RowsFiled'
  <1>1. faults' = 0 => faults = 0
    BY FaultsGrow
  <1>2. ASSUME faults' = 0, NEW t \in SmtpThread, smtp'[t].pc = "insert",
               NEW a, a = smtp'[t].mail.to, NEW n, n = smtp'[t].name
        PROVE  FiledFor(a, n)'
    <2>1. CASE smtp'[t] = smtp[t]
      <3>1. FiledFor(a, n)
        BY <1>1, <1>2, <2>1 DEF DiskInv, InsertersFiled
      <3> QED
        BY <3>1, FiledForKept
    <2>2. CASE WriteFile(t) /\ smtp'[t].mail = smtp[t].mail /\ smtp'[t].name = now
      <3>1. UNCHANGED faults
        BY <1>1, <1>2
      <3> QED
        BY <1>2, <2>2, <3>1, FiledByWrite DEF DiskInv
    <2> QED
      BY <1>2, <2>1, <2>2, ReachesInsert
  <1>3. InsertersFiled'
    BY <1>2 DEF InsertersFiled, FiledFor
  <1>4. ASSUME faults' = 0, NEW a \in Address, NEW n \in 1 .. MaxTime, n \in inbox'[a]
        PROVE  FiledFor(a, n)'
    <2>1. CASE n \in inbox[a]
      <3>1. FiledFor(a, n)
        BY <1>1, <1>4, <2>1 DEF DiskInv, RowsFiled
      <3> QED
        BY <3>1, FiledForKept
    <2>2. CASE n \notin inbox[a]
      <3>1. PICK t \in SmtpThread : InsertMailEntry(t) \/ UpdateReceived(t)
        BY <1>4, <2>2, RowsAndCountKept
      <3>2. /\ smtp[t].pc = "insert"
            /\ InsertInbox(smtp[t].mail.to, smtp[t].name)
        BY <1>4, <2>2, <3>1, InsertMailEntryEffect, UpdateReceivedEffect
      <3>3. a = smtp[t].mail.to /\ n = smtp[t].name
        BY <1>4, <2>2, <3>2 DEF InsertInbox, TypeOK, DBTypeOK
      <3>4. FiledFor(a, n)
        BY <1>1, <1>4, <3>2, <3>3 DEF DiskInv, InsertersFiled
      <3> QED
        BY <3>4, FiledForKept
    <2> QED
      BY <2>1, <2>2
  <1>5. RowsFiled'
    BY <1>4 DEF RowsFiled, FiledFor
  <1> QED
    BY <1>3, <1>5

LEMMA FilesWholeStep ==
  ASSUME TypeOK, DiskInv, [Next]_vars
  PROVE  FilesWhole'
  <1>1. faults' = 0 => faults = 0
    BY FaultsGrow
  <1>2. CASE UNCHANGED <<files, lost>>
    BY <1>1, <1>2 DEF DiskInv, FilesWhole
  <1>3. ASSUME NEW t \in SmtpThread, WriteFile(t), faults' = 0
        PROVE  \A f \in files' : f.mail \in Mail
    <2>1. smtp[t].mail \in Mail /\ files' = Put(smtp[t].dir, now, smtp[t].mail)
      BY <1>1, <1>3, WriteFileEffect
    <2> QED
      BY <1>1, <1>3, <2>1 DEF Put, DiskInv, FilesWhole
  <1> QED
    BY <1>2, <1>3, FilesKept DEF FilesWhole

(* A row is not taken away, and its session inserts it unless the table is *)
(* missing or the statement fails.                                         *)
LEMMA FilesHaveRowsStep ==
  ASSUME Works({"inbox"}), TypeOK, DiskInv, [Next]_vars
  PROVE  FilesHaveRows'
  <1> SUFFICES ASSUME faults' = 0, crashes' = 0, NEW f \in files' PROVE HasRow(f)'
    BY DEF FilesHaveRows
  <1>1. faults = 0 /\ crashes = 0 /\ ~Crash
    BY FaultsGrow
  <1>2. inbox \in [Address -> SUBSET Nat] /\ smtp \in [SmtpThread -> Session]
    BY DEF TypeOK, DBTypeOK, DeliveryTypeOK
  <1>3. \A a \in Address : inbox[a] \subseteq inbox'[a]
    <2>1. ASSUME NEW t \in SmtpThread, InsertMailEntry(t) \/ UpdateReceived(t)
          PROVE  \A a \in Address : inbox[a] \subseteq inbox'[a]
      <3>1. UNCHANGED inbox \/ InsertInbox(smtp[t].mail.to, smtp[t].name)
        BY <2>1, InsertMailEntryEffect, UpdateReceivedEffect
      <3> QED
        BY <1>2, <3>1 DEF InsertInbox
    <2> QED
      BY <2>1, RowsAndCountKept
  <1>4. CASE f \in files
    <2>1. HasRow(f) /\ f.mail.to \in Address
      BY <1>1, <1>4, MailType DEF DiskInv, FilesHaveRows, FilesWhole
    <2>2. CASE f.name \in inbox[f.mail.to]
      BY <1>3, <2>1, <2>2 DEF HasRow
    <2>3. ASSUME NEW t \in SmtpThread, smtp[t].pc = "insert", smtp[t].mail = f.mail,
                 smtp[t].name = f.name
          PROVE  HasRow(f)'
      <3>1. CASE smtp'[t] = smtp[t]
        BY <2>3, <3>1 DEF HasRow
      <3>2. CASE InsertMailEntry(t)
        <4>1. ~Throws({"inbox"})
          BY <1>1, Works({"inbox"}) DEF Throws
        <4>2. f.name \in inbox'[f.mail.to]
          BY <1>2, <2>1, <2>3, <3>2, <4>1, InsertMailEntryEffect DEF InsertInbox, InboxKeyTaken
        <4> QED
          BY <4>2 DEF HasRow
      <3> QED
        BY <1>1, <2>3, <3>1, <3>2, LeavesInsert
    <2> QED
      BY <2>1, <2>2, <2>3 DEF HasRow
  <1>5. CASE f \notin files
    <2>1. PICK t \in SmtpThread : WriteFile(t)
      BY <1>5, FilesKept
    <2>2. files' = Put(smtp[t].dir, now, smtp[t].mail)
      BY <1>1, <2>1, WriteFileEffect
    <2>3. f.name = now /\ f.mail = smtp[t].mail
      BY <1>5, <2>2 DEF Put
    <2>4. smtp'[t].pc = "insert" /\ smtp'[t].mail = smtp[t].mail /\ smtp'[t].name = now
      BY <1>2, <2>1, WriteFileEffect
    <2> QED
      BY <2>3, <2>4 DEF HasRow
  <1> QED
    BY <1>4, <1>5

(* As long as no statement or write failed, every row of inbox has its     *)
(* file, and without a crash every file has its row or the session that    *)
(* inserts it, whatever sessions write at the same time                    *)
(* (MailStorage.store, MailDB.addMailEntry).                               *)
THEOREM DiskAndInbox ==
  ASSUME Works({"inbox"})
  PROVE  Spec => []DiskMatchesInbox
  <1>1. Init => DiskInv
    BY DEF Init, DBInit, DeliveryInit, NotRunning, DiskInv, WritersWellPlaced,
           InsertersFiled, RowsFiled, FilesHaveRows, FilesWhole
  <1>2. TypeOK /\ DiskInv /\ [Next]_vars => DiskInv'
    <2> SUFFICES ASSUME TypeOK, DiskInv, [Next]_vars PROVE DiskInv'
      OBVIOUS
    <2>1. WritersWellPlaced'
      BY WritersStep DEF DiskInv
    <2>2. FilesHaveRows'
      BY FilesHaveRowsStep, Works({"inbox"})
    <2> QED
      BY <2>1, <2>2, FiledStep, FilesWholeStep DEF DiskInv
  <1>3. DiskInv => DiskMatchesInbox
    BY DEF DiskInv, RowsFiled, FiledFor, FilesHaveRows, HasRow, DiskMatchesInbox
  <1> QED
    BY <1>1, <1>2, <1>3, TypeCorrect, PTL DEF Spec

-----------------------------------------------------------------------------
(* Acknowledged mail.  A session past its write has its mail on disk, and  *)
(* one that has not checked the recipient yet has a registered one, so     *)
(* that it cannot return without storing.                                  *)

Kept(m) == m \in lost \/ \E f \in files : f.mail = m

WrittenKept ==
  faults = 0 => \A t \in SmtpThread : smtp[t].pc \in PastWrite => Kept(smtp[t].mail)

AcceptedKnown ==
  faults = 0 => \A t \in SmtpThread : smtp[t].pc = "handle" => smtp[t].mail.to \in users

AckInv == WrittenKept /\ AcceptedKnown /\ AckedMailIsStored

(* A mail is replaced by itself or remembered as lost.                     *)
LEMMA KeptStays ==
  ASSUME TypeOK, [Next]_vars, faults' = 0, NEW m \in Mail, Kept(m)
  PROVE  Kept(m)'
  <1>1. CASE UNCHANGED <<files, lost>>
    BY <1>1 DEF Kept
  <1>2. ASSUME NEW t \in SmtpThread, WriteFile(t) PROVE Kept(m)'
    <2>1. faults = 0
      BY FaultsGrow
    <2> DEFINE d == smtp[t].dir
               c == smtp[t].mail
               new == [dir |-> d, name |-> now, mail |-> c]
    <2>2. /\ files' = Put(d, now, c)
          /\ lost' = lost \cup (Replaced(d, now) \ {c, NoMail})
      BY <1>2, <2>1, WriteFileEffect
    <2>3. new \in files' /\ new.mail = c
      BY <2>2 DEF Put
    <2> HIDE DEF new
    <2>4. ASSUME NEW f \in files, f.mail = m, m # c PROVE f \in files' \/ m \in lost'
      <3>1. f \in files' \/ (f.dir = d /\ f.name = now)
        BY <2>2 DEF Put
      <3>2. f.dir = d /\ f.name = now => m \in Replaced(d, now)
        BY <2>4 DEF Replaced
      <3> QED
        BY <2>2, <2>4, <3>1, <3>2, MailDeliveryAssumption
    <2>5. CASE m = c
      BY <2>3, <2>5 DEF Kept
    <2>6. CASE m # c
      BY <2>2, <2>4, <2>6 DEF Kept
    <2> QED
      BY <2>5, <2>6
  <1> QED
    BY <1>1, <1>2, FilesKept

(* How sessions and senders change, one statement for each clause.         *)
LEMMA SessionMoves ==
  ASSUME TypeOK, [Next]_vars, NEW s \in SmtpThread
  PROVE  /\ smtp'[s].pc \in PastWrite =>
              \/ smtp[s].pc \in PastWrite /\ smtp'[s].mail = smtp[s].mail
              \/ WriteFile(s) /\ smtp'[s].mail = smtp[s].mail
         /\ smtp'[s].pc = "handle" =>
              \/ smtp'[s] = smtp[s]
              \/ /\ smtp'[s].mail = smtp[s].mail
                 /\ smtp[s].mail.to \in users \/ Throws({"users"})
  <1>1. smtp \in [SmtpThread -> Session]
    BY DEF TypeOK, DeliveryTypeOK
  <1> DEFINE Fine == smtp'[s] = smtp[s] \/ smtp'[s].pc \notin PastWrite \cup {"handle"}
  <1>2. ASSUME NEW t \in SmtpThread, NEW n, SessionBecomes(t, n)
        PROVE  smtp'[t] = n /\ (s # t => smtp'[s] = smtp[s])
    BY <1>1, <1>2 DEF SessionBecomes
  <1>3. ASSUME NEW t \in SmtpThread, NEW m \in Mail, Connect(t, m) PROVE Fine
    <2> DEFINE n == [pc |-> "accept", mail |-> m]
    <2>1. SessionBecomes(t, n) /\ n.pc \notin PastWrite \cup {"handle"}
      BY <1>3 DEF Connect, SessionBecomes, PastWrite
    <2> HIDE DEF n
    <2> QED
      BY <1>2, <2>1
  <1>4. ASSUME NEW t \in SmtpThread, NEW answer, Finish(t, answer) PROVE Fine
    <2>1. SessionBecomes(t, NotRunning) /\ NotRunning.pc \notin PastWrite \cup {"handle"}
      BY <1>4 DEF Finish, SessionBecomes, NotRunning, PastWrite
    <2> HIDE DEF NotRunning
    <2> QED
      BY <1>2, <2>1
  <1>5. ASSUME NEW t \in SmtpThread, NEW pcs, Continues(t, pcs)
        PROVE  \/ smtp'[s] = smtp[s]
               \/ s = t /\ smtp'[s].pc \in pcs /\ smtp'[s].mail = smtp[s].mail
    BY <1>1, <1>5 DEF Continues
  <1>6. CASE Elsewhere
    BY <1>6 DEF Elsewhere
  <1>7. CASE Crash
    BY <1>7 DEF Crash, NotRunning, PastWrite
  <1>8. ASSUME NEW t \in SmtpThread, AnalysisStep(t)
        PROVE  \/ Fine
               \/ /\ smtp[s].pc \in PastWrite /\ smtp'[s].mail = smtp[s].mail
                  /\ smtp'[s].pc # "handle"
    <2>1. /\ smtp[t].pc \in PastWrite
          /\ Continues(t, Analysis) \/ \E answer : Finish(t, answer)
      BY <1>8 DEF AnalysisStep, Continues, Analysis, PastWrite
    <2> QED
      BY <1>4, <1>5, <2>1 DEF Analysis
  <1>9. ASSUME NEW t \in SmtpThread, Accept(t)
        PROVE  \/ Fine
               \/ /\ smtp'[s].mail = smtp[s].mail /\ smtp'[s].pc \notin PastWrite
                  /\ smtp[s].mail.to \in users \/ Throws({"users"})
    <2>1. CASE Finish(t, "bounced")
      BY <1>4, <2>1
    <2>2. CASE /\ Continues(t, {"handle"})
               /\ smtp[t].mail.to \in users \/ Throws({"users"})
      BY <1>5, <2>2 DEF PastWrite
    <2> QED
      BY <1>9, <2>1, <2>2, AcceptEffect
  <1>10. ASSUME NEW t \in SmtpThread, HandleMessage(t) \/ IsDirectory(t) \/ Mkdirs(t)
         PROVE  Fine
    <2>1. \/ Continues(t, {"isdir", "mkdirs", "write"})
          \/ Finish(t, "acked")
      BY <1>10, HandleMessageEffect, DirectoryEffect DEF Continues, Return
    <2> QED
      BY <1>4, <1>5, <2>1 DEF PastWrite
  <1>11. ASSUME NEW t \in SmtpThread, WriteFile(t)
         PROVE  \/ Fine
                \/ /\ WriteFile(s) /\ smtp'[s].mail = smtp[s].mail
                   /\ smtp'[s].pc # "handle"
    <2>1. Continues(t, {"insert"})
      BY <1>11, WriteFileEffect DEF Continues
    <2> QED
      BY <1>5, <1>11, <2>1
  <1>12. ASSUME NEW t \in SmtpThread, InsertMailEntry(t) \/ UpdateReceived(t)
         PROVE  \/ Fine
                \/ /\ smtp[s].pc \in PastWrite /\ smtp'[s].mail = smtp[s].mail
                   /\ smtp'[s].pc # "handle"
    <2>1. /\ smtp[t].pc \in {"insert", "count"}
          /\ Continues(t, {"count"}) \/ Continues(t, {"analyze"})
      BY <1>12, InsertMailEntryEffect, UpdateReceivedEffect
    <2> QED
      BY <1>5, <2>1 DEF PastWrite
  <1> QED
    BY <1>3, <1>6, <1>7, <1>8, <1>9, <1>10, <1>11, <1>12, StepEffect DEF StorageStep

(* A sender is told "accepted" for the mail of a session past its write,   *)
(* or by handleMessage, which had no user to store it for.                 *)
LEMMA Acknowledged ==
  ASSUME TypeOK, [Next]_vars, NEW m \in Mail, sent'[m] = "acked"
  PROVE  \/ sent[m] = "acked"
         \/ \E t \in SmtpThread :
              /\ smtp[t].mail = m
              /\ \/ smtp[t].pc \in PastWrite
                 \/ /\ smtp[t].pc = "handle"
                    /\ m.to \notin users \/ Throws({"users", "counters"})
  <1>1. sent \in [Mail -> {"queued", "acked", "bounced"}]
    BY DEF TypeOK, DeliveryTypeOK
  <1>2. ASSUME NEW t \in SmtpThread, NEW answer, Finish(t, answer)
        PROVE  sent'[m] = sent[m] \/ (smtp[t].mail = m /\ answer = "acked")
    BY <1>1, <1>2 DEF Finish
  <1>3. ASSUME NEW t \in SmtpThread, Accept(t) PROVE sent'[m] = sent[m]
    BY <1>2, <1>3, AcceptEffect
  <1>4. ASSUME NEW t \in SmtpThread, HandleMessage(t)
        PROVE  \/ sent'[m] = sent[m]
               \/ /\ smtp[t].mail = m /\ smtp[t].pc = "handle"
                  /\ m.to \notin users \/ Throws({"users", "counters"})
    BY <1>2, <1>4, HandleMessageEffect DEF Return
  <1>5. ASSUME NEW t \in SmtpThread, StorageStep(t), ~Accept(t), ~HandleMessage(t)
        PROVE  sent' = sent
    BY <1>5, DirectoryEffect, WriteFileEffect, InsertMailEntryEffect,
       UpdateReceivedEffect DEF StorageStep
  <1>6. ASSUME NEW t \in SmtpThread, AnalysisStep(t)
        PROVE  sent'[m] = sent[m] \/ (smtp[t].mail = m /\ smtp[t].pc \in PastWrite)
    BY <1>2, <1>6 DEF AnalysisStep, Analysis, PastWrite
  <1>7. ASSUME NEW t \in SmtpThread, NEW m2 \in Mail, Connect(t, m2) PROVE sent' = sent
    BY <1>7 DEF Connect
  <1>8. Crash => sent' = sent
    BY DEF Crash, senderVars
  <1> QED
    BY <1>3, <1>4, <1>5, <1>6, <1>7, <1>8, StepEffect DEF Elsewhere

LEMMA AckInvStep ==
  ASSUME Works({"users", "counters"}), TypeOK, AckInv, [Next]_vars
  PROVE  AckInv'
  <1> SUFFICES ASSUME faults' = 0 PROVE AckInv'
    BY DEF AckInv, WrittenKept, AcceptedKnown, AckedMailIsStored
  <1>1. faults = 0 /\ users \subseteq users'
    BY FaultsGrow, UsersGrow
  <1>2. ~Throws({"users", "counters"}) /\ ~Throws({"users"})
    BY <1>1, Works({"users", "counters"}) DEF Throws, Works
  <1>3. \A t \in SmtpThread : smtp[t].pc \in PastWrite \cup {"write", "handle"}
                                => smtp[t].mail \in Mail
    BY SessionFields, NamedSessionFields DEF TypeOK, DeliveryTypeOK, PastWrite
  <1>4. ASSUME NEW t \in SmtpThread, smtp'[t].pc \in PastWrite,
               NEW m, m = smtp'[t].mail
        PROVE  Kept(m)'
    <2>1. CASE smtp[t].pc \in PastWrite /\ smtp'[t].mail = smtp[t].mail
      <3>1. Kept(m) /\ m \in Mail
        BY <1>1, <1>3, <1>4, <2>1 DEF AckInv, WrittenKept
      <3> QED
        BY <3>1, KeptStays
    <2>2. CASE WriteFile(t) /\ smtp'[t].mail = smtp[t].mail
      <3>1. files' = Put(smtp[t].dir, now, m)
        BY <1>1, <1>4, <2>2, WriteFileEffect
      <3> DEFINE new == [dir |-> smtp[t].dir, name |-> now, mail |-> m]
      <3>2. new \in files' /\ new.mail = m
        BY <3>1 DEF Put
      <3> HIDE DEF new
      <3> QED
        BY <3>2 DEF Kept
    <2> QED
      BY <1>4, <2>1, <2>2, SessionMoves
  <1>5. WrittenKept'
    BY <1>4 DEF WrittenKept, Kept
  <1>6. AcceptedKnown'
    BY <1>1, <1>2, SessionMoves DEF AckInv, AcceptedKnown
  <1>7. ASSUME NEW m \in Mail, sent'[m] = "acked" PROVE Kept(m)'
    <2>1. Kept(m)
      BY <1>1, <1>2, <1>7, Acknowledged
         DEF AckInv, WrittenKept, AcceptedKnown, AckedMailIsStored, Kept
    <2> QED
      BY <2>1, KeptStays
  <1>8. AckedMailIsStored'
    BY <1>7 DEF AckedMailIsStored, Kept
  <1> QED
    BY <1>5, <1>6, <1>8 DEF AckInv

(* As long as no statement or write failed and the tables exist, a mail    *)
(* whose sender was told it is accepted is on disk, or a mail stored in    *)
(* the same millisecond took its file: no crash, retry or interleaving     *)
(* loses it (MailHandler.handleMessage, MailStorage.store).                *)
THEOREM AckedMail ==
  ASSUME Works({"users", "counters"})
  PROVE  Spec => []AckedMailIsStored
  <1>1. Init => AckInv
    BY DEF Init, DeliveryInit, NotRunning, AckInv, WrittenKept, AcceptedKnown,
           AckedMailIsStored, PastWrite
  <1>2. TypeOK /\ AckInv /\ [Next]_vars => AckInv'
    BY AckInvStep, Works({"users", "counters"})
  <1>3. AckInv => AckedMailIsStored
    BY DEF AckInv
  <1> QED
    BY <1>1, <1>2, <1>3, TypeCorrect, PTL DEF Spec
=============================================================================
