-------------------------- MODULE MailServer_proofs --------------------------
(***************************************************************************)
(* What holds of the mail server for any numbers of threads, mails, URLs,  *)
(* faults and crashes: its state is well typed, and the leak counters of   *)
(* an address never exceed the rows they count, although three statements  *)
(* of many threads interleave, fail and crash without a transaction.  The  *)
(* invariant that carries it is LeakInv: the rows of an address are at     *)
(* least its counter and the activations that have still to count.         *)
(***************************************************************************)
EXTENDS MailServer, TLAPS, FiniteSetTheorems

(* The activations of findLeakedEmailAddress that are under way.           *)
Running ==
  [step : {"url", "insert", "count", "tpcount"}, recipient : Address,
   domain : Domain, source : LeakSource, skip : SUBSET URL,
   todo : Seq(URL), left : Nat]

LEMMA DomainOfURL == \A u \in URL : DomainOf[u] \in Domain
  BY DEF Domain

LEMMA ActivationType ==
  ASSUME NEW a \in Address, NEW d \in Domain, NEW src \in LeakSource,
         NEW skip \in SUBSET URL, NEW us \in Seq(URL)
  PROVE  Activation(a, d, src, skip, us) \in LeakActivation
  BY DEF Activation, LeakActivation

LEMMA NextURLType ==
  ASSUME NEW l \in LeakActivation, l.step \in {"url", "insert", "count", "tpcount"}
  PROVE  NextURL(l) \in LeakActivation
  <1>1. l \notin {Idle, Failed}
    BY DEF Idle, Failed
  <1>2. /\ l.recipient \in Address /\ l.domain \in Domain /\ l.source \in LeakSource
        /\ l.skip \in SUBSET URL /\ Tail(l.todo) \in Seq(URL)
    BY <1>1 DEF LeakActivation
  <1> QED
    BY <1>2, ActivationType DEF NextURL

LEMMA NextEncodingType ==
  ASSUME NEW l \in LeakActivation, l.step \in {"url", "insert", "count", "tpcount"}
  PROVE  NextEncoding(l) \in LeakActivation
  <1>1. l \notin {Idle, Failed}
    BY DEF Idle, Failed
  <1>2. CASE l.left > 1
    <2>1. /\ l \in Running /\ l.todo # <<>>
      BY <1>1 DEF LeakActivation, Running
    <2>2. \A n \in Nat : /\ [l EXCEPT !.step = "insert", !.left = n] \in Running
                         /\ [l EXCEPT !.step = "insert", !.left = n].todo # <<>>
      BY <2>1 DEF Running
    <2>3. l.left - 1 \in Nat
      BY <2>1, <1>2 DEF Running
    <2>4. /\ [l EXCEPT !.step = "insert", !.left = l.left - 1] \in Running
          /\ [l EXCEPT !.step = "insert", !.left = l.left - 1].todo # <<>>
      BY <2>2, <2>3
    <2> QED
      BY <2>4, <1>2 DEF LeakActivation, Running, NextEncoding
  <1>3. CASE ~(l.left > 1)
    BY <1>3, NextURLType DEF NextEncoding
  <1> QED
    BY <1>2, <1>3

-----------------------------------------------------------------------------
(* Type correctness of the database part, one lemma for each caller.       *)

LEMMA RecordLeakType ==
  ASSUME DBTypeOK, NEW t \in Thread, RecordLeak(t)
  PROVE  DBTypeOK'
  <1> DEFINE l == leak[t]
  <1>1. l \in LeakActivation
    BY DEF DBTypeOK
  <1>2. l.step \in {"url", "insert", "count", "tpcount"} => 
          /\ l \in Running /\ l.todo # <<>>
          /\ l.recipient \in Address /\ l.source \in LeakSource /\ Head(l.todo) \in URL
    <2> SUFFICES ASSUME l.step \in {"url", "insert", "count", "tpcount"}
                 PROVE  /\ l \in Running /\ l.todo # <<>>
                        /\ l.recipient \in Address /\ l.source \in LeakSource
                        /\ Head(l.todo) \in URL
      OBVIOUS
    <2>1. l \in Running /\ l.todo # <<>>
      BY <1>1 DEF LeakActivation, Running, Idle, Failed
    <2> QED
      BY <2>1 DEF Running
  <1>3. ASSUME ScanURL(t) PROVE DBTypeOK'
    <2>1. l \in Running /\ l.todo # <<>> /\ Encodings[Head(l.todo)] \in Nat
      BY <1>2, <1>3, MailDBAssumption DEF ScanURL
    <2>2. \A n \in Nat : /\ [l EXCEPT !.step = "insert", !.left = n] \in Running
                         /\ [l EXCEPT !.step = "insert", !.left = n].todo # <<>>
      BY <2>1 DEF Running
    <2>3. [l EXCEPT !.step = "insert", !.left = Encodings[Head(l.todo)]] \in LeakActivation
      BY <2>1, <2>2 DEF LeakActivation, Running
    <2>4. NextURL(l) \in LeakActivation
      BY <1>1, <1>3, NextURLType DEF ScanURL
    <2>5. leak' \in [Thread -> LeakActivation]
      BY <1>3, <2>3, <2>4 DEF ScanURL, DBTypeOK
    <2> QED
      BY <1>3, <2>5, RecordLeak(t) DEF ScanURL, RecordLeak, DBTypeOK, userVars, mailVars, groupVars
  <1>4. ASSUME InsertLeak(t) PROVE DBTypeOK'
    <2>1. /\ l \in Running /\ l.todo # <<>> /\ l.recipient \in Address
          /\ l.source \in LeakSource /\ Head(l.todo) \in URL
      BY <1>2, <1>4 DEF InsertLeak
    <2>2. [l EXCEPT !.step = "count"] \in LeakActivation
      BY <2>1 DEF LeakActivation, Running
    <2>3. leak' \in [Thread -> LeakActivation]
      BY <1>4, <2>2 DEF InsertLeak, DBTypeOK
    <2>4. [recipient |-> l.recipient, url |-> Head(l.todo), source |-> l.source]
            \in [recipient : Address, url : URL, source : LeakSource]
      BY <2>1
    <2>5. leakedEmails' \subseteq [recipient : Address, url : URL, source : LeakSource]
      BY <1>4, <2>4 DEF InsertLeak, DBTypeOK
    <2>6. leakRows' \in [Address -> Nat]
      BY <1>4, <2>1 DEF InsertLeak, DBTypeOK
    <2>7. tpLeakRows' \in [Address -> Nat]
      BY <1>4, <2>1 DEF InsertLeak, DBTypeOK
    <2> QED
      BY <1>4, <2>3, <2>5, <2>6, <2>7, RecordLeak(t) DEF InsertLeak, RecordLeak, DBTypeOK, userVars, mailVars, groupVars
  <1>5. ASSUME CountLeak(t) PROVE DBTypeOK'
    <2>1. l \in Running /\ l.todo # <<>> /\ l.recipient \in Address
      BY <1>2, <1>5 DEF CountLeak
    <2>2. [l EXCEPT !.step = "tpcount"] \in LeakActivation
      BY <2>1 DEF LeakActivation, Running
    <2>3. NextEncoding(l) \in LeakActivation
      BY <1>1, <1>5, NextEncodingType DEF CountLeak
    <2>4. leak' \in [Thread -> LeakActivation] /\ leakCount' \in [Address -> Nat]
      BY <1>5, <2>1, <2>2, <2>3 DEF CountLeak, DBTypeOK
    <2> QED
      BY <1>5, <2>4, RecordLeak(t) DEF CountLeak, RecordLeak, DBTypeOK, userVars, mailVars, groupVars
  <1>6. ASSUME CountThirdParty(t) PROVE DBTypeOK'
    <2>1. l.recipient \in Address
      BY <1>2, <1>6 DEF CountThirdParty
    <2>2. NextEncoding(l) \in LeakActivation
      BY <1>1, <1>6, NextEncodingType DEF CountThirdParty
    <2>3. leak' \in [Thread -> LeakActivation] /\ tpLeakCount' \in [Address -> Nat]
      BY <1>6, <2>1, <2>2 DEF CountThirdParty, DBTypeOK
    <2> QED
      BY <1>6, <2>3, RecordLeak(t) DEF CountThirdParty, RecordLeak, DBTypeOK, userVars, mailVars, groupVars
  <1>7. ASSUME LeakThrows(t) PROVE DBTypeOK'
    <2>1. NextURL(l) \in LeakActivation /\ Failed \in LeakActivation
      BY <1>1, <1>7, NextURLType DEF LeakThrows, LeakActivation
    <2>2. leak' \in [Thread -> LeakActivation]
      BY <1>7, <2>1 DEF LeakThrows, DBTypeOK
    <2>3. faults' \in 0 .. MaxFaults
      BY <1>7, MailDBAssumption DEF LeakThrows, Throws, DBTypeOK
    <2> QED
      BY <1>7, <2>2, <2>3, RecordLeak(t) DEF LeakThrows, RecordLeak, DBTypeOK, userVars, mailVars, groupVars
  <1> QED
    BY <1>3, <1>4, <1>5, <1>6, <1>7, RecordLeak(t) DEF RecordLeak

LEMMA FindLeakedType ==
  ASSUME DBTypeOK, NEW t \in Thread, NEW a \in Address, NEW d \in Domain,
         NEW src \in LeakSource, NEW skip \in SUBSET URL, NEW us \in Seq(URL),
         FindLeakedEmailAddress(t, a, d, src, skip, us)
  PROVE  leak' \in [Thread -> LeakActivation]
  BY ActivationType DEF FindLeakedEmailAddress, DBTypeOK

LEMMA ThrowsType ==
  ASSUME faults \in 0 .. MaxFaults, NEW T, Throws(T)
  PROVE  faults' \in 0 .. MaxFaults
  BY MailDBAssumption DEF Throws

-----------------------------------------------------------------------------
(* Type correctness of the delivery part: one lemma per action.            *)

LEMMA MailType == \A m \in Mail : /\ m.to \in Address /\ m.links \in Seq(URL)
                                 /\ m.confirm \in Seq(URL) /\ m.visit \in Seq(URL)
                                 /\ m.pixels \subseteq URL /\ m.others \subseteq URL
  BY MailDeliveryAssumption

LEMMA NotRunningType == NotRunning \in Session /\ NotRunning \in PoolState
  BY DEF Session, PoolState

(* What a session has at each label, and where Goto may take it.           *)
LEMMA SessionFields ==
  ASSUME NEW s \in Session
  PROVE  /\ s.pc = "accept" => s.mail \in Mail /\ [s EXCEPT !.pc = "handle"] \in Session
         /\ s.pc = "handle" => s.mail \in Mail
         /\ s.pc = "isdir" => /\ s.mail \in Mail /\ s.user \in Snapshot
                              /\ [s EXCEPT !.pc = "mkdirs"] \in Session
         /\ s.pc = "mkdirs" => s.mail \in Mail /\ s.user \in Snapshot
         /\ s.pc = "write" => /\ s.mail \in Mail /\ s.user \in Snapshot
                              /\ s.dir \in Address \cup {Root}
         /\ s.pc = "images" => /\ s.mail \in Mail /\ s.user \in Snapshot
                               /\ s.images \subseteq URL
  BY DEF Session, NotRunning

LEMMA NamedSessionFields ==
  ASSUME NEW s \in Session,
         s.pc \in {"insert", "count", "analyze", "confirm", "leaks"}
  PROVE  /\ s.mail \in Mail /\ s.user \in Snapshot /\ s.name \in Nat
         /\ \A pc \in {"insert", "count", "analyze", "confirm", "leaks"} :
              [s EXCEPT !.pc = pc] \in Session
  BY DEF Session, NotRunning

LEMMA ConnectType ==
  ASSUME TypeOK, NEW t \in SmtpThread, NEW m \in Mail, Connect(t, m)
  PROVE  DBTypeOK' /\ DeliveryTypeOK'
  <1>1. [pc |-> "accept", mail |-> m] \in Session
    BY DEF Session
  <1>2. smtp' \in [SmtpThread -> Session]
    BY <1>1 DEF TypeOK, Connect, DeliveryTypeOK
  <1>3. attempts' \in [Mail -> 0 .. MaxAttempts]
    BY MailDeliveryAssumption DEF TypeOK, Connect, DeliveryTypeOK
  <1>4. DBTypeOK'
    BY DEF TypeOK, Connect, DBTypeOK, userVars, mailVars, leakVars, groupVars, dbVars, KeepDB
  <1> QED
    BY <1>2, <1>3, <1>4 DEF TypeOK, Connect, DeliveryTypeOK, KeepDB, KeepDisk, KeepSenders, KeepPool, diskVars, senderVars, poolVars

LEMMA AcceptType ==
  ASSUME TypeOK, NEW t \in SmtpThread, Accept(t)
  PROVE  DBTypeOK' /\ DeliveryTypeOK'
  <1>1. smtp[t] \in Session /\ smtp[t].pc = "accept"
    BY DEF TypeOK, DeliveryTypeOK, Accept
  <1>2. smtp[t].mail \in Mail /\ [smtp[t] EXCEPT !.pc = "handle"] \in Session
    BY <1>1, SessionFields
  <1>3. smtp' \in [SmtpThread -> Session]
    BY <1>2, NotRunningType DEF TypeOK, DeliveryTypeOK, Accept, Goto, Finish
  <1>4. sent' \in [Mail -> {"queued", "acked", "bounced"}] /\ attempts' = attempts
    BY <1>2 DEF TypeOK, DeliveryTypeOK, Accept, Finish, KeepSenders, senderVars
  <1>5. DBTypeOK'
    BY ThrowsType DEF TypeOK, Accept, DBTypeOK, userVars, mailVars, leakVars, groupVars, dbVars
  <1> QED
    BY <1>3, <1>4, <1>5 DEF TypeOK, Accept, DeliveryTypeOK, KeepDB, KeepDisk, KeepSenders, KeepPool, diskVars, senderVars, poolVars

LEMMA HandleMessageType ==
  ASSUME TypeOK, NEW t \in SmtpThread, HandleMessage(t)
  PROVE  DBTypeOK' /\ DeliveryTypeOK'
  <1>1. smtp[t] \in Session /\ smtp[t].pc = "handle"
    BY DEF TypeOK, DeliveryTypeOK, HandleMessage
  <1>2. smtp[t].mail \in Mail /\ smtp[t].mail.to \in Address
    BY <1>1, SessionFields, MailType
  <1>3. UserInfo(smtp[t].mail.to) \in Snapshot
    BY <1>2 DEF TypeOK, DBTypeOK, UserInfo, Snapshot
  <1>4. [pc |-> "isdir", mail |-> smtp[t].mail, user |-> UserInfo(smtp[t].mail.to)]
          \in Session
    BY <1>2, <1>3 DEF Session
  <1>5. smtp' \in [SmtpThread -> Session]
    BY <1>4, NotRunningType DEF TypeOK, DeliveryTypeOK, HandleMessage, Return, Finish
  <1>6. sent' \in [Mail -> {"queued", "acked", "bounced"}] /\ attempts' = attempts
    BY <1>2 DEF TypeOK, DeliveryTypeOK, HandleMessage, Return, Finish, KeepSenders,
                senderVars
  <1>7. DBTypeOK'
    BY ThrowsType DEF TypeOK, HandleMessage, DBTypeOK, userVars, mailVars, leakVars, groupVars, dbVars
  <1> QED
    BY <1>5, <1>6, <1>7 DEF TypeOK, HandleMessage, DeliveryTypeOK, KeepDB, KeepDisk, KeepSenders, KeepPool, diskVars, senderVars, poolVars

LEMMA WriteToType ==
  ASSUME NEW s \in Session, s.pc \in {"isdir", "mkdirs"},
         NEW dir \in Address \cup {Root}
  PROVE  [pc |-> "write", mail |-> s.mail, user |-> s.user, dir |-> dir] \in Session
  <1>1. s.mail \in Mail /\ s.user \in Snapshot
    BY SessionFields
  <1> QED
    BY <1>1 DEF Session

LEMMA IsDirectoryType ==
  ASSUME TypeOK, NEW t \in SmtpThread, IsDirectory(t)
  PROVE  DBTypeOK' /\ DeliveryTypeOK'
  <1>1. smtp[t] \in Session /\ smtp[t].pc = "isdir"
    BY DEF TypeOK, DeliveryTypeOK, IsDirectory
  <1>2. /\ smtp[t].mail.to \in Address
        /\ [smtp[t] EXCEPT !.pc = "mkdirs"] \in Session
    BY <1>1, SessionFields, MailType
  <1>3. [pc |-> "write", mail |-> smtp[t].mail, user |-> smtp[t].user,
         dir |-> smtp[t].mail.to] \in Session
    BY <1>1, <1>2, WriteToType
  <1>4. smtp' \in [SmtpThread -> Session]
    BY <1>2, <1>3 DEF TypeOK, DeliveryTypeOK, IsDirectory, WriteTo, Goto
  <1>5. DBTypeOK'
    BY DEF TypeOK, IsDirectory, KeepDB, DBTypeOK, userVars, mailVars, leakVars, groupVars, dbVars
  <1> QED
    BY <1>4, <1>5 DEF TypeOK, IsDirectory, DeliveryTypeOK, KeepDB, KeepDisk, KeepSenders, KeepPool, diskVars, senderVars, poolVars

LEMMA MkdirsType ==
  ASSUME TypeOK, NEW t \in SmtpThread, Mkdirs(t)
  PROVE  DBTypeOK' /\ DeliveryTypeOK'
  <1>1. smtp[t] \in Session /\ smtp[t].pc = "mkdirs"
    BY DEF TypeOK, DeliveryTypeOK, Mkdirs
  <1>2. smtp[t].mail.to \in Address
    BY <1>1, SessionFields, MailType
  <1>3. \A dir \in Address \cup {Root} :
          [pc |-> "write", mail |-> smtp[t].mail, user |-> smtp[t].user,
           dir |-> dir] \in Session
    BY <1>1, WriteToType
  <1>4. smtp' \in [SmtpThread -> Session]
    BY <1>2, <1>3 DEF TypeOK, DeliveryTypeOK, Mkdirs, WriteTo
  <1>5. dirs' \subseteq Address /\ faults' \in 0 .. MaxFaults
    BY <1>2, MailDBAssumption DEF TypeOK, DBTypeOK, DeliveryTypeOK, Mkdirs
  <1>6. DBTypeOK'
    BY <1>5 DEF TypeOK, Mkdirs, DBTypeOK, userVars, mailVars, leakVars, groupVars, dbVars
  <1> QED
    BY <1>4, <1>5, <1>6 DEF TypeOK, Mkdirs, DeliveryTypeOK, KeepDB, KeepDisk, KeepSenders, KeepPool, diskVars, senderVars, poolVars

LEMMA WriteFileType ==
  ASSUME TypeOK, NEW t \in SmtpThread, WriteFile(t)
  PROVE  DBTypeOK' /\ DeliveryTypeOK'
  <1> DEFINE File == [dir : Address \cup {Root}, name : 1 .. MaxTime, mail : Mail \cup {NoMail}]
  <1>1. smtp[t] \in Session /\ smtp[t].pc = "write" /\ now \in Nat /\ now \in 1 .. MaxTime
    BY MailDeliveryAssumption DEF TypeOK, DeliveryTypeOK, WriteFile
  <1>2. /\ smtp[t].mail \in Mail /\ smtp[t].user \in Snapshot
        /\ smtp[t].dir \in Address \cup {Root}
    BY <1>1, SessionFields
  <1>3. [pc |-> "insert", mail |-> smtp[t].mail, user |-> smtp[t].user, name |-> now]
          \in Session
    BY <1>1, <1>2 DEF Session
  <1>4. smtp' \in [SmtpThread -> Session]
    BY <1>3 DEF TypeOK, DeliveryTypeOK, WriteFile
  <1>5. \A m \in Mail \cup {NoMail} : [dir |-> smtp[t].dir, name |-> now, mail |-> m] \in File
    BY <1>1, <1>2
  <1>6. files \subseteq File
    BY DEF TypeOK, DeliveryTypeOK
  <1>7. \A m \in Mail \cup {NoMail} : Put(smtp[t].dir, now, m) \subseteq File
    BY <1>5, <1>6 DEF Put
  <1>8. files' \subseteq File
    BY <1>2, <1>6, <1>7 DEF WriteFile
  <1>9. lost' \subseteq Mail
    BY <1>6 DEF WriteFile, Replaced, TypeOK, DeliveryTypeOK
  <1>10. faults' \in 0 .. MaxFaults
    BY MailDBAssumption DEF WriteFile, TypeOK, DBTypeOK
  <1>11. DBTypeOK'
    BY <1>10 DEF TypeOK, WriteFile, DBTypeOK, userVars, mailVars, leakVars, groupVars, dbVars
  <1> QED
    BY <1>4, <1>8, <1>9, <1>11 DEF TypeOK, WriteFile, DeliveryTypeOK, KeepDB, KeepDisk, KeepSenders, KeepPool, diskVars, senderVars, poolVars

LEMMA InsertMailEntryType ==
  ASSUME TypeOK, NEW t \in SmtpThread, InsertMailEntry(t)
  PROVE  DBTypeOK' /\ DeliveryTypeOK'
  <1>1. smtp[t] \in Session /\ smtp[t].pc = "insert"
    BY DEF TypeOK, DeliveryTypeOK, InsertMailEntry
  <1>2. /\ smtp[t].mail.to \in Address /\ smtp[t].name \in Nat
        /\ [smtp[t] EXCEPT !.pc = "count"] \in Session
        /\ [smtp[t] EXCEPT !.pc = "analyze"] \in Session
    BY <1>1, NamedSessionFields, MailType
  <1>3. smtp' \in [SmtpThread -> Session]
    BY <1>2 DEF TypeOK, DeliveryTypeOK, InsertMailEntry, Goto
  <1>4. faults' \in 0 .. MaxFaults
    BY ThrowsType DEF InsertMailEntry, TypeOK, DBTypeOK
  <1>5. inbox' \in [Address -> SUBSET Nat]
    BY <1>2 DEF InsertMailEntry, InsertInbox, TypeOK, DBTypeOK
  <1>6. ASSUME NEW a \in Address PROVE IsFiniteSet(inbox'[a])
    <2>1. IsFiniteSet(inbox[a]) /\ IsFiniteSet(inbox[a] \cup {smtp[t].name})
      BY FS_AddElement DEF TypeOK, DBTypeOK
    <2> QED
      BY <2>1, <1>2 DEF InsertMailEntry, InsertInbox, TypeOK, DBTypeOK
  <1>7. DBTypeOK'
    BY <1>4, <1>5, <1>6 DEF TypeOK, InsertMailEntry, DBTypeOK, userVars, mailVars, leakVars, groupVars, dbVars
  <1> QED
    BY <1>3, <1>7 DEF TypeOK, InsertMailEntry, DeliveryTypeOK, KeepDB, KeepDisk, KeepSenders, KeepPool, diskVars, senderVars, poolVars

LEMMA UpdateReceivedType ==
  ASSUME TypeOK, NEW t \in SmtpThread, UpdateReceived(t)
  PROVE  DBTypeOK' /\ DeliveryTypeOK'
  <1>1. smtp[t] \in Session /\ smtp[t].pc = "count"
    BY DEF TypeOK, DeliveryTypeOK, UpdateReceived
  <1>2. /\ smtp[t].mail.to \in Address
        /\ [smtp[t] EXCEPT !.pc = "analyze"] \in Session
    BY <1>1, NamedSessionFields, MailType
  <1>3. smtp' \in [SmtpThread -> Session]
    BY <1>2 DEF TypeOK, DeliveryTypeOK, UpdateReceived, Goto
  <1>4. faults' \in 0 .. MaxFaults
    BY ThrowsType DEF UpdateReceived, TypeOK, DBTypeOK
  <1>5. emailsReceived' \in [Address -> Nat]
    BY <1>2 DEF UpdateReceived, CountEmail, TypeOK, DBTypeOK
  <1>6. DBTypeOK'
    BY <1>4, <1>5 DEF TypeOK, UpdateReceived, DBTypeOK, userVars, mailVars, leakVars, groupVars, dbVars
  <1> QED
    BY <1>3, <1>6 DEF TypeOK, UpdateReceived, DeliveryTypeOK, KeepDB, KeepDisk, KeepSenders, KeepPool, diskVars, senderVars, poolVars

(* The end of the analysis without an HTML part, or the search for leaks.  *)
LEMMA AnalyzeLinksType ==
  ASSUME TypeOK, NEW t \in SmtpThread, AnalyzeLinks(t),
         smtp[t].pc \in {"analyze", "confirm"}
  PROVE  /\ smtp' \in [SmtpThread -> Session]
         /\ sent' \in [Mail -> {"queued", "acked", "bounced"}] /\ attempts' = attempts
         /\ leak' \in [Thread -> LeakActivation]
         /\ UNCHANGED <<leakCount, tpLeakCount, leakedEmails, leakRows, tpLeakRows>>
  <1>1. smtp[t] \in Session /\ t \in Thread
    BY MailDeliveryAssumption DEF TypeOK, DeliveryTypeOK
  <1>2. /\ smtp[t].mail \in Mail /\ smtp[t].user \in Snapshot
        /\ [smtp[t] EXCEPT !.pc = "leaks"] \in Session
    BY <1>1, NamedSessionFields
  <1>3. /\ smtp[t].mail.to \in Address /\ smtp[t].mail.links \in Seq(URL)
        /\ smtp[t].user.domain \in Domain
    BY <1>2, MailType DEF Snapshot
  <1>4. smtp' \in [SmtpThread -> Session]
    BY <1>2, NotRunningType DEF TypeOK, DeliveryTypeOK, AnalyzeLinks, Goto, Return, Finish
  <1>5. sent' \in [Mail -> {"queued", "acked", "bounced"}] /\ attempts' = attempts
    BY <1>2 DEF TypeOK, DeliveryTypeOK, AnalyzeLinks, Return, Finish, KeepSenders, senderVars
  <1>6. CASE smtp[t].mail.body = "html"
    <2>1. FindLeakedEmailAddress(t, smtp[t].mail.to, smtp[t].user.domain, "mail", {},
                                 smtp[t].mail.links)
      BY <1>6 DEF AnalyzeLinks
    <2>2. leak' \in [Thread -> LeakActivation]
      BY <1>1, <1>3, <2>1, FindLeakedType DEF TypeOK, LeakSource
    <2> QED
      BY <1>4, <1>5, <2>1, <2>2 DEF FindLeakedEmailAddress
  <1>7. CASE smtp[t].mail.body # "html"
    BY <1>4, <1>5, <1>7 DEF AnalyzeLinks, leakVars, TypeOK, DBTypeOK
  <1> QED
    BY <1>6, <1>7

LEMMA AnalyzeType ==
  ASSUME TypeOK, NEW t \in SmtpThread, Analyze(t)
  PROVE  DBTypeOK' /\ DeliveryTypeOK'
  <1>1. smtp[t] \in Session /\ smtp[t].pc = "analyze"
    BY DEF TypeOK, DeliveryTypeOK, Analyze
  <1>2. smtp[t].mail \in Mail /\ [smtp[t] EXCEPT !.pc = "confirm"] \in Session
    BY <1>1, NamedSessionFields
  <1>3. /\ smtp' \in [SmtpThread -> Session]
        /\ sent' \in [Mail -> {"queued", "acked", "bounced"}] /\ attempts' = attempts
        /\ leak' \in [Thread -> LeakActivation]
        /\ UNCHANGED <<leakCount, tpLeakCount, leakedEmails, leakRows, tpLeakRows>>
    <2>1. CASE AnalyzeLinks(t)
      BY <1>1, <2>1, AnalyzeLinksType
    <2>2. CASE \E answer \in {"acked", "queued"} : Finish(t, answer) /\ UNCHANGED leakVars
      BY <1>2, <2>2, NotRunningType DEF Finish, TypeOK, DeliveryTypeOK, DBTypeOK, leakVars
    <2>3. CASE Goto(t, "confirm") /\ KeepSenders /\ UNCHANGED leakVars
      BY <1>2, <2>3 DEF Goto, KeepSenders, senderVars, TypeOK, DeliveryTypeOK, DBTypeOK,
                        leakVars
    <2> QED
      BY <2>1, <2>2, <2>3 DEF Analyze, Return
  <1>4. DBTypeOK'
    BY <1>3 DEF TypeOK, Analyze, DBTypeOK, userVars, mailVars, groupVars
  <1> QED
    BY <1>3, <1>4 DEF TypeOK, Analyze, DeliveryTypeOK, KeepDB, KeepDisk, KeepSenders, KeepPool, diskVars, senderVars, poolVars

LEMMA AddLinkGroupType ==
  ASSUME DBTypeOK, NEW us \in Seq(URL), NEW d \in Domain, NEW a \in Address,
         AddLinkGroup(us, d, a)
  PROVE  /\ nextGroup' \in Nat \ {0}
         /\ linkGroups' \subseteq LinkGroup
         /\ \A g \in linkGroups' : g.id < nextGroup'
  <1> DEFINE new == [id |-> nextGroup, recipient |-> a, domain |-> d, urls |-> us]
  <1>1. nextGroup \in Nat /\ nextGroup' = nextGroup + 1
        /\ linkGroups' = linkGroups \cup {new}
    BY DEF DBTypeOK, AddLinkGroup
  <1>2. new \in LinkGroup /\ new.id = nextGroup
    BY <1>1 DEF LinkGroup
  <1>3. \A g \in linkGroups : g \in LinkGroup /\ g.id \in Nat /\ g.id < nextGroup
    BY DEF DBTypeOK, LinkGroup
  <1> QED
    BY <1>1, <1>2, <1>3

LEMMA RecordConfirmationType ==
  ASSUME TypeOK, NEW t \in SmtpThread, RecordConfirmation(t)
  PROVE  DBTypeOK' /\ DeliveryTypeOK'
  <1>1. smtp[t] \in Session /\ smtp[t].pc = "confirm" /\ AnalyzeLinks(t)
    BY DEF TypeOK, DeliveryTypeOK, RecordConfirmation
  <1>2. /\ smtp[t].mail.to \in Address /\ smtp[t].mail.confirm \in Seq(URL)
        /\ smtp[t].user.domain \in Domain
    BY <1>1, NamedSessionFields, MailType DEF Snapshot
  <1>3. /\ smtp' \in [SmtpThread -> Session]
        /\ sent' \in [Mail -> {"queued", "acked", "bounced"}] /\ attempts' = attempts
        /\ leak' \in [Thread -> LeakActivation]
        /\ UNCHANGED <<leakCount, tpLeakCount, leakedEmails, leakRows, tpLeakRows>>
    BY <1>1, AnalyzeLinksType
  <1>4. /\ nextGroup' \in Nat \ {0} /\ linkGroups' \subseteq LinkGroup
        /\ \A g \in linkGroups' : g.id < nextGroup'
        /\ faults' \in 0 .. MaxFaults
    <2>1. DBTypeOK
      BY DEF TypeOK
    <2>2. CASE AddLinkGroup(smtp[t].mail.confirm, smtp[t].user.domain, smtp[t].mail.to)
               /\ UNCHANGED faults
      BY <1>2, <2>1, <2>2, AddLinkGroupType DEF DBTypeOK
    <2>3. CASE Throws({"link_groups"}) /\ UNCHANGED groupVars
      BY <2>1, <2>3, ThrowsType DEF DBTypeOK, groupVars
    <2> QED
      BY <2>2, <2>3 DEF RecordConfirmation
  <1>5. DBTypeOK'
    BY <1>3, <1>4 DEF TypeOK, RecordConfirmation, DBTypeOK, userVars, mailVars
  <1> QED
    BY <1>3, <1>5 DEF TypeOK, RecordConfirmation, DeliveryTypeOK, KeepDB, KeepDisk, KeepSenders, KeepPool, diskVars, senderVars, poolVars

LEMMA ChooseImagesType ==
  ASSUME TypeOK, NEW t \in SmtpThread, ChooseImages(t)
  PROVE  DBTypeOK' /\ DeliveryTypeOK'
  <1>1. smtp[t] \in Session /\ smtp[t].pc = "leaks"
    BY DEF TypeOK, DeliveryTypeOK, ChooseImages
  <1>2. /\ smtp[t].mail \in Mail /\ smtp[t].user \in Snapshot
        /\ smtp[t].mail.pixels \subseteq URL /\ smtp[t].mail.others \subseteq URL
    BY <1>1, NamedSessionFields, MailType
  <1>3. \A o \in SUBSET smtp[t].mail.others :
          [pc |-> "images", mail |-> smtp[t].mail, user |-> smtp[t].user,
           images |-> smtp[t].mail.pixels \cup o] \in Session
    BY <1>2 DEF Session
  <1>4. smtp' \in [SmtpThread -> Session]
    BY <1>3 DEF TypeOK, DeliveryTypeOK, ChooseImages
  <1>5. DBTypeOK'
    BY DEF TypeOK, ChooseImages, KeepDB, DBTypeOK, userVars, mailVars, leakVars, groupVars, dbVars
  <1> QED
    BY <1>4, <1>5 DEF TypeOK, ChooseImages, DeliveryTypeOK, KeepDB, KeepDisk, KeepSenders, KeepPool, diskVars, senderVars, poolVars

LEMMA ScheduleImageType ==
  ASSUME TypeOK, NEW t \in SmtpThread, ScheduleImage(t)
  PROVE  DBTypeOK' /\ DeliveryTypeOK'
  <1>1. smtp[t] \in Session /\ smtp[t].pc = "images"
    BY DEF TypeOK, DeliveryTypeOK, ScheduleImage
  <1>2. /\ smtp[t].mail \in Mail /\ smtp[t].user \in Snapshot
        /\ smtp[t].images \subseteq URL
    BY <1>1, SessionFields
  <1>3. \A u \in smtp[t].images :
          /\ [smtp[t] EXCEPT !.images = @ \ {u}] \in Session
          /\ [recipient |-> smtp[t].mail.to, domain |-> smtp[t].user.domain, url |-> u]
               \in Task
    <2> SUFFICES ASSUME NEW u \in smtp[t].images
                 PROVE  /\ [smtp[t] EXCEPT !.images = @ \ {u}] \in Session
                        /\ [recipient |-> smtp[t].mail.to,
                            domain |-> smtp[t].user.domain, url |-> u] \in Task
      OBVIOUS
    <2>1. \A i \in SUBSET URL : [smtp[t] EXCEPT !.images = i] \in Session
      BY <1>1, <1>2 DEF Session, NotRunning
    <2>2. smtp[t].images \ {u} \in SUBSET URL
      BY <1>2
    <2>3. smtp[t].mail.to \in Address /\ smtp[t].user.domain \in Domain /\ u \in URL
      BY <1>2, MailType DEF Snapshot
    <2> QED
      BY <2>1, <2>2, <2>3 DEF Task
  <1>4. smtp' \in [SmtpThread -> Session]
    BY <1>3 DEF TypeOK, DeliveryTypeOK, ScheduleImage
  <1>5. queue' \in Seq(Task)
    <2>1. PICK u \in smtp[t].images :
            queue' = Append(queue, [recipient |-> smtp[t].mail.to,
                                    domain |-> smtp[t].user.domain, url |-> u])
      BY DEF ScheduleImage
    <2>2. queue \in Seq(Task)
      BY DEF TypeOK, DeliveryTypeOK
    <2>3. [recipient |-> smtp[t].mail.to, domain |-> smtp[t].user.domain, url |-> u] \in Task
      BY <1>3
    <2> HIDE DEF Task
    <2> QED
      BY <2>1, <2>2, <2>3
  <1>6. DBTypeOK'
    BY DEF TypeOK, ScheduleImage, KeepDB, DBTypeOK, userVars, mailVars, leakVars, groupVars, dbVars
  <1> QED
    BY <1>4, <1>5, <1>6 DEF TypeOK, ScheduleImage, DeliveryTypeOK, KeepDB, KeepDisk, KeepSenders, KeepPool, diskVars, senderVars, poolVars

LEMMA RecordLinksToVisitType ==
  ASSUME TypeOK, NEW t \in SmtpThread, RecordLinksToVisit(t)
  PROVE  DBTypeOK' /\ DeliveryTypeOK'
  <1>1. smtp[t] \in Session /\ smtp[t].pc = "images"
    BY DEF TypeOK, DeliveryTypeOK, RecordLinksToVisit
  <1>2. /\ smtp[t].mail \in Mail /\ smtp[t].mail.to \in Address
        /\ smtp[t].mail.visit \in Seq(URL) /\ smtp[t].user.domain \in Domain
    BY <1>1, SessionFields, MailType DEF Snapshot
  <1>3. /\ smtp' \in [SmtpThread -> Session]
        /\ sent' \in [Mail -> {"queued", "acked", "bounced"}] /\ attempts' = attempts
    BY <1>2, NotRunningType DEF TypeOK, DeliveryTypeOK, RecordLinksToVisit, Return, Finish
  <1>4. /\ nextGroup' \in Nat \ {0} /\ linkGroups' \subseteq LinkGroup
        /\ \A g \in linkGroups' : g.id < nextGroup'
        /\ faults' \in 0 .. MaxFaults
    <2>1. DBTypeOK
      BY DEF TypeOK
    <2>2. CASE AddLinkGroup(smtp[t].mail.visit, smtp[t].user.domain, smtp[t].mail.to)
               /\ UNCHANGED faults
      BY <1>2, <2>1, <2>2, AddLinkGroupType DEF DBTypeOK
    <2>3. CASE (Throws({"link_groups"}) \/ UNCHANGED faults) /\ UNCHANGED groupVars
      BY <2>1, <2>3, ThrowsType DEF DBTypeOK, groupVars
    <2> QED
      BY <2>2, <2>3 DEF RecordLinksToVisit, groupVars
  <1>5. DBTypeOK'
    BY <1>4 DEF TypeOK, RecordLinksToVisit, DBTypeOK, userVars, mailVars, leakVars
  <1> QED
    BY <1>3, <1>5 DEF TypeOK, RecordLinksToVisit, DeliveryTypeOK, KeepDB, KeepDisk, KeepSenders, KeepPool, diskVars, senderVars, poolVars

LEMMA TickType ==
  ASSUME TypeOK, Tick
  PROVE  DBTypeOK' /\ DeliveryTypeOK'
  <1>1. now' \in 1 .. MaxTime
    BY MailDeliveryAssumption DEF TypeOK, DeliveryTypeOK, Tick
  <1>2. DBTypeOK'
    BY DEF TypeOK, Tick, KeepDB, DBTypeOK, userVars, mailVars, leakVars, groupVars, dbVars
  <1> QED
    BY <1>1, <1>2 DEF TypeOK, Tick, DeliveryTypeOK, KeepDB, KeepDisk, KeepSenders, KeepPool, diskVars, senderVars, poolVars

(* What a pool thread has at each label.                                   *)
LEMMA PoolFields ==
  ASSUME NEW s \in PoolState
  PROVE  /\ s.pc = "go" => s.task \in Task
         /\ s.pc = "monitor" => s.task \in Task /\ s.chain \in Seq(URL)
         /\ s.pc = "redirects" =>
              /\ s.task \in Task /\ s.chain \in Seq(URL) /\ s.rank \in Nat \ {0}
              /\ [s EXCEPT !.pc = "leaks"] \in PoolState
              /\ \A r \in Nat \ {0} : [s EXCEPT !.rank = r] \in PoolState
  BY DEF PoolState, NotRunning

LEMMA TakeTaskType ==
  ASSUME TypeOK, NEW p \in PoolThread, TakeTask(p)
  PROVE  DBTypeOK' /\ DeliveryTypeOK'
  <1>1. Head(queue) \in Task /\ Tail(queue) \in Seq(Task)
    <2>1. queue \in Seq(Task) /\ queue # <<>>
      BY DEF TypeOK, DeliveryTypeOK, TakeTask
    <2> QED
      BY <2>1
  <1>2. [pc |-> "go", task |-> Head(queue)] \in PoolState
    BY <1>1 DEF PoolState
  <1>3. pool' \in [PoolThread -> PoolState] /\ queue' \in Seq(Task)
    BY <1>1, <1>2 DEF TypeOK, DeliveryTypeOK, TakeTask
  <1>4. DBTypeOK'
    BY DEF TypeOK, TakeTask, KeepDB, DBTypeOK, userVars, mailVars, leakVars, groupVars, dbVars
  <1> QED
    BY <1>3, <1>4 DEF TypeOK, TakeTask, DeliveryTypeOK, KeepDB, KeepDisk, KeepSenders, KeepPool, diskVars, senderVars, poolVars

LEMMA GoType ==
  ASSUME TypeOK, NEW p \in PoolThread, Go(p)
  PROVE  DBTypeOK' /\ DeliveryTypeOK'
  <1>1. pool[p] \in PoolState /\ pool[p].task \in Task
    BY PoolFields DEF TypeOK, DeliveryTypeOK, Go
  <1>2. Chains[pool[p].task.url] \subseteq Seq(URL)
    BY <1>1, MailDeliveryAssumption DEF Task
  <1>3. \A c \in Seq(URL) :
          [pc |-> "monitor", task |-> pool[p].task, chain |-> c] \in PoolState
    BY <1>1 DEF PoolState
  <1>4. pool' \in [PoolThread -> PoolState]
    BY <1>2, <1>3, NotRunningType DEF TypeOK, DeliveryTypeOK, Go, PoolIdle
  <1>5. DBTypeOK'
    BY DEF TypeOK, Go, KeepDB, DBTypeOK, userVars, mailVars, leakVars, groupVars, dbVars
  <1> QED
    BY <1>4, <1>5 DEF TypeOK, Go, DeliveryTypeOK, KeepDB, KeepDisk, KeepSenders, KeepPool, diskVars, senderVars, poolVars

LEMMA EnterAddRedirectsType ==
  ASSUME TypeOK, NEW p \in PoolThread, EnterAddRedirects(p)
  PROVE  DBTypeOK' /\ DeliveryTypeOK'
  <1>1. pool[p] \in PoolState /\ pool[p].task \in Task /\ pool[p].chain \in Seq(URL)
    BY PoolFields DEF TypeOK, DeliveryTypeOK, EnterAddRedirects
  <1>2. [pc |-> "redirects", task |-> pool[p].task, chain |-> pool[p].chain,
         rank |-> 1] \in PoolState
    BY <1>1 DEF PoolState
  <1>3. pool' \in [PoolThread -> PoolState] /\ dbLock' \in PoolThread \cup {None}
    BY <1>2, NotRunningType DEF TypeOK, DeliveryTypeOK, EnterAddRedirects, PoolIdle
  <1>4. DBTypeOK'
    BY DEF TypeOK, EnterAddRedirects, KeepDB, DBTypeOK, userVars, mailVars, leakVars, groupVars, dbVars
  <1> QED
    BY <1>3, <1>4 DEF TypeOK, EnterAddRedirects, DeliveryTypeOK, KeepDB, KeepDisk, KeepSenders, KeepPool, diskVars, senderVars, poolVars

LEMMA InsertRedirectType ==
  ASSUME TypeOK, NEW p \in PoolThread, InsertRedirect(p)
  PROVE  DBTypeOK' /\ DeliveryTypeOK'
  <1>1. pool[p] \in PoolState /\ pool[p].pc = "redirects" /\ p \in Thread
    BY MailDeliveryAssumption DEF TypeOK, DeliveryTypeOK, InsertRedirect
  <1>2. /\ pool[p].task \in Task /\ pool[p].chain \in Seq(URL)
        /\ pool[p].rank \in Nat \ {0} /\ [pool[p] EXCEPT !.pc = "leaks"] \in PoolState
        /\ \A r \in Nat \ {0} : [pool[p] EXCEPT !.rank = r] \in PoolState
    BY <1>1, PoolFields
  <1>3. pool[p].task.recipient \in Address /\ pool[p].task.domain \in Domain
    BY <1>2 DEF Task
  <1>4. [pool[p] EXCEPT !.rank = pool[p].rank + 1] \in PoolState
    <2>1. pool[p].rank + 1 \in Nat \ {0}
      BY <1>2
    <2> QED
      BY <1>2, <2>1
  <1>5. pool' \in [PoolThread -> PoolState] /\ dbLock' \in PoolThread \cup {None}
    BY <1>2, <1>4 DEF TypeOK, DeliveryTypeOK, InsertRedirect, PoolGoto
  <1>6. /\ leak' \in [Thread -> LeakActivation]
        /\ UNCHANGED <<leakCount, tpLeakCount, leakedEmails, leakRows, tpLeakRows>>
    <2>1. CASE UNCHANGED leakVars
      BY <2>1 DEF TypeOK, DBTypeOK, leakVars
    <2>2. CASE FindLeakedEmailAddress(p, pool[p].task.recipient, pool[p].task.domain,
                                      "image", {}, pool[p].chain)
      <3>1. leak' \in [Thread -> LeakActivation]
        BY <1>1, <1>2, <1>3, <2>2, FindLeakedType DEF TypeOK, LeakSource
      <3> QED
        BY <2>2, <3>1 DEF FindLeakedEmailAddress
    <2> QED
      BY <2>1, <2>2 DEF InsertRedirect
  <1>7. \A r \in redirects' : r.recipient \in Address /\ r.rank \in Nat \ {0}
    <2>1. redirects' = redirects \cup
            {[recipient |-> pool[p].task.recipient, request |-> pool[p].task.url,
              rank |-> pool[p].rank, target |-> pool[p].chain[pool[p].rank]]}
      BY DEF InsertRedirect, AddRedirect
    <2> QED
      BY <2>1, <1>2, <1>3 DEF TypeOK, DBTypeOK
  <1>8. DBTypeOK'
    BY <1>6, <1>7 DEF TypeOK, InsertRedirect, DBTypeOK, userVars, mailVars, groupVars
  <1> QED
    BY <1>5, <1>8 DEF TypeOK, InsertRedirect, DeliveryTypeOK, KeepDB, KeepDisk, KeepSenders, KeepPool, diskVars, senderVars, poolVars

LEMMA RedirectThrowsType ==
  ASSUME TypeOK, NEW p \in PoolThread, RedirectThrows(p)
  PROVE  DBTypeOK' /\ DeliveryTypeOK'
  <1>1. pool' \in [PoolThread -> PoolState]
    BY NotRunningType DEF TypeOK, DeliveryTypeOK, RedirectThrows, PoolIdle
  <1>2. DBTypeOK'
    BY ThrowsType DEF TypeOK, RedirectThrows, DBTypeOK, userVars, mailVars, leakVars, groupVars, dbVars
  <1> QED
    BY <1>1, <1>2 DEF TypeOK, RedirectThrows, DeliveryTypeOK, KeepDB, KeepDisk, KeepSenders, KeepPool, diskVars, senderVars, poolVars

LEMMA TaskDoneType ==
  ASSUME TypeOK, NEW p \in PoolThread, TaskDone(p)
  PROVE  DBTypeOK' /\ DeliveryTypeOK'
  <1>1. pool' \in [PoolThread -> PoolState]
    BY NotRunningType DEF TypeOK, DeliveryTypeOK, TaskDone, PoolIdle
  <1>2. DBTypeOK'
    BY DEF TypeOK, TaskDone, KeepDB, DBTypeOK, userVars, mailVars, leakVars, groupVars, dbVars
  <1> QED
    BY <1>1, <1>2 DEF TypeOK, TaskDone, DeliveryTypeOK, KeepDB, KeepDisk, KeepSenders, KeepPool, diskVars, senderVars, poolVars

(* Every step of the delivery part.                                        *)
LEMMA DeliveryStepType ==
  ASSUME TypeOK, DeliveryNext
  PROVE  DBTypeOK' /\ DeliveryTypeOK'
  <1>1. SmtpThread \subseteq Thread /\ PoolThread \subseteq Thread
    BY MailDeliveryAssumption
  <1>2. ASSUME NEW t \in Thread, RecordLeak(t), UNCHANGED deliveryVars
        PROVE  DBTypeOK' /\ DeliveryTypeOK'
    <2>1. DBTypeOK'
      BY <1>2, RecordLeakType DEF TypeOK
    <2> QED
      BY <2>1, <1>2 DEF TypeOK, DeliveryTypeOK, KeepDB, KeepDisk, KeepSenders, KeepPool, diskVars, senderVars, poolVars, deliveryVars
  <1>3. ASSUME NEW t \in SmtpThread, SmtpStep(t) PROVE DBTypeOK' /\ DeliveryTypeOK'
    BY <1>1, <1>2, <1>3, AcceptType, HandleMessageType, IsDirectoryType, MkdirsType,
       WriteFileType, InsertMailEntryType, UpdateReceivedType, AnalyzeType,
       RecordConfirmationType, ChooseImagesType, ScheduleImageType,
       RecordLinksToVisitType DEF SmtpStep, RecordMailLeak
  <1>4. ASSUME NEW p \in PoolThread, PoolStep(p) PROVE DBTypeOK' /\ DeliveryTypeOK'
    BY <1>1, <1>2, <1>4, TakeTaskType, GoType, EnterAddRedirectsType, InsertRedirectType,
       RedirectThrowsType, TaskDoneType DEF PoolStep, RecordImageLeak
  <1> QED
    BY <1>3, <1>4, ConnectType, TickType DEF DeliveryNext

-----------------------------------------------------------------------------
(* Type correctness of the web part.                                       *)

WebState ==
  {NoRequest}
  \cup [pc : {"register"}, domain : Domain, retries : 1 .. 3]
  \cup [pc : {"group"}, id : Nat, report : Report]
  \cup [pc : {"user", "leaks"}, group : LinkGroup, report : Report]

LEMMA NoRequestType == NoRequest \in WebState
  BY DEF WebState

LEMMA WebFields ==
  ASSUME NEW s \in WebState
  PROVE  /\ s.pc = "register" =>
              /\ s.domain \in Domain /\ s.retries \in 1 .. 3
              /\ \A r \in 1 .. 3 : [s EXCEPT !.retries = r] \in WebState
         /\ s.pc = "group" => s.report \in Report
         /\ s.pc \in {"user", "leaks"} =>
              /\ s.group \in LinkGroup /\ s.report \in Report
              /\ [s EXCEPT !.pc = "leaks"] \in WebState
  BY DEF WebState, NoRequest

LEMMA BeginType ==
  ASSUME TypeOK, NEW w \in WebThread, NEW s \in WebState, Begin(w, s)
  PROVE  DBTypeOK' /\ WebTypeOK'
  <1>1. web' \in [WebThread -> WebState] /\ requests' \in 0 .. MaxRequests
    BY WebApiAssumption DEF TypeOK, WebTypeOK, WebState, Begin
  <1>2. DBTypeOK'
    BY DEF TypeOK, Begin, DBTypeOK, userVars, mailVars, leakVars, groupVars, dbVars
  <1> QED
    BY <1>1, <1>2 DEF TypeOK, Begin, WebTypeOK, WebState

LEMMA ClientType ==
  ASSUME TypeOK, NEW w \in WebThread, Client(w)
  PROVE  DBTypeOK' /\ WebTypeOK'
  <1>1. CASE PostRegister(w)
    <2>1. PICK d \in Domain : Begin(w, [pc |-> "register", domain |-> d, retries |-> 3])
      BY <1>1 DEF PostRegister
    <2>2. [pc |-> "register", domain |-> d, retries |-> 3] \in WebState
      BY DEF WebState
    <2> QED
      BY <2>1, <2>2, BeginType
  <1>2. CASE PostResults(w)
    <2>1. PICK id \in offered \cup {0}, r \in Report :
            Begin(w, [pc |-> "group", id |-> id, report |-> r])
      BY <1>2 DEF PostResults
    <2>2. id \in Nat
      <3>1. offered \subseteq Nat
        BY DEF TypeOK, WebTypeOK
      <3> QED
        BY <2>1, <3>1
    <2>3. [pc |-> "group", id |-> id, report |-> r] \in WebState
      BY <2>2 DEF WebState
    <2> QED
      BY <2>1, <2>3, BeginType
  <1>3. CASE GetVisit(w)
    <2>1. requests' \in 0 .. MaxRequests
      BY <1>3, WebApiAssumption DEF TypeOK, WebTypeOK, GetVisit
    <2>2. offered' \subseteq Nat
      <3>1. offered \subseteq Nat /\ linkGroups \subseteq LinkGroup
        BY DEF TypeOK, WebTypeOK, DBTypeOK
      <3>2. \A g \in linkGroups : g.id \in Nat
        BY <3>1 DEF LinkGroup
      <3>3. (\E g \in linkGroups : offered' = offered \cup {g.id}) \/ offered' = offered
        BY <1>3 DEF GetVisit
      <3>4. ASSUME NEW g \in linkGroups, offered' = offered \cup {g.id}
            PROVE  offered' \subseteq Nat
        <4>1. g.id \in Nat
          BY <3>2
        <4> QED
          BY <3>1, <3>4, <4>1
      <3> QED
        BY <3>1, <3>3, <3>4
    <2>3. DBTypeOK'
      BY <1>3, ThrowsType DEF TypeOK, GetVisit, DBTypeOK, userVars, mailVars, leakVars, groupVars, dbVars
    <2> QED
      BY <1>3, <2>1, <2>2, <2>3 DEF TypeOK, GetVisit, WebTypeOK
  <1> QED
    BY <1>1, <1>2, <1>3 DEF Client

LEMMA GenerateAddressType ==
  ASSUME TypeOK, NEW w \in WebThread, GenerateAddress(w)
  PROVE  DBTypeOK' /\ WebTypeOK'
  <1>1. /\ web[w] \in WebState /\ web[w].domain \in Domain /\ web[w].retries \in 1 .. 3
        /\ \A r \in 1 .. 3 : [web[w] EXCEPT !.retries = r] \in WebState
    BY WebFields DEF TypeOK, WebTypeOK, WebState, GenerateAddress
  <1>2. web[w].retries > 1 =>
          [web[w] EXCEPT !.retries = web[w].retries - 1] \in WebState
    <2>1. web[w].retries > 1 => web[w].retries - 1 \in 1 .. 3
      BY <1>1
    <2> QED
      BY <1>1, <2>1
  <1>3. web \in [WebThread -> WebState] /\ issued \in [Address -> Nat]
    BY DEF TypeOK, WebTypeOK, WebState
  <1>4. web' \in [WebThread -> WebState]
    BY <1>2, <1>3, NoRequestType DEF GenerateAddress, Respond
  <1>5. issued' \in [Address -> Nat]
    BY <1>3 DEF GenerateAddress
  <1>6. users' \subseteq Address /\ registerDomain' \in [Address -> Domain]
    BY <1>1 DEF TypeOK, DBTypeOK, GenerateAddress, AddMailUser, userVars
  <1>7. faults' \in 0 .. MaxFaults
    BY ThrowsType DEF TypeOK, DBTypeOK, GenerateAddress
  <1>8. DBTypeOK'
    BY <1>6, <1>7 DEF TypeOK, GenerateAddress, DBTypeOK, mailVars, leakVars, groupVars
  <1> QED
    BY <1>4, <1>5, <1>8 DEF TypeOK, GenerateAddress, WebTypeOK, WebState

LEMMA LookUpGroupType ==
  ASSUME TypeOK, NEW w \in WebThread, LookUpGroup(w)
  PROVE  DBTypeOK' /\ WebTypeOK'
  <1>1. web \in [WebThread -> WebState] /\ linkGroups \subseteq LinkGroup
    BY DEF TypeOK, WebTypeOK, WebState, DBTypeOK
  <1>2. web[w].report \in Report
    BY <1>1, WebFields DEF LookUpGroup
  <1>3. \A g \in linkGroups :
          [pc |-> "user", group |-> g, report |-> web[w].report] \in WebState
    BY <1>1, <1>2 DEF WebState
  <1>4. web' \in [WebThread -> WebState]
    BY <1>1, <1>3, NoRequestType DEF LookUpGroup, Respond
  <1>5. DBTypeOK'
    BY ThrowsType DEF TypeOK, LookUpGroup, DBTypeOK, userVars, mailVars, leakVars, groupVars, dbVars
  <1> QED
    BY <1>4, <1>5 DEF TypeOK, LookUpGroup, WebTypeOK, WebState

LEMMA LookUpRecipientType ==
  ASSUME TypeOK, NEW w \in WebThread, LookUpRecipient(w)
  PROVE  DBTypeOK' /\ WebTypeOK'
  <1>1. /\ web \in [WebThread -> WebState] /\ web[w].pc = "user" /\ w \in Thread
        /\ web[w] \in WebState
    BY WebApiAssumption DEF TypeOK, WebTypeOK, WebState, LookUpRecipient
  <1>2. /\ web[w].group \in LinkGroup /\ web[w].report \in Report
        /\ [web[w] EXCEPT !.pc = "leaks"] \in WebState
    BY <1>1, WebFields
  <1>3. /\ web[w].group.recipient \in Address /\ web[w].group.domain \in Domain
        /\ web[w].group.urls \in Seq(URL) /\ web[w].report \in Seq(URL)
    BY <1>2, WebApiAssumption DEF LinkGroup
  <1>4. BaseUrls(web[w].group) \in SUBSET URL
    BY <1>3 DEF BaseUrls
  <1>5. web' \in [WebThread -> WebState]
    BY <1>1, <1>2, NoRequestType DEF LookUpRecipient, Respond
  <1>6. /\ leak' \in [Thread -> LeakActivation]
        /\ UNCHANGED <<leakCount, tpLeakCount, leakedEmails, leakRows, tpLeakRows>>
    <2>1. CASE UNCHANGED leakVars
      BY <2>1 DEF TypeOK, DBTypeOK, leakVars
    <2>2. CASE FindLeakedEmailAddress(w, web[w].group.recipient, web[w].group.domain,
                 "link", BaseUrls(web[w].group), web[w].report)
      <3>1. leak' \in [Thread -> LeakActivation]
        BY <1>1, <1>3, <1>4, <2>2, FindLeakedType DEF TypeOK, LeakSource
      <3> QED
        BY <2>2, <3>1 DEF FindLeakedEmailAddress
    <2> QED
      BY <2>1, <2>2 DEF LookUpRecipient
  <1>7. faults' \in 0 .. MaxFaults
    BY ThrowsType DEF TypeOK, DBTypeOK, LookUpRecipient
  <1>8. DBTypeOK'
    BY <1>6, <1>7 DEF TypeOK, LookUpRecipient, DBTypeOK, userVars, mailVars, groupVars
  <1> QED
    BY <1>5, <1>8 DEF TypeOK, LookUpRecipient, WebTypeOK, WebState

LEMMA ResultsFailedType ==
  ASSUME TypeOK, NEW w \in WebThread, ResultsFailed(w)
  PROVE  DBTypeOK' /\ WebTypeOK'
  <1>1. web' \in [WebThread -> WebState] /\ leak' \in [Thread -> LeakActivation]
    BY NoRequestType DEF TypeOK, DBTypeOK, WebTypeOK, WebState, ResultsFailed, Respond,
                         LeakActivation
  <1>2. DBTypeOK'
    BY <1>1 DEF TypeOK, ResultsFailed, DBTypeOK, userVars, mailVars, groupVars
  <1> QED
    BY <1>1, <1>2 DEF TypeOK, ResultsFailed, WebTypeOK, WebState

LEMMA RemoveGroupType ==
  ASSUME TypeOK, NEW w \in WebThread, RemoveGroup(w)
  PROVE  DBTypeOK' /\ WebTypeOK'
  <1>1. web \in [WebThread -> WebState] /\ web[w].pc = "leaks" /\ web[w] \in WebState
    BY DEF TypeOK, WebTypeOK, WebState, RemoveGroup
  <1>2. web[w].group \in LinkGroup /\ web[w].report \in Report
    BY <1>1, WebFields
  <1>3. web' \in [WebThread -> WebState]
    BY <1>1, NoRequestType DEF RemoveGroup, Respond
  <1>4. accepted' \subseteq [group : LinkGroup, report : Report]
    BY <1>2 DEF TypeOK, WebTypeOK, RemoveGroup
  <1>5. linkGroups' \subseteq linkGroups
    BY DEF RemoveGroup, RemoveLinkGroup
  <1>6. faults' \in 0 .. MaxFaults
    BY ThrowsType DEF TypeOK, DBTypeOK, RemoveGroup
  <1>7. DBTypeOK'
    BY <1>5, <1>6 DEF TypeOK, RemoveGroup, DBTypeOK, userVars, mailVars, leakVars
  <1> QED
    BY <1>3, <1>4, <1>7 DEF TypeOK, RemoveGroup, WebTypeOK, WebState

LEMMA RecordLinkLeakType ==
  ASSUME TypeOK, NEW w \in WebThread, RecordLinkLeak(w)
  PROVE  DBTypeOK' /\ WebTypeOK'
  <1>1. w \in Thread /\ RecordLeak(w)
    BY WebApiAssumption DEF RecordLinkLeak
  <1>2. DBTypeOK'
    BY <1>1, RecordLeakType DEF TypeOK
  <1> QED
    BY <1>2 DEF TypeOK, RecordLinkLeak, webVars, WebTypeOK, WebState

LEMMA WebStepType ==
  ASSUME TypeOK, WebNext
  PROVE  DBTypeOK' /\ WebTypeOK'
  BY ClientType, GenerateAddressType, LookUpGroupType, LookUpRecipientType,
     ResultsFailedType, RemoveGroupType, RecordLinkLeakType DEF WebNext, WebStep

-----------------------------------------------------------------------------
(* Every reachable state of the mail server is well typed: whatever is     *)
(* interleaved, fails or crashes, a thread works with an address, a group  *)
(* or a task that is one (all of MailServer's actions).                    *)
THEOREM TypeCorrect == Spec => []TypeOK
  <1>1. Init => TypeOK
    <2> SUFFICES ASSUME Init PROVE TypeOK
      OBVIOUS
    <2>1. users \subseteq Address /\ registerDomain \in [Address -> Domain]
      BY MailDBAssumption DEF Init, DBInit, Domain
    <2>2. DBTypeOK
      BY <2>1, FS_EmptySet, MailDBAssumption DEF Init, DBInit, DBTypeOK, LeakActivation
    <2>3. DeliveryTypeOK
      BY NotRunningType, MailDeliveryAssumption DEF Init, DeliveryInit, DeliveryTypeOK
    <2>4. WebTypeOK
      BY NoRequestType, WebApiAssumption DEF Init, WebInit, WebTypeOK, WebState
    <2> QED
      BY <2>2, <2>3, <2>4, MailServerAssumption DEF Init, TypeOK
  <1>2. TypeOK /\ [Next]_vars => TypeOK'
    <2> SUFFICES ASSUME TypeOK, [Next]_vars PROVE TypeOK'
      OBVIOUS
    <2>1. CASE DeliveryNext /\ UNCHANGED <<webVars, crashes>>
      <3>1. WebTypeOK' /\ crashes' \in 0 .. MaxCrashes
        BY <2>1 DEF TypeOK, WebTypeOK, webVars
      <3> QED
        BY <2>1, <3>1, DeliveryStepType DEF TypeOK
    <2>2. CASE WebNext /\ UNCHANGED <<deliveryVars, crashes>>
      <3>1. DeliveryTypeOK' /\ crashes' \in 0 .. MaxCrashes
        BY <2>2 DEF TypeOK, DeliveryTypeOK, deliveryVars, senderVars, diskVars, poolVars
      <3> QED
        BY <2>2, <3>1, WebStepType DEF TypeOK
    <2>3. CASE Crash
      <3>1. DBTypeOK'
        BY <2>3 DEF Crash, TypeOK, DBTypeOK, userVars, mailVars, groupVars, LeakActivation
      <3>2. DeliveryTypeOK'
        BY <2>3, NotRunningType
           DEF Crash, TypeOK, DeliveryTypeOK, senderVars, diskVars
      <3>3. WebTypeOK'
        BY <2>3, NoRequestType DEF Crash, TypeOK, WebTypeOK, WebState
      <3>4. crashes' \in 0 .. MaxCrashes
        BY <2>3, MailServerAssumption DEF Crash, TypeOK
      <3> QED
        BY <3>1, <3>2, <3>3, <3>4 DEF TypeOK
    <2>4. CASE UNCHANGED vars
      <3>1. DBTypeOK'
        BY <2>4 DEF vars, TypeOK, DBTypeOK, userVars, mailVars, leakVars, groupVars, dbVars
      <3>2. DeliveryTypeOK'
        BY <2>4 DEF vars, TypeOK, DeliveryTypeOK, deliveryVars, senderVars, diskVars, poolVars
      <3>3. WebTypeOK' /\ crashes' \in 0 .. MaxCrashes
        BY <2>4 DEF vars, TypeOK, WebTypeOK, webVars
      <3> QED
        BY <3>1, <3>2, <3>3 DEF TypeOK
    <2> QED
      BY <2>1, <2>2, <2>3, <2>4 DEF Next
  <1> QED
    BY <1>1, <1>2, PTL DEF Spec

-----------------------------------------------------------------------------
(* How a step of the server can change the leak table, its counters and    *)
(* the activations: not at all, by one statement of RecordLeak, by putting *)
(* one thread at a point before its next INSERT, or by a crash.            *)

leakTables == <<leakCount, tpLeakCount, leakedEmails, leakRows, tpLeakRows>>

Moves(t) ==
  /\ UNCHANGED leakTables
  /\ \E n \in LeakActivation : /\ n.step \notin {"count", "tpcount"}
                              /\ leak' = [leak EXCEPT ![t] = n]

LEMMA ActivationMoves ==
  ASSUME DBTypeOK, NEW t \in Thread, NEW a \in Address, NEW d \in Domain,
         NEW src \in LeakSource, NEW skip \in SUBSET URL, NEW us \in Seq(URL),
         FindLeakedEmailAddress(t, a, d, src, skip, us)
  PROVE  Moves(t)
  <1>1. Activation(a, d, src, skip, us) \in LeakActivation
    BY ActivationType
  <1>2. Activation(a, d, src, skip, us).step \notin {"count", "tpcount"}
    BY DEF Activation, Idle
  <1> QED
    BY <1>1, <1>2 DEF FindLeakedEmailAddress, Moves, leakTables

LEMMA AnalyzeLinksMoves ==
  ASSUME TypeOK, NEW t \in SmtpThread, AnalyzeLinks(t),
         smtp[t].pc \in {"analyze", "confirm"}
  PROVE  UNCHANGED leakVars \/ Moves(t)
  <1>1. smtp[t] \in Session /\ t \in Thread /\ DBTypeOK
    BY MailDeliveryAssumption DEF TypeOK, DeliveryTypeOK
  <1>2. /\ smtp[t].mail.to \in Address /\ smtp[t].mail.links \in Seq(URL)
        /\ smtp[t].user.domain \in Domain
    BY <1>1, NamedSessionFields, MailType DEF Snapshot
  <1> QED
    BY <1>1, <1>2, ActivationMoves DEF AnalyzeLinks, LeakSource

LEMMA SmtpLeakEffect ==
  ASSUME TypeOK, NEW t \in SmtpThread, SmtpStep(t)
  PROVE  UNCHANGED leakVars \/ RecordLeak(t) \/ Moves(t)
  <1>1. CASE Analyze(t)
    <2>1. smtp[t].pc = "analyze"
      BY <1>1 DEF Analyze
    <2> QED
      BY <1>1, <2>1, AnalyzeLinksMoves DEF Analyze
  <1>2. CASE RecordConfirmation(t)
    <2>1. smtp[t].pc = "confirm" /\ AnalyzeLinks(t)
      BY <1>2 DEF RecordConfirmation
    <2> QED
      BY <2>1, AnalyzeLinksMoves
  <1>3. CASE RecordMailLeak(t)
    BY <1>3 DEF RecordMailLeak
  <1>4. CASE \/ IsDirectory(t) \/ ChooseImages(t) \/ ScheduleImage(t)
    BY <1>4 DEF IsDirectory, ChooseImages, ScheduleImage, KeepDB, dbVars
  <1>5. CASE \/ Accept(t) \/ HandleMessage(t) \/ Mkdirs(t) \/ WriteFile(t)
             \/ InsertMailEntry(t) \/ UpdateReceived(t) \/ RecordLinksToVisit(t)
    BY <1>5 DEF Accept, HandleMessage, Mkdirs, WriteFile, InsertMailEntry,
                UpdateReceived, RecordLinksToVisit
  <1> QED
    BY <1>1, <1>2, <1>3, <1>4, <1>5, SmtpStep(t) DEF SmtpStep

LEMMA PoolLeakEffect ==
  ASSUME TypeOK, NEW p \in PoolThread, PoolStep(p)
  PROVE  UNCHANGED leakVars \/ RecordLeak(p) \/ Moves(p)
  <1>1. CASE InsertRedirect(p)
    <2>1. pool[p] \in PoolState /\ pool[p].pc = "redirects" /\ p \in Thread /\ DBTypeOK
      BY <1>1, MailDeliveryAssumption DEF TypeOK, DeliveryTypeOK, InsertRedirect
    <2>2. /\ pool[p].task.recipient \in Address /\ pool[p].task.domain \in Domain
          /\ pool[p].chain \in Seq(URL)
      BY <2>1, PoolFields DEF Task
    <2> QED
      BY <1>1, <2>1, <2>2, ActivationMoves DEF InsertRedirect, LeakSource
  <1>2. CASE RecordImageLeak(p)
    BY <1>2 DEF RecordImageLeak
  <1>3. CASE \/ TakeTask(p) \/ Go(p) \/ EnterAddRedirects(p) \/ TaskDone(p)
             \/ RedirectThrows(p)
    BY <1>3 DEF TakeTask, Go, EnterAddRedirects, TaskDone, RedirectThrows, KeepDB, dbVars
  <1> QED
    BY <1>1, <1>2, <1>3, PoolStep(p) DEF PoolStep

LEMMA WebLeakEffect ==
  ASSUME TypeOK, NEW w \in WebThread, WebStep(w) \/ Client(w)
  PROVE  UNCHANGED leakVars \/ RecordLeak(w) \/ Moves(w)
  <1>1. w \in Thread /\ DBTypeOK
    BY WebApiAssumption DEF TypeOK
  <1>2. CASE LookUpRecipient(w)
    <2>1. web[w] \in WebState /\ web[w].pc = "user"
      BY <1>2 DEF TypeOK, WebTypeOK, WebState, LookUpRecipient
    <2>2. /\ web[w].group.recipient \in Address /\ web[w].group.domain \in Domain
          /\ web[w].group.urls \in Seq(URL) /\ web[w].report \in Seq(URL)
      BY <2>1, WebFields, WebApiAssumption DEF LinkGroup
    <2>3. BaseUrls(web[w].group) \in SUBSET URL
      BY <2>2 DEF BaseUrls
    <2> QED
      BY <1>1, <1>2, <2>2, <2>3, ActivationMoves DEF LookUpRecipient, LeakSource
  <1>3. CASE ResultsFailed(w)
    <2>1. Idle \in LeakActivation /\ Idle.step \notin {"count", "tpcount"}
      BY DEF LeakActivation, Idle
    <2> QED
      BY <1>3, <2>1 DEF ResultsFailed, Moves, leakTables
  <1>4. CASE RecordLinkLeak(w)
    BY <1>4 DEF RecordLinkLeak
  <1>5. CASE GenerateAddress(w) \/ LookUpGroup(w) \/ RemoveGroup(w)
    BY <1>5 DEF GenerateAddress, LookUpGroup, RemoveGroup
  <1>6. CASE Client(w)
    BY <1>6 DEF Client, PostRegister, PostResults, GetVisit, Begin, dbVars
  <1> QED
    BY <1>2, <1>3, <1>4, <1>5, <1>6, WebStep(w) \/ Client(w) DEF WebStep

LEMMA LeakEffect ==
  ASSUME TypeOK, [Next]_vars
  PROVE  \/ UNCHANGED leakVars
         \/ \E t \in Thread : RecordLeak(t) \/ Moves(t)
         \/ Crash
  <1>1. SmtpThread \cup PoolThread \cup WebThread \subseteq Thread
    BY MailDeliveryAssumption, WebApiAssumption
  <1>2. ASSUME DeliveryNext
        PROVE  UNCHANGED leakVars \/ \E t \in Thread : RecordLeak(t) \/ Moves(t)
    <2>1. CASE Tick \/ \E t \in SmtpThread, m \in Mail : Connect(t, m)
      BY <2>1 DEF Tick, Connect, KeepDB, dbVars
    <2>2. CASE \E t \in SmtpThread : SmtpStep(t)
      BY <1>1, <2>2, SmtpLeakEffect
    <2>3. CASE \E p \in PoolThread : PoolStep(p)
      BY <1>1, <2>3, PoolLeakEffect
    <2> QED
      BY <1>2, <2>1, <2>2, <2>3 DEF DeliveryNext
  <1>3. ASSUME WebNext
        PROVE  UNCHANGED leakVars \/ \E t \in Thread : RecordLeak(t) \/ Moves(t)
    BY <1>1, <1>3, WebLeakEffect DEF WebNext
  <1>4. UNCHANGED vars => UNCHANGED leakVars
    BY DEF vars, dbVars
  <1> QED
    BY <1>2, <1>3, <1>4 DEF Next
-----------------------------------------------------------------------------
(* The counters of leaks.  The inequalities of LeakCountsCovered are       *)
(* inductive together with what the code knows when it is about to update  *)
(* tp_leak_count: that the URL is a third party's.                         *)

TpCountIsThirdParty ==
  \A t \in Thread : leak[t].step = "tpcount" => ThirdParty(leak[t])

LeakInv == TypeOK /\ LeakCountsCovered /\ TpCountIsThirdParty

(* How the size of a set of threads changes when one thread moves.         *)
LEMMA OneThreadMoves ==
  ASSUME NEW S \in SUBSET Thread, NEW S2 \in SUBSET Thread, NEW t \in Thread,
         S \ {t} = S2 \ {t}
  PROVE  /\ Cardinality(S) \in Nat /\ Cardinality(S2) \in Nat
         /\ (t \in S <=> t \in S2) => Cardinality(S2) = Cardinality(S)
         /\ t \notin S /\ t \in S2 => Cardinality(S2) = Cardinality(S) + 1
         /\ t \in S /\ t \notin S2 => Cardinality(S) = Cardinality(S2) + 1
  <1>1. IsFiniteSet(S) /\ IsFiniteSet(S2)
    BY FS_Subset, MailDBAssumption
  <1>2. Cardinality(S) \in Nat /\ Cardinality(S2) \in Nat
    BY <1>1, FS_CardinalityType
  <1>3. CASE t \in S <=> t \in S2
    <2>1. S = S2
      BY <1>3
    <2> QED
      BY <1>2, <1>3, <2>1
  <1>4. CASE t \notin S /\ t \in S2
    <2>1. S2 = S \cup {t}
      BY <1>4
    <2>2. Cardinality(S2) = Cardinality(S) + 1
      BY <1>1, <1>4, <2>1, FS_AddElement
    <2> QED
      BY <1>2, <1>4, <2>2
  <1>5. CASE t \in S /\ t \notin S2
    <2>1. S = S2 \cup {t}
      BY <1>5
    <2>2. Cardinality(S) = Cardinality(S2) + 1
      BY <1>1, <1>5, <2>1, FS_AddElement
    <2> QED
      BY <1>2, <1>5, <2>2
  <1> QED
    BY <1>3, <1>4, <1>5

(* Thread t leaves the activation l = leak[t] for n.                       *)
Becomes(t, n) == leak' = [leak EXCEPT ![t] = n]

LEMMA OwedSets ==
  ASSUME DBTypeOK, NEW t \in Thread, NEW n, Becomes(t, n), NEW a \in Address
  PROVE  /\ Uncounted(a) \in SUBSET Thread /\ Uncounted(a)' \in SUBSET Thread
         /\ Uncounted(a) \ {t} = Uncounted(a)' \ {t}
         /\ t \in Uncounted(a) <=> leak[t].step = "count" /\ leak[t].recipient = a
         /\ t \in Uncounted(a)' <=> n.step = "count" /\ n.recipient = a
         /\ UncountedThirdParty(a) \in SUBSET Thread
         /\ UncountedThirdParty(a)' \in SUBSET Thread
         /\ UncountedThirdParty(a) \ {t} = UncountedThirdParty(a)' \ {t}
         /\ t \in UncountedThirdParty(a) <=>
              /\ leak[t].step \in {"count", "tpcount"}
              /\ leak[t].recipient = a /\ ThirdParty(leak[t])
         /\ t \in UncountedThirdParty(a)' <=>
              /\ n.step \in {"count", "tpcount"}
              /\ n.recipient = a /\ ThirdParty(n)
         /\ AwaitingThirdParty(a) \in SUBSET Thread
         /\ AwaitingThirdParty(a)' \in SUBSET Thread
         /\ AwaitingThirdParty(a) \ {t} = AwaitingThirdParty(a)' \ {t}
         /\ t \in AwaitingThirdParty(a) <=>
              leak[t].step = "tpcount" /\ leak[t].recipient = a
         /\ t \in AwaitingThirdParty(a)' <=>
              n.step = "tpcount" /\ n.recipient = a
  <1>1. /\ leak'[t] = n
        /\ \A s \in Thread \ {t} : leak'[s] = leak[s]
    BY DEF Becomes, DBTypeOK
  <1>2. /\ Uncounted(a) \in SUBSET Thread /\ Uncounted(a)' \in SUBSET Thread
        /\ Uncounted(a) \ {t} = Uncounted(a)' \ {t}
        /\ t \in Uncounted(a) <=> leak[t].step = "count" /\ leak[t].recipient = a
        /\ t \in Uncounted(a)' <=> n.step = "count" /\ n.recipient = a
    BY <1>1 DEF Uncounted
  <1>3. /\ UncountedThirdParty(a) \in SUBSET Thread
        /\ UncountedThirdParty(a)' \in SUBSET Thread
        /\ UncountedThirdParty(a) \ {t} = UncountedThirdParty(a)' \ {t}
        /\ t \in UncountedThirdParty(a) <=>
             /\ leak[t].step \in {"count", "tpcount"}
             /\ leak[t].recipient = a /\ ThirdParty(leak[t])
        /\ t \in UncountedThirdParty(a)' <=>
             /\ n.step \in {"count", "tpcount"}
             /\ n.recipient = a /\ ThirdParty(n)
    BY <1>1 DEF UncountedThirdParty, ThirdParty
  <1>4. /\ AwaitingThirdParty(a) \in SUBSET Thread
        /\ AwaitingThirdParty(a)' \in SUBSET Thread
        /\ AwaitingThirdParty(a) \ {t} = AwaitingThirdParty(a)' \ {t}
        /\ t \in AwaitingThirdParty(a) <=>
             leak[t].step = "tpcount" /\ leak[t].recipient = a
        /\ t \in AwaitingThirdParty(a)' <=>
             n.step = "tpcount" /\ n.recipient = a
    BY <1>1 DEF AwaitingThirdParty
  <1> QED
    BY <1>2, <1>3, <1>4

(* The three inequalities for one address.                                 *)
Owed(a) ==
  /\ leakCount[a] + Cardinality(Uncounted(a)) <= leakRows[a]
  /\ tpLeakCount[a] + Cardinality(UncountedThirdParty(a)) <= tpLeakRows[a]
  /\ tpLeakCount[a] + Cardinality(AwaitingThirdParty(a)) <= leakCount[a]

LEMMA MovesKeepsOwed ==
  ASSUME DBTypeOK, NEW t \in Thread, Moves(t), NEW a \in Address, Owed(a)
  PROVE  Owed(a)'
  <1>1. PICK n \in LeakActivation : n.step \notin {"count", "tpcount"} /\ Becomes(t, n)
    BY DEF Moves, Becomes
  <1>2. /\ Cardinality(Uncounted(a)') <= Cardinality(Uncounted(a))
        /\ Cardinality(Uncounted(a)') \in Nat /\ Cardinality(Uncounted(a)) \in Nat
    BY <1>1, OwedSets, OneThreadMoves
  <1>3. /\ Cardinality(UncountedThirdParty(a)') <= Cardinality(UncountedThirdParty(a))
        /\ Cardinality(UncountedThirdParty(a)') \in Nat
        /\ Cardinality(UncountedThirdParty(a)) \in Nat
    BY <1>1, OwedSets, OneThreadMoves
  <1>4. /\ Cardinality(AwaitingThirdParty(a)') <= Cardinality(AwaitingThirdParty(a))
        /\ Cardinality(AwaitingThirdParty(a)') \in Nat
        /\ Cardinality(AwaitingThirdParty(a)) \in Nat
    BY <1>1, OwedSets, OneThreadMoves
  <1>5. /\ leakCount'[a] = leakCount[a] /\ tpLeakCount'[a] = tpLeakCount[a]
        /\ leakRows'[a] = leakRows[a] /\ tpLeakRows'[a] = tpLeakRows[a]
        /\ leakCount[a] \in Nat /\ tpLeakCount[a] \in Nat
        /\ leakRows[a] \in Nat /\ tpLeakRows[a] \in Nat
    BY DEF Moves, leakTables, DBTypeOK
  <1> QED
    BY <1>2, <1>3, <1>4, <1>5 DEF Owed

(* What follows the counting of an encoding is before an INSERT again.     *)
LEMMA NextEncodingStep ==
  ASSUME NEW l \in LeakActivation
  PROVE  /\ NextEncoding(l).step \notin {"count", "tpcount"}
         /\ NextURL(l).step \notin {"count", "tpcount"}
  <1>1. NextURL(l).step \notin {"count", "tpcount"}
    BY DEF NextURL, Activation, Idle
  <1>2. l.left > 1 => NextEncoding(l).step = "insert"
    <2> SUFFICES ASSUME l.left > 1 PROVE [l EXCEPT !.step = "insert", !.left = @ - 1].step = "insert"
      BY DEF NextEncoding
    <2>1. CASE l \in {Idle, Failed}
      BY <2>1, l.left > 1 DEF Idle, Failed, NextEncoding
    <2>2. CASE l \notin {Idle, Failed}
      BY <2>2 DEF LeakActivation
    <2> QED
      BY <2>1, <2>2
  <1>3. ~(l.left > 1) => NextEncoding(l) = NextURL(l)
    BY DEF NextEncoding
  <1> QED
    BY <1>1, <1>2, <1>3

(* The statements of RecordLeak one by one.  Those that write no table     *)
(* leave the thread before an INSERT.                                      *)
LEMMA ScanOrThrowMoves ==
  ASSUME DBTypeOK, NEW t \in Thread, RecordLeak(t), ScanURL(t) \/ LeakThrows(t)
  PROVE  Moves(t)
  <1>1. leak[t] \in LeakActivation
    BY DEF DBTypeOK
  <1> DEFINE n == leak'[t]
  <1>2. n \in LeakActivation
    BY RecordLeakType DEF DBTypeOK
  <1>3. leak' = [leak EXCEPT ![t] = n]
    BY ScanURL(t) \/ LeakThrows(t) DEF ScanURL, LeakThrows, DBTypeOK
  <1>4. CASE ScanURL(t)
    <2>1. leak[t].step = "url" /\ leak[t] \in Running
      BY <1>1, <1>4 DEF ScanURL, LeakActivation, Running, Idle, Failed
    <2>2. [leak[t] EXCEPT !.step = "insert",
                          !.left = Encodings[Head(leak[t].todo)]].step = "insert"
      BY <2>1 DEF Running
    <2>3. n = NextURL(leak[t]) \/ n.step = "insert"
      BY <1>4, <2>2 DEF ScanURL, DBTypeOK
    <2> QED
      BY <1>1, <1>2, <1>3, <1>4, <2>3, NextEncodingStep DEF Moves, ScanURL, leakTables
  <1>5. CASE LeakThrows(t)
    <2>1. n \in {Failed, NextURL(leak[t])}
      BY <1>5 DEF LeakThrows, DBTypeOK
    <2>2. n.step \notin {"count", "tpcount"}
      BY <1>1, <2>1, NextEncodingStep DEF Failed
    <2> QED
      BY <1>2, <1>3, <1>5, <2>2 DEF Moves, LeakThrows, leakTables
  <1> QED
    BY <1>4, <1>5, ScanURL(t) \/ LeakThrows(t)

(* A running activation keeps everything but its step in the actions that  *)
(* write a table.                                                          *)
LEMMA NextStep ==
  ASSUME NEW l \in LeakActivation, NEW s \in {"count", "tpcount"},
         l.step \in {"insert", "count"}
  PROVE  LET n == [l EXCEPT !.step = s] IN
         n.step = s /\ n.recipient = l.recipient /\ (ThirdParty(n) <=> ThirdParty(l))
  BY DEF LeakActivation, Idle, Failed, ThirdParty

LEMMA InsertLeakKeepsOwed ==
  ASSUME DBTypeOK, NEW t \in Thread, InsertLeak(t), NEW a \in Address, Owed(a)
  PROVE  Owed(a)'
  <1> DEFINE l == leak[t]
             n == [l EXCEPT !.step = "count"]
  <1>1. /\ l \in LeakActivation /\ l.step = "insert" /\ Becomes(t, n)
        /\ l.recipient \in Address
    <2>1. l \in LeakActivation /\ l.step = "insert" /\ Becomes(t, n)
      BY DEF DBTypeOK, InsertLeak, Becomes
    <2> QED
      BY <2>1 DEF LeakActivation, Idle, Failed
  <1>2. n.step = "count" /\ n.recipient = l.recipient /\ (ThirdParty(n) <=> ThirdParty(l))
    BY <1>1, NextStep
  <1> HIDE DEF n
  <1>3. /\ Cardinality(Uncounted(a)) \in Nat
        /\ Cardinality(Uncounted(a)') =
             Cardinality(Uncounted(a)) + (IF l.recipient = a THEN 1 ELSE 0)
    BY <1>1, <1>2, OwedSets, OneThreadMoves
  <1>4. /\ Cardinality(UncountedThirdParty(a)) \in Nat
        /\ Cardinality(UncountedThirdParty(a)') = Cardinality(UncountedThirdParty(a)) +
             (IF l.recipient = a /\ ThirdParty(l) THEN 1 ELSE 0)
    BY <1>1, <1>2, OwedSets, OneThreadMoves
  <1>5. /\ Cardinality(AwaitingThirdParty(a)) \in Nat
        /\ Cardinality(AwaitingThirdParty(a)') = Cardinality(AwaitingThirdParty(a))
    BY <1>1, <1>2, OwedSets, OneThreadMoves
  <1>6. /\ leakCount'[a] = leakCount[a] /\ tpLeakCount'[a] = tpLeakCount[a]
        /\ leakRows'[a] = leakRows[a] + (IF l.recipient = a THEN 1 ELSE 0)
        /\ tpLeakRows'[a] = tpLeakRows[a] +
             (IF l.recipient = a /\ ThirdParty(l) THEN 1 ELSE 0)
        /\ leakCount[a] \in Nat /\ tpLeakCount[a] \in Nat
        /\ leakRows[a] \in Nat /\ tpLeakRows[a] \in Nat
    BY <1>1 DEF InsertLeak, DBTypeOK
  <1> QED
    BY <1>3, <1>4, <1>5, <1>6 DEF Owed

LEMMA CountLeakKeepsOwed ==
  ASSUME DBTypeOK, NEW t \in Thread, CountLeak(t), NEW a \in Address, Owed(a)
  PROVE  Owed(a)'
  <1> DEFINE l == leak[t]
             n == IF ThirdParty(l) THEN [l EXCEPT !.step = "tpcount"]
                  ELSE NextEncoding(l)
  <1>1. /\ l \in LeakActivation /\ l.step = "count" /\ Becomes(t, n)
        /\ l.recipient \in Address
    BY DEF DBTypeOK, CountLeak, Becomes, LeakActivation, Idle, Failed
  <1>2. /\ ThirdParty(l) => /\ n.step = "tpcount" /\ n.recipient = l.recipient
                            /\ ThirdParty(n)
        /\ ~ThirdParty(l) => n.step \notin {"count", "tpcount"}
    BY <1>1, NextStep, NextEncodingStep
  <1> HIDE DEF n
  <1>3. /\ Cardinality(Uncounted(a)') \in Nat
        /\ Cardinality(Uncounted(a)) =
             Cardinality(Uncounted(a)') + (IF l.recipient = a THEN 1 ELSE 0)
    BY <1>1, <1>2, OwedSets, OneThreadMoves
  <1>4. /\ Cardinality(UncountedThirdParty(a)) \in Nat
        /\ Cardinality(UncountedThirdParty(a)') = Cardinality(UncountedThirdParty(a))
    BY <1>1, <1>2, OwedSets, OneThreadMoves
  <1>5. /\ Cardinality(AwaitingThirdParty(a)) \in Nat
        /\ Cardinality(AwaitingThirdParty(a)') = Cardinality(AwaitingThirdParty(a)) +
             (IF l.recipient = a /\ ThirdParty(l) THEN 1 ELSE 0)
    BY <1>1, <1>2, OwedSets, OneThreadMoves
  <1>6. /\ leakCount'[a] = leakCount[a] + (IF l.recipient = a THEN 1 ELSE 0)
        /\ tpLeakCount'[a] = tpLeakCount[a]
        /\ leakRows'[a] = leakRows[a] /\ tpLeakRows'[a] = tpLeakRows[a]
        /\ leakCount[a] \in Nat /\ tpLeakCount[a] \in Nat
        /\ leakRows[a] \in Nat /\ tpLeakRows[a] \in Nat
    BY <1>1 DEF CountLeak, DBTypeOK
  <1> QED
    BY <1>3, <1>4, <1>5, <1>6 DEF Owed

LEMMA CountThirdPartyKeepsOwed ==
  ASSUME DBTypeOK, NEW t \in Thread, CountThirdParty(t), ThirdParty(leak[t]),
         NEW a \in Address, Owed(a)
  PROVE  Owed(a)'
  <1> DEFINE l == leak[t]
             n == NextEncoding(l)
  <1>1. /\ l \in LeakActivation /\ l.step = "tpcount" /\ Becomes(t, n)
        /\ l.recipient \in Address
    BY DEF DBTypeOK, CountThirdParty, Becomes, LeakActivation, Idle, Failed
  <1>2. n.step \notin {"count", "tpcount"}
    BY <1>1, NextEncodingStep
  <1> HIDE DEF n
  <1>3. /\ Cardinality(Uncounted(a)) \in Nat
        /\ Cardinality(Uncounted(a)') = Cardinality(Uncounted(a))
    BY <1>1, <1>2, OwedSets, OneThreadMoves
  <1>4. /\ Cardinality(UncountedThirdParty(a)') \in Nat
        /\ Cardinality(UncountedThirdParty(a)) = Cardinality(UncountedThirdParty(a)') +
             (IF l.recipient = a THEN 1 ELSE 0)
    BY <1>1, <1>2, OwedSets, OneThreadMoves
  <1>5. /\ Cardinality(AwaitingThirdParty(a)') \in Nat
        /\ Cardinality(AwaitingThirdParty(a)) = Cardinality(AwaitingThirdParty(a)') +
             (IF l.recipient = a THEN 1 ELSE 0)
    BY <1>1, <1>2, OwedSets, OneThreadMoves
  <1>6. /\ leakCount'[a] = leakCount[a]
        /\ tpLeakCount'[a] = tpLeakCount[a] + (IF l.recipient = a THEN 1 ELSE 0)
        /\ leakRows'[a] = leakRows[a] /\ tpLeakRows'[a] = tpLeakRows[a]
        /\ leakCount[a] \in Nat /\ tpLeakCount[a] \in Nat
        /\ leakRows[a] \in Nat /\ tpLeakRows[a] \in Nat
    BY <1>1 DEF CountThirdParty, DBTypeOK
  <1> QED
    BY <1>3, <1>4, <1>5, <1>6 DEF Owed

(* One statement of RecordLeak keeps the inequalities, and reaches the     *)
(* UPDATE of tp_leak_count only for a third party's URL.                   *)
LEMMA RecordLeakKeepsOwed ==
  ASSUME DBTypeOK, TpCountIsThirdParty, NEW t \in Thread, RecordLeak(t),
         NEW a \in Address, Owed(a)
  PROVE  Owed(a)'
  <1>1. CASE ScanURL(t) \/ LeakThrows(t)
    BY <1>1, ScanOrThrowMoves, MovesKeepsOwed
  <1>2. CASE InsertLeak(t)
    BY <1>2, InsertLeakKeepsOwed
  <1>3. CASE CountLeak(t)
    BY <1>3, CountLeakKeepsOwed
  <1>4. CASE CountThirdParty(t)
    <2>1. ThirdParty(leak[t])
      BY <1>4 DEF CountThirdParty, TpCountIsThirdParty
    <2> QED
      BY <1>4, <2>1, CountThirdPartyKeepsOwed
  <1> QED
    BY <1>1, <1>2, <1>3, <1>4, RecordLeak(t) DEF RecordLeak

LEMMA MovesKeepsTpCount ==
  ASSUME DBTypeOK, TpCountIsThirdParty, NEW t \in Thread, Moves(t)
  PROVE  TpCountIsThirdParty'
  <1>1. /\ leak'[t].step \notin {"count", "tpcount"}
        /\ \A s \in Thread \ {t} : leak'[s] = leak[s]
    BY DEF Moves, DBTypeOK
  <1> QED
    BY <1>1 DEF TpCountIsThirdParty, ThirdParty

LEMMA RecordLeakKeepsTpCount ==
  ASSUME DBTypeOK, TpCountIsThirdParty, NEW t \in Thread, RecordLeak(t)
  PROVE  TpCountIsThirdParty'
  <1> DEFINE l == leak[t]
  <1>1. l \in LeakActivation
    BY DEF DBTypeOK
  <1>2. CASE ScanURL(t) \/ LeakThrows(t)
    BY <1>2, ScanOrThrowMoves, MovesKeepsTpCount
  <1>3. CASE InsertLeak(t)
    <2>1. leak'[t].step = "count"
      BY <1>1, <1>3, NextStep DEF InsertLeak, DBTypeOK
    <2>2. \A s \in Thread \ {t} : leak'[s] = leak[s]
      BY <1>3 DEF InsertLeak, DBTypeOK
    <2> QED
      BY <2>1, <2>2 DEF TpCountIsThirdParty, ThirdParty
  <1>4. CASE CountLeak(t)
    <2>1. leak'[t] = IF ThirdParty(l) THEN [l EXCEPT !.step = "tpcount"] ELSE NextEncoding(l)
      BY <1>4 DEF CountLeak, DBTypeOK
    <2>2. l.step = "count"
      BY <1>4 DEF CountLeak
    <2>3. leak'[t].step = "tpcount" => ThirdParty(leak'[t])
      <3>1. CASE ThirdParty(l)
        <4> DEFINE n == [l EXCEPT !.step = "tpcount"]
        <4>1. ThirdParty(n)
          BY <1>1, <2>2, <3>1, NextStep
        <4>2. leak'[t] = n
          BY <2>1, <3>1
        <4> HIDE DEF n
        <4> QED
          BY <4>1, <4>2 DEF ThirdParty
      <3>2. CASE ~ThirdParty(l)
        BY <1>1, <2>1, <3>2, NextEncodingStep
      <3> QED
        BY <3>1, <3>2
    <2>4. \A s \in Thread \ {t} : leak'[s] = leak[s]
      BY <1>4 DEF CountLeak, DBTypeOK
    <2> QED
      BY <2>3, <2>4 DEF TpCountIsThirdParty, ThirdParty
  <1>5. CASE CountThirdParty(t)
    <2>1. leak'[t] = NextEncoding(l)
      BY <1>5 DEF CountThirdParty, DBTypeOK
    <2>2. \A s \in Thread \ {t} : leak'[s] = leak[s]
      BY <1>5 DEF CountThirdParty, DBTypeOK
    <2> QED
      BY <1>1, <2>1, <2>2, NextEncodingStep DEF TpCountIsThirdParty, ThirdParty
  <1> QED
    BY <1>2, <1>3, <1>4, <1>5, RecordLeak(t) DEF RecordLeak

(* A crash forgets the activations; what was owed stays owed forever.      *)
LEMMA CrashKeepsOwed ==
  ASSUME DBTypeOK, Crash, NEW a \in Address, Owed(a)
  PROVE  Owed(a)'
  <1>1. /\ Uncounted(a)' = {} /\ UncountedThirdParty(a)' = {}
        /\ AwaitingThirdParty(a)' = {}
    BY DEF Crash, Idle, Uncounted, UncountedThirdParty, AwaitingThirdParty
  <1>2. Cardinality({}) = 0
    BY FS_EmptySet
  <1>3. /\ Cardinality(Uncounted(a)) \in Nat
        /\ Cardinality(UncountedThirdParty(a)) \in Nat
        /\ Cardinality(AwaitingThirdParty(a)) \in Nat
    BY FS_Subset, FS_CardinalityType, MailDBAssumption
       DEF Uncounted, UncountedThirdParty, AwaitingThirdParty
  <1>4. /\ leakCount[a] \in Nat /\ tpLeakCount[a] \in Nat
        /\ leakRows[a] \in Nat /\ tpLeakRows[a] \in Nat
    BY DEF DBTypeOK
  <1>5. /\ leakCount' = leakCount /\ tpLeakCount' = tpLeakCount
        /\ leakRows' = leakRows /\ tpLeakRows' = tpLeakRows
    BY DEF Crash
  <1> QED
    BY <1>1, <1>2, <1>3, <1>4, <1>5 DEF Owed

LEMMA LeakInvInit ==
  ASSUME Init
  PROVE  LeakCountsCovered /\ TpCountIsThirdParty
  <1>1. DBInit
    BY DEF Init
  <1>2. \A t \in Thread : leak[t].step = "idle"
    BY <1>1 DEF DBInit, Idle
  <1>3. \A a \in Address : /\ Uncounted(a) = {} /\ UncountedThirdParty(a) = {}
                          /\ AwaitingThirdParty(a) = {}
    BY <1>2 DEF Uncounted, UncountedThirdParty, AwaitingThirdParty
  <1>4. Cardinality({}) = 0
    BY FS_EmptySet
  <1>5. \A a \in Address : /\ leakCount[a] = 0 /\ tpLeakCount[a] = 0
                          /\ leakRows[a] = 0 /\ tpLeakRows[a] = 0
    BY <1>1 DEF DBInit
  <1> QED
    BY <1>2, <1>3, <1>4, <1>5 DEF LeakCountsCovered, TpCountIsThirdParty

LEMMA LeakInvStep ==
  ASSUME LeakInv, [Next]_vars
  PROVE  LeakCountsCovered' /\ TpCountIsThirdParty'
  <1>1. DBTypeOK /\ TpCountIsThirdParty /\ TypeOK
    BY DEF LeakInv, TypeOK
  <1>2. \A a \in Address : Owed(a)
    BY DEF LeakInv, LeakCountsCovered, Owed
  <1>3. (\A a \in Address : Owed(a)') => LeakCountsCovered'
    BY DEF Owed, LeakCountsCovered
  <1>4. CASE UNCHANGED leakVars
    BY <1>1, <1>2, <1>3, <1>4
       DEF leakVars, Owed, Uncounted, UncountedThirdParty, AwaitingThirdParty,
           ThirdParty, TpCountIsThirdParty
  <1>5. ASSUME NEW t \in Thread, RecordLeak(t)
        PROVE  LeakCountsCovered' /\ TpCountIsThirdParty'
    BY <1>1, <1>2, <1>3, <1>5, RecordLeakKeepsOwed, RecordLeakKeepsTpCount
  <1>6. ASSUME NEW t \in Thread, Moves(t)
        PROVE  LeakCountsCovered' /\ TpCountIsThirdParty'
    BY <1>1, <1>2, <1>3, <1>6, MovesKeepsOwed, MovesKeepsTpCount
  <1>7. CASE Crash
    <2>1. TpCountIsThirdParty'
      BY <1>7 DEF Crash, Idle, TpCountIsThirdParty
    <2> QED
      BY <1>1, <1>2, <1>3, <1>7, <2>1, CrashKeepsOwed
  <1> QED
    BY <1>1, <1>4, <1>5, <1>6, <1>7, LeakEffect

(* users.leak_count and users.tp_leak_count never exceed the rows of       *)
(* leaked_emails they count, for any number of threads, addresses, faults  *)
(* and crashes (MailDB.addLeakedEmailAddress).                             *)
THEOREM LeakCounts == Spec => []LeakCountsCovered
  <1>1. Init => LeakCountsCovered /\ TpCountIsThirdParty
    BY LeakInvInit
  <1>2. TypeOK /\ LeakCountsCovered /\ TpCountIsThirdParty /\ [Next]_vars
          => LeakCountsCovered' /\ TpCountIsThirdParty'
    BY LeakInvStep DEF LeakInv
  <1> QED
    BY <1>1, <1>2, TypeCorrect, PTL DEF Spec

-----------------------------------------------------------------------------
(* The leak table and its counter implement the abstract ledger: a step of *)
(* the server enters one row, counts one that is owed, or changes neither. *)

LEMMA RecordLeakImplements ==
  ASSUME DBTypeOK, LeakCountsCovered, NEW t \in Thread, RecordLeak(t)
  PROVE  LeakLedger!Next \/ UNCHANGED <<leakRows, leakCount>>
  <1> DEFINE l == leak[t]
  <1>1. l \in LeakActivation
    BY DEF DBTypeOK
  <1>2. CASE InsertLeak(t)
    <2>1. l.recipient \in Address
      BY <1>1, <1>2 DEF InsertLeak, LeakActivation, Idle, Failed
    <2>2. LeakLedger!Enter(l.recipient)
      BY <1>2 DEF InsertLeak, LeakLedger!Enter
    <2> QED
      BY <2>1, <2>2 DEF LeakLedger!Next
  <1>3. CASE CountLeak(t)
    <2>1. l.recipient \in Address
      BY <1>1, <1>3 DEF CountLeak, LeakActivation, Idle, Failed
    <2>2. t \in Uncounted(l.recipient)
      BY <1>3 DEF CountLeak, Uncounted
    <2>3. /\ Cardinality(Uncounted(l.recipient)) \in Nat
          /\ Cardinality(Uncounted(l.recipient)) # 0
      <3>1. IsFiniteSet(Uncounted(l.recipient))
        BY FS_Subset, MailDBAssumption DEF Uncounted
      <3> QED
        BY <2>2, <3>1, FS_CardinalityType, FS_EmptySet
    <2>4. /\ leakCount[l.recipient] + Cardinality(Uncounted(l.recipient))
               <= leakRows[l.recipient]
          /\ leakCount[l.recipient] \in Nat /\ leakRows[l.recipient] \in Nat
      BY <2>1 DEF LeakCountsCovered, DBTypeOK
    <2>5. leakCount[l.recipient] < leakRows[l.recipient]
      BY <2>3, <2>4
    <2>6. LeakLedger!Count(l.recipient)
      BY <1>3, <2>5 DEF CountLeak, LeakLedger!Count
    <2> QED
      BY <2>1, <2>6 DEF LeakLedger!Next
  <1>4. CASE ScanURL(t) \/ CountThirdParty(t) \/ LeakThrows(t)
    BY <1>4 DEF ScanURL, CountThirdParty, LeakThrows
  <1> QED
    BY <1>2, <1>3, <1>4, RecordLeak(t) DEF RecordLeak

(* Every behaviour of the server, whatever its size, is one of the ledger. *)
THEOREM LeakLedgerRefined == Spec => LeakLedgerImplemented
  <1>1. Init => LeakLedger!Init
    BY DEF Init, DBInit, LeakLedger!Init
  <1>2. ASSUME TypeOK, LeakCountsCovered, [Next]_vars
        PROVE  [LeakLedger!Next]_<<leakRows, leakCount>>
    <2>1. DBTypeOK
      BY <1>2 DEF TypeOK
    <2>2. CASE UNCHANGED leakVars
      BY <2>2 DEF leakVars
    <2>3. ASSUME NEW t \in Thread, RecordLeak(t) \/ Moves(t)
          PROVE  [LeakLedger!Next]_<<leakRows, leakCount>>
      BY <1>2, <2>1, <2>3, RecordLeakImplements DEF Moves, leakTables
    <2>4. CASE Crash
      BY <2>4 DEF Crash
    <2> QED
      BY <1>2, <2>2, <2>3, <2>4, LeakEffect
  <1>3. TypeOK /\ LeakCountsCovered /\ [Next]_vars
          => [LeakLedger!Next]_<<leakRows, leakCount>>
    BY <1>2
  <1> QED
    BY <1>1, <1>3, TypeCorrect, LeakCounts, PTL
       DEF Spec, LeakLedgerImplemented, LeakLedger!Spec
=============================================================================
