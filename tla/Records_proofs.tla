--------------------------- MODULE Records_proofs ---------------------------
(***************************************************************************)
(* What holds of the tables that the web server and the image requests     *)
(* write, for any numbers of threads, clients, faults and crashes: no row  *)
(* of users is reset, no address is handed out twice, no group of links    *)
(* disappears without results, no accepted result is missing a leak, every *)
(* leak of an image follows its redirects, and while nothing fails the     *)
(* counters lack exactly the rows that threads have still to count; what   *)
(* sessions that race can do to first mails and to the files is bounded.   *)
(***************************************************************************)
EXTENDS MailDelivery_proofs

(* The mail side registers nobody, and takes no group away.                *)
LEMMA DeliveryKeepsUsers ==
  ASSUME DeliveryNext
  PROVE  UNCHANGED userVars
  <1>1. ASSUME NEW t, RecordLeak(t) PROVE UNCHANGED userVars
    BY <1>1 DEF RecordLeak
  <1>2. ASSUME NEW t \in SmtpThread, SmtpStep(t) PROVE UNCHANGED userVars
    <2>1. CASE IsDirectory(t) \/ ChooseImages(t) \/ ScheduleImage(t)
      BY <2>1 DEF IsDirectory, ChooseImages, ScheduleImage, KeepDB, dbVars
    <2>2. CASE \/ Accept(t) \/ HandleMessage(t) \/ Mkdirs(t) \/ WriteFile(t)
               \/ InsertMailEntry(t) \/ UpdateReceived(t) \/ Analyze(t)
               \/ RecordConfirmation(t) \/ RecordLinksToVisit(t)
      BY <2>2 DEF Accept, HandleMessage, Mkdirs, WriteFile, InsertMailEntry,
                  UpdateReceived, Analyze, RecordConfirmation, RecordLinksToVisit
    <2> QED
      BY <1>1, <1>2, <2>1, <2>2 DEF SmtpStep, RecordMailLeak
  <1>3. ASSUME NEW p \in PoolThread, PoolStep(p) PROVE UNCHANGED userVars
    <2>1. CASE TakeTask(p) \/ Go(p) \/ EnterAddRedirects(p) \/ TaskDone(p)
      BY <2>1 DEF TakeTask, Go, EnterAddRedirects, TaskDone, KeepDB, dbVars
    <2>2. CASE InsertRedirect(p) \/ RedirectThrows(p)
      BY <2>2 DEF InsertRedirect, RedirectThrows
    <2> QED
      BY <1>1, <1>3, <2>1, <2>2 DEF PoolStep, RecordImageLeak
  <1> QED
    BY <1>2, <1>3 DEF DeliveryNext, Tick, Connect, KeepDB, dbVars

(* What the web server does to users and to the addresses it answered.     *)
LEMMA WebUsersEffect ==
  ASSUME WebNext
  PROVE  \/ UNCHANGED <<userVars, issued>>
         \/ UNCHANGED issued /\ \E a \in Address : \E d : AddMailUser(a, d)
         \/ \E a \in Address \ users : \E d :
              AddMailUser(a, d) /\ issued' = [issued EXCEPT ![a] = @ + 1]
  <1> SUFFICES ASSUME NEW w \in WebThread, WebStep(w) \/ Client(w)
               PROVE  \/ UNCHANGED <<userVars, issued>>
                      \/ UNCHANGED issued /\ \E a \in Address : \E d : AddMailUser(a, d)
                      \/ \E a \in Address \ users : \E d :
                           AddMailUser(a, d) /\ issued' = [issued EXCEPT ![a] = @ + 1]
    BY DEF WebNext
  <1>1. CASE GenerateAddress(w)
    BY <1>1 DEF GenerateAddress
  <1>2. CASE LookUpGroup(w) \/ LookUpRecipient(w) \/ ResultsFailed(w) \/ RemoveGroup(w)
    BY <1>2 DEF LookUpGroup, LookUpRecipient, ResultsFailed, RemoveGroup
  <1>3. CASE RecordLinkLeak(w)
    BY <1>3 DEF RecordLinkLeak, RecordLeak, webVars
  <1>4. CASE Client(w)
    BY <1>4 DEF Client, PostRegister, GetVisit, PostResults, Begin, dbVars
  <1> QED
    BY <1>1, <1>2, <1>3, <1>4 DEF WebStep

LEMMA UsersEffect ==
  ASSUME [Next]_vars
  PROVE  \/ UNCHANGED <<userVars, issued>>
         \/ UNCHANGED issued /\ \E a \in Address : \E d : AddMailUser(a, d)
         \/ \E a \in Address \ users : \E d :
              AddMailUser(a, d) /\ issued' = [issued EXCEPT ![a] = @ + 1]
  <1>1. CASE DeliveryNext /\ UNCHANGED webVars
    BY <1>1, DeliveryKeepsUsers DEF webVars
  <1>2. CASE Crash \/ UNCHANGED vars
    BY <1>2 DEF Crash, vars, dbVars, webVars
  <1> QED
    BY <1>1, <1>2, WebUsersEffect DEF Next

(* No step of the server, /register included, takes a row of users away,   *)
(* lowers a count in it or changes its domain (INSERT IGNORE in            *)
(* MailDB.addMailUser).                                                    *)
THEOREM UsersKept == Spec => UsersNeverReset
  <1>1. ASSUME TypeOK, [Next]_vars
        PROVE  /\ users \subseteq users'
               /\ \A a \in users : /\ emailsReceived'[a] >= emailsReceived[a]
                                   /\ leakCount'[a] >= leakCount[a]
                                   /\ registerDomain'[a] = registerDomain[a]
    <2>1. /\ users \subseteq users' /\ users \subseteq Address
          /\ registerDomain \in [Address -> Domain]
          /\ emailsReceived \in [Address -> Nat] /\ leakCount \in [Address -> Nat]
      BY <1>1, UsersGrow DEF TypeOK, DBTypeOK
    <2>2. \A a \in users : registerDomain'[a] = registerDomain[a]
      BY <1>1, <2>1, UsersEffect DEF AddMailUser, userVars
    <2>3. \A a \in Address : emailsReceived'[a] >= emailsReceived[a]
      <3>1. ASSUME NEW t \in SmtpThread, InsertMailEntry(t) \/ UpdateReceived(t)
            PROVE  \A a \in Address : emailsReceived'[a] >= emailsReceived[a]
        <4>1. UNCHANGED emailsReceived \/ CountEmail(smtp[t].mail.to)
          BY <1>1, <3>1, InsertMailEntryEffect, UpdateReceivedEffect
        <4> QED
          BY <2>1, <4>1 DEF CountEmail
      <3>2. UNCHANGED emailsReceived => \A a \in Address : emailsReceived'[a] >= emailsReceived[a]
        BY <2>1
      <3> QED
        BY <1>1, <3>1, <3>2, RowsAndCountKept
    <2>4. \A a \in Address : leakCount'[a] >= leakCount[a]
      <3>1. UNCHANGED leakCount => \A a \in Address : leakCount'[a] >= leakCount[a]
        BY <2>1
      <3>2. ASSUME NEW t \in Thread, RecordLeak(t)
            PROVE  \A a \in Address : leakCount'[a] >= leakCount[a]
        <4>1. UNCHANGED leakCount \/ CountLeak(t)
          BY <3>2 DEF RecordLeak, ScanURL, InsertLeak, CountThirdParty, LeakThrows
        <4>2. CountLeak(t) => \A a \in Address : leakCount'[a] >= leakCount[a]
          BY <2>1 DEF CountLeak
        <4> QED
          BY <3>1, <4>1, <4>2
      <3>3. UNCHANGED leakCount \/ \E t \in Thread : RecordLeak(t)
        BY <1>1, LeakEffect DEF leakVars, Moves, leakTables, Crash
      <3> QED
        BY <3>1, <3>2, <3>3
    <2> QED
      BY <2>1, <2>2, <2>3, <2>4
  <1>2. TypeOK /\ [Next]_vars =>
          [/\ users \subseteq users'
           /\ \A a \in users : /\ emailsReceived'[a] >= emailsReceived[a]
                               /\ leakCount'[a] >= leakCount[a]
                               /\ registerDomain'[a] = registerDomain[a]]_vars
    BY <1>1
  <1> QED
    BY <1>2, TypeCorrect, PTL DEF Spec, UsersNeverReset

-----------------------------------------------------------------------------
(* An address that was answered is registered, and only an address that is *)
(* not registered is answered.                                             *)

IssuedRegistered == \A a \in Address : issued[a] > 0 => a \in users

(* Two registrations never get the same address (WebServer.register),      *)
(* whatever the generator draws and however the handlers interleave.       *)
THEOREM AddressesNeverReused == Spec => []AddressesUnique
  <1>1. Init => AddressesUnique /\ IssuedRegistered
    BY DEF Init, WebInit, AddressesUnique, IssuedRegistered
  <1>2. TypeOK /\ AddressesUnique /\ IssuedRegistered /\ [Next]_vars
          => AddressesUnique' /\ IssuedRegistered'
    <2> SUFFICES ASSUME TypeOK, AddressesUnique, IssuedRegistered, [Next]_vars
                 PROVE  AddressesUnique' /\ IssuedRegistered'
      OBVIOUS
    <2>1. users \subseteq users' /\ issued \in [Address -> Nat]
      BY UsersGrow DEF TypeOK, WebTypeOK
    <2>2. CASE UNCHANGED issued
      BY <2>1, <2>2 DEF AddressesUnique, IssuedRegistered
    <2>3. ASSUME NEW a \in Address \ users, NEW d, AddMailUser(a, d),
                 issued' = [issued EXCEPT ![a] = @ + 1]
          PROVE  AddressesUnique' /\ IssuedRegistered'
      <3>1. issued[a] = 0 /\ a \in users'
        BY <2>1, <2>3 DEF IssuedRegistered, AddMailUser
      <3> QED
        BY <2>1, <2>3, <3>1 DEF AddressesUnique, IssuedRegistered
    <2> QED
      BY <2>2, <2>3, UsersEffect
  <1> QED
    BY <1>1, <1>2, TypeCorrect, PTL DEF Spec

-----------------------------------------------------------------------------
(* Groups of links.                                                        *)

(* The groups and the accepted results change together, if at all.         *)
GroupsAdded == \/ UNCHANGED groupVars
               \/ \E us, d, a : AddLinkGroup(us, d, a)

LEMMA DeliveryGroups ==
  ASSUME DeliveryNext
  PROVE  GroupsAdded
  <1>1. ASSUME NEW t, RecordLeak(t) PROVE UNCHANGED groupVars
    BY <1>1 DEF RecordLeak
  <1>2. ASSUME NEW t \in SmtpThread, SmtpStep(t) PROVE GroupsAdded
    <2>1. CASE IsDirectory(t) \/ ChooseImages(t) \/ ScheduleImage(t)
      BY <2>1 DEF IsDirectory, ChooseImages, ScheduleImage, KeepDB, dbVars, GroupsAdded
    <2>2. CASE \/ Accept(t) \/ HandleMessage(t) \/ Mkdirs(t) \/ WriteFile(t)
               \/ InsertMailEntry(t) \/ UpdateReceived(t) \/ Analyze(t)
      BY <2>2 DEF Accept, HandleMessage, Mkdirs, WriteFile, InsertMailEntry,
                  UpdateReceived, Analyze, GroupsAdded
    <2>3. CASE RecordConfirmation(t) \/ RecordLinksToVisit(t)
      BY <2>3 DEF RecordConfirmation, RecordLinksToVisit, GroupsAdded
    <2> QED
      BY <1>1, <1>2, <2>1, <2>2, <2>3 DEF SmtpStep, RecordMailLeak, GroupsAdded
  <1>3. ASSUME NEW p \in PoolThread, PoolStep(p) PROVE GroupsAdded
    <2>1. CASE TakeTask(p) \/ Go(p) \/ EnterAddRedirects(p) \/ TaskDone(p)
      BY <2>1 DEF TakeTask, Go, EnterAddRedirects, TaskDone, KeepDB, dbVars, GroupsAdded
    <2>2. CASE InsertRedirect(p) \/ RedirectThrows(p)
      BY <2>2 DEF InsertRedirect, RedirectThrows, GroupsAdded
    <2> QED
      BY <1>1, <1>3, <2>1, <2>2 DEF PoolStep, RecordImageLeak, GroupsAdded
  <1> QED
    BY <1>2, <1>3 DEF DeliveryNext, Tick, Connect, KeepDB, dbVars, GroupsAdded

LEMMA GroupsEffect ==
  ASSUME [Next]_vars
  PROVE  \/ GroupsAdded /\ UNCHANGED accepted
         \/ \E w \in WebThread : RemoveGroup(w)
  <1>1. CASE DeliveryNext /\ UNCHANGED webVars
    BY <1>1, DeliveryGroups DEF webVars
  <1>2. ASSUME NEW w \in WebThread, WebStep(w) \/ Client(w), ~RemoveGroup(w)
        PROVE  UNCHANGED <<groupVars, accepted>>
    <2>1. CASE GenerateAddress(w) \/ LookUpGroup(w) \/ LookUpRecipient(w) \/ ResultsFailed(w)
      BY <2>1 DEF GenerateAddress, LookUpGroup, LookUpRecipient, ResultsFailed
    <2>2. CASE RecordLinkLeak(w)
      BY <2>2 DEF RecordLinkLeak, RecordLeak, webVars
    <2>3. CASE Client(w)
      BY <2>3 DEF Client, PostRegister, GetVisit, PostResults, Begin, dbVars
    <2> QED
      BY <1>2, <2>1, <2>2, <2>3 DEF WebStep
  <1>3. CASE Crash \/ UNCHANGED vars
    BY <1>3 DEF Crash, vars, dbVars, webVars, GroupsAdded
  <1> QED
    BY <1>1, <1>2, <1>3 DEF Next, WebNext, GroupsAdded

(* A group of links disappears only with results that were accepted for    *)
(* it; a request that failed leaves it to be visited again                 *)
(* (WebServer.results, MailDB.removeLinkGroup).                            *)
THEOREM GroupsAccounted == Spec => []GroupsLeaveWithResults
  <1>1. Init => GroupsLeaveWithResults
    BY DEF Init, DBInit, GroupsLeaveWithResults
  <1>2. TypeOK /\ GroupsLeaveWithResults /\ [Next]_vars => GroupsLeaveWithResults'
    <2> SUFFICES ASSUME TypeOK, GroupsLeaveWithResults, [Next]_vars
                 PROVE  GroupsLeaveWithResults'
      OBVIOUS
    <2>1. nextGroup \in Nat
      BY DEF TypeOK, DBTypeOK
    <2>2. CASE GroupsAdded /\ UNCHANGED accepted
      <3>1. CASE UNCHANGED groupVars
        BY <2>2, <3>1 DEF groupVars, GroupsLeaveWithResults
      <3>2. ASSUME NEW us, NEW d, NEW a, AddLinkGroup(us, d, a)
            PROVE  GroupsLeaveWithResults'
        <4> DEFINE new == [id |-> nextGroup, recipient |-> a, domain |-> d, urls |-> us]
        <4>1. /\ linkGroups' = linkGroups \cup {new} /\ new.id = nextGroup
              /\ nextGroup' = nextGroup + 1
          BY <3>2 DEF AddLinkGroup
        <4> HIDE DEF new
        <4>2. \A id \in 1 .. nextGroup' - 1 : id = nextGroup \/ id \in 1 .. nextGroup - 1
          BY <2>1, <4>1
        <4> QED
          BY <2>2, <4>1, <4>2 DEF GroupsLeaveWithResults
      <3> QED
        BY <2>2, <3>1, <3>2 DEF GroupsAdded
    <2>3. ASSUME NEW w \in WebThread, RemoveGroup(w) PROVE GroupsLeaveWithResults'
      <3> DEFINE new == [group |-> web[w].group, report |-> web[w].report]
      <3>1. /\ accepted' = accepted \cup {new} /\ nextGroup' = nextGroup
            /\ \/ linkGroups' = linkGroups
               \/ linkGroups' = {g \in linkGroups : g.id # web[w].group.id}
        BY <2>3 DEF RemoveGroup, RemoveLinkGroup
      <3>2. new \in accepted' /\ new.group = web[w].group
        BY <3>1
      <3> HIDE DEF new
      <3>3. \A g \in linkGroups : g \in linkGroups' \/ g.id = new.group.id
        BY <3>1, <3>2
      <3> QED
        BY <3>1, <3>2, <3>3 DEF GroupsLeaveWithResults
    <2> QED
      BY <2>2, <2>3, GroupsEffect
  <1> QED
    BY <1>1, <1>2, TypeCorrect, PTL DEF Spec

-----------------------------------------------------------------------------
(* Which step can change the activation of a thread.                       *)

LEMMA ActivationEffect ==
  ASSUME TypeOK, [Next]_vars, NEW s \in Thread
  PROVE  \/ leak'[s] = leak[s]
         \/ RecordLeak(s)
         \/ s \in SmtpThread /\ smtp[s].pc \in {"analyze", "confirm"} /\ AnalyzeLinks(s)
         \/ s \in PoolThread /\ InsertRedirect(s)
         \/ s \in WebThread /\ (LookUpRecipient(s) \/ ResultsFailed(s))
         \/ Crash
  <1>1. leak \in [Thread -> LeakActivation]
    BY DEF TypeOK, DBTypeOK
  <1>2. SmtpThread \cup PoolThread \cup WebThread \subseteq Thread
    BY MailDeliveryAssumption, WebApiAssumption
  <1>3. ASSUME NEW t \in Thread, s # t,
               \/ RecordLeak(t)
               \/ \E a, d, src, skip, us : FindLeakedEmailAddress(t, a, d, src, skip, us)
               \/ UNCHANGED leakVars
        PROVE  leak'[s] = leak[s]
    BY <1>1, <1>3 DEF RecordLeak, ScanURL, InsertLeak, CountLeak, CountThirdParty,
                      LeakThrows, FindLeakedEmailAddress, leakVars
  <1>4. ASSUME NEW t \in SmtpThread, SmtpStep(t)
        PROVE  \/ leak'[s] = leak[s] \/ RecordLeak(s)
               \/ /\ s \in SmtpThread /\ smtp[s].pc \in {"analyze", "confirm"}
                  /\ AnalyzeLinks(s)
    <2>1. CASE IsDirectory(t) \/ ChooseImages(t) \/ ScheduleImage(t)
      BY <2>1 DEF IsDirectory, ChooseImages, ScheduleImage, KeepDB, dbVars, leakVars
    <2>2. CASE \/ Accept(t) \/ HandleMessage(t) \/ Mkdirs(t) \/ WriteFile(t)
               \/ InsertMailEntry(t) \/ UpdateReceived(t) \/ RecordLinksToVisit(t)
      BY <2>2 DEF Accept, HandleMessage, Mkdirs, WriteFile, InsertMailEntry,
                  UpdateReceived, RecordLinksToVisit, leakVars
    <2>3. CASE RecordMailLeak(t)
      BY <1>2, <1>3, <2>3 DEF RecordMailLeak
    <2>4. CASE Analyze(t) \/ RecordConfirmation(t)
      <3>1. /\ smtp[t].pc \in {"analyze", "confirm"}
            /\ UNCHANGED leakVars \/ AnalyzeLinks(t)
        BY <2>4 DEF Analyze, RecordConfirmation
      <3>2. AnalyzeLinks(t) =>
              \/ UNCHANGED leakVars
              \/ \E a, d, src, skip, us : FindLeakedEmailAddress(t, a, d, src, skip, us)
        BY DEF AnalyzeLinks
      <3>3. UNCHANGED leakVars => leak'[s] = leak[s]
        BY DEF leakVars
      <3> QED
        BY <1>2, <1>3, <3>1, <3>2, <3>3
    <2> QED
      BY <1>4, <2>1, <2>2, <2>3, <2>4 DEF SmtpStep
  <1>5. ASSUME NEW p \in PoolThread, PoolStep(p)
        PROVE  \/ leak'[s] = leak[s] \/ RecordLeak(s)
               \/ s \in PoolThread /\ InsertRedirect(s)
    <2>1. CASE TakeTask(p) \/ Go(p) \/ EnterAddRedirects(p) \/ TaskDone(p) \/ RedirectThrows(p)
      BY <2>1 DEF TakeTask, Go, EnterAddRedirects, TaskDone, RedirectThrows, KeepDB,
                  dbVars, leakVars
    <2>2. CASE InsertRedirect(p)
      <3>1. \/ UNCHANGED leakVars
            \/ \E a, d, src, skip, us : FindLeakedEmailAddress(p, a, d, src, skip, us)
        BY <2>2 DEF InsertRedirect
      <3> QED
        BY <1>2, <1>3, <2>2, <3>1
    <2>3. CASE RecordImageLeak(p)
      BY <1>2, <1>3, <2>3 DEF RecordImageLeak
    <2> QED
      BY <1>5, <2>1, <2>2, <2>3 DEF PoolStep
  <1>6. ASSUME NEW w \in WebThread, WebStep(w) \/ Client(w)
        PROVE  \/ leak'[s] = leak[s] \/ RecordLeak(s)
               \/ s \in WebThread /\ (LookUpRecipient(s) \/ ResultsFailed(s))
    <2>1. CASE GenerateAddress(w) \/ LookUpGroup(w) \/ RemoveGroup(w)
      BY <2>1 DEF GenerateAddress, LookUpGroup, RemoveGroup, leakVars
    <2>2. CASE Client(w)
      BY <2>2 DEF Client, PostRegister, GetVisit, PostResults, Begin, dbVars, leakVars
    <2>3. CASE RecordLinkLeak(w)
      BY <1>2, <1>3, <2>3 DEF RecordLinkLeak
    <2>4. CASE LookUpRecipient(w)
      <3>1. \/ UNCHANGED leakVars
            \/ \E a, d, src, skip, us : FindLeakedEmailAddress(w, a, d, src, skip, us)
        BY <2>4 DEF LookUpRecipient
      <3> QED
        BY <1>2, <1>3, <2>4, <3>1
    <2>5. CASE ResultsFailed(w)
      BY <1>1, <2>5 DEF ResultsFailed
    <2> QED
      BY <1>6, <2>1, <2>2, <2>3, <2>4, <2>5 DEF WebStep
  <1>7. Tick \/ UNCHANGED vars \/ (\E t \in SmtpThread, m \in Mail : Connect(t, m))
          => leak'[s] = leak[s]
    BY DEF Tick, Connect, KeepDB, vars, dbVars, leakVars
  <1> QED
    BY <1>4, <1>5, <1>6, <1>7 DEF Next, DeliveryNext, WebNext

(* No row of leaked_emails or redirects is taken away.                     *)
LEMMA LeakedGrow ==
  ASSUME TypeOK, [Next]_vars
  PROVE  leakedEmails \subseteq leakedEmails'
  <1>1. ASSUME NEW t \in Thread, RecordLeak(t) PROVE leakedEmails \subseteq leakedEmails'
    BY <1>1 DEF RecordLeak, ScanURL, InsertLeak, CountLeak, CountThirdParty, LeakThrows
  <1> QED
    BY <1>1, LeakEffect DEF leakVars, Moves, leakTables, Crash

-----------------------------------------------------------------------------
(* Accepted results.  A handler that records the leaks of a report has     *)
(* recorded those of every request before the one it is at, and only an    *)
(* activation that came to the end without an exception is accepted.       *)

LeakRow(a, u) == [recipient |-> a, url |-> u, source |-> "link"]

Recorded(g, u) ==
  u \notin BaseUrls(g) /\ Encodings[u] > 0 => LeakRow(g.recipient, u) \in leakedEmails

(* The activation l has come to the k-th request of the report r of g.     *)
At(l, g, r, k) ==
  /\ k \in 1 .. Len(r)
  /\ Len(l.todo) = Len(r) - k + 1
  /\ \A j \in 1 .. Len(l.todo) : l.todo[j] = r[k + j - 1]
  /\ \A i \in 1 .. k - 1 : Recorded(g, r[i])

Searching(l, g, r) ==
  /\ l.step \in {"url", "insert", "count", "tpcount"}
  /\ l.recipient = g.recipient /\ l.source = "link" /\ l.skip = BaseUrls(g)
  /\ \E k \in 1 .. Len(r) : At(l, g, r, k)
  /\ l.step \in {"count", "tpcount"} => LeakRow(g.recipient, Head(l.todo)) \in leakedEmails

Searched(l, g, r) ==
  \/ l = Failed
  \/ l = Idle /\ \A i \in DOMAIN r : Recorded(g, r[i])
  \/ Searching(l, g, r)

ReportsSearched ==
  \A w \in WebThread :
    web[w].pc = "leaks" => Searched(leak[w], web[w].group, web[w].report)

LEMMA SearchedKept ==
  ASSUME NEW l, NEW g, NEW r, Searched(l, g, r), leakedEmails \subseteq leakedEmails'
  PROVE  Searched(l, g, r)'
  BY DEF Searched, Searching, At, Recorded

(* The next request of a report, once the current one is recorded.         *)
LEMMA NextURLSearched ==
  ASSUME NEW l \in Running, l.todo # <<>>, NEW g, NEW r \in Seq(URL), Searching(l, g, r),
         Recorded(g, Head(l.todo))
  PROVE  Searched(NextURL(l), g, r)
  <1>1. /\ l.todo \in Seq(URL) /\ Len(l.todo) \in Nat /\ Len(l.todo) > 0
        /\ Len(r) \in Nat /\ DOMAIN r = 1 .. Len(r)
    BY DEF Running
  <1>2. PICK k \in 1 .. Len(r) : At(l, g, r, k)
    BY DEF Searching
  <1>3. \A i \in 1 .. k : Recorded(g, r[i])
    <2>1. Head(l.todo) = r[k]
      BY <1>1, <1>2 DEF At
    <2>2. Recorded(g, r[k])
      BY <2>1
    <2>3. \A i \in 1 .. k : i = k \/ i \in 1 .. k - 1
      BY <1>1, <1>2
    <2>4. \A i \in 1 .. k - 1 : Recorded(g, r[i])
      BY <1>2 DEF At
    <2> QED
      BY <2>2, <2>3, <2>4
  <1>4. /\ Tail(l.todo) \in Seq(URL) /\ Len(Tail(l.todo)) = Len(l.todo) - 1
        /\ \A j \in 1 .. Len(Tail(l.todo)) : Tail(l.todo)[j] = l.todo[j + 1]
    BY <1>1
  <1>5. CASE Tail(l.todo) = <<>>
    <2>1. k = Len(r)
      BY <1>1, <1>2, <1>4, <1>5 DEF At
    <2>2. NextURL(l) = Idle
      BY <1>5 DEF NextURL, Activation
    <2> QED
      BY <1>1, <1>3, <2>1, <2>2 DEF Searched
  <1>6. CASE Tail(l.todo) # <<>>
    <2> DEFINE n == NextURL(l)
    <2>1. /\ n.step = "url" /\ n.recipient = l.recipient /\ n.source = l.source
          /\ n.skip = l.skip /\ n.todo = Tail(l.todo)
      BY <1>6 DEF NextURL, Activation
    <2> HIDE DEF n
    <2>2. Len(n.todo) = Len(r) - k /\ Len(n.todo) > 0
      BY <1>1, <1>2, <1>4, <1>6, <2>1 DEF At
    <2>3. k + 1 \in 1 .. Len(r)
      BY <1>1, <1>2, <2>2
    <2>4. \A j \in 1 .. Len(n.todo) : n.todo[j] = r[(k + 1) + j - 1]
      <3> SUFFICES ASSUME NEW j \in 1 .. Len(n.todo) PROVE n.todo[j] = r[(k + 1) + j - 1]
        OBVIOUS
      <3>1. n.todo[j] = l.todo[j + 1]
        BY <1>4, <2>1
      <3>2. j + 1 \in 1 .. Len(l.todo)
        BY <1>1, <1>4, <2>1
      <3>3. l.todo[j + 1] = r[k + (j + 1) - 1]
        BY <1>2, <3>2 DEF At
      <3>4. k + (j + 1) - 1 = (k + 1) + j - 1
        BY <1>1
      <3> QED
        BY <3>1, <3>3, <3>4
    <2>5. At(n, g, r, k + 1)
      <3>1. Len(n.todo) = Len(r) - (k + 1) + 1
        <4>1. k \in Nat /\ Len(r) \in Nat
          BY <1>1
        <4>2. Len(r) - (k + 1) + 1 = Len(r) - k
          BY <4>1
        <4> QED
          BY <2>2, <4>2
      <3>2. \A i \in 1 .. (k + 1) - 1 : Recorded(g, r[i])
        BY <1>3
      <3> QED
        BY <2>3, <2>4, <3>1, <3>2 DEF At
    <2>6. Searching(n, g, r)
      BY <2>1, <2>3, <2>5 DEF Searching
    <2> QED
      BY <2>6 DEF Searched, n
  <1> QED
    BY <1>5, <1>6

(* A running activation at another statement is the same search.           *)
LEMMA SameSearch ==
  ASSUME NEW l \in Running, NEW s, NEW n
  PROVE  /\ LET m == [l EXCEPT !.step = s] IN
            /\ m.step = s /\ m.recipient = l.recipient /\ m.source = l.source
            /\ m.skip = l.skip /\ m.todo = l.todo
         /\ LET m == [l EXCEPT !.step = s, !.left = n] IN
            /\ m.step = s /\ m.recipient = l.recipient /\ m.source = l.source
            /\ m.skip = l.skip /\ m.todo = l.todo
  BY DEF Running

LEMMA SearchingAgain ==
  ASSUME NEW l, NEW m, NEW g, NEW r, Searching(l, g, r), m.step \in {"url", "insert"},
         m.recipient = l.recipient, m.source = l.source, m.skip = l.skip, m.todo = l.todo
  PROVE  Searched(m, g, r)
  BY DEF Searching, Searched, At

LEMMA SearchingAtCount ==
  ASSUME NEW l, NEW m, NEW g, NEW r, Searching(l, g, r), m.step \in {"count", "tpcount"},
         m.recipient = l.recipient, m.source = l.source, m.skip = l.skip, m.todo = l.todo,
         leakedEmails \subseteq leakedEmails',
         LeakRow(g.recipient, Head(l.todo)) \in leakedEmails'
  PROVE  Searched(m, g, r)'
  BY DEF Searching, Searched, At, Recorded

(* Once an encoding is counted: the same request again, or the next one.   *)
LEMMA NextEncodingSearched ==
  ASSUME NEW l \in Running, l.todo # <<>>, NEW g, NEW r \in Seq(URL), Searching(l, g, r),
         LeakRow(g.recipient, Head(l.todo)) \in leakedEmails
  PROVE  Searched(NextEncoding(l), g, r)
  <1>1. CASE l.left > 1
    <2> DEFINE m == [l EXCEPT !.step = "insert", !.left = l.left - 1]
    <2>1. /\ m.step = "insert" /\ m.recipient = l.recipient /\ m.source = l.source
          /\ m.skip = l.skip /\ m.todo = l.todo
      BY SameSearch
    <2>2. NextEncoding(l) = m
      BY <1>1 DEF NextEncoding
    <2> HIDE DEF m
    <2> QED
      BY <2>1, <2>2, SearchingAgain
  <1>2. CASE ~(l.left > 1)
    <2>1. NextEncoding(l) = NextURL(l) /\ Recorded(g, Head(l.todo))
      BY <1>2 DEF NextEncoding, Recorded
    <2> QED
      BY <2>1, NextURLSearched
  <1> QED
    BY <1>1, <1>2

LEMMA RecordLeakSearches ==
  ASSUME DBTypeOK, NEW w \in Thread, RecordLeak(w), NEW g, NEW r \in Seq(URL),
         Searching(leak[w], g, r), leakedEmails \subseteq leakedEmails'
  PROVE  Searched(leak[w], g, r)'
  <1> DEFINE l == leak[w]
             u == Head(l.todo)
  <1>1. /\ l \in Running /\ l.todo # <<>> /\ l.recipient = g.recipient
        /\ l.source = "link" /\ l.skip = BaseUrls(g)
    BY DEF DBTypeOK, LeakActivation, Running, Searching, Idle, Failed
  <1>2. \A n : leak' = [leak EXCEPT ![w] = n] => leak'[w] = n
    BY DEF DBTypeOK
  <1>3. ASSUME NEW n, leak' = [leak EXCEPT ![w] = n], Searched(n, g, r) \/ Searched(n, g, r)'
        PROVE  Searched(leak[w], g, r)'
    <2>1. Searched(n, g, r)'
      BY <1>3, SearchedKept
    <2>2. leak'[w] = n
      BY <1>2, <1>3
    <2> QED
      BY <2>1, <2>2 DEF Searched, Searching, At
  <1>4. CASE ScanURL(w)
    <2>1. CASE u \in l.skip \/ Encodings[u] = 0
      <3>1. leak' = [leak EXCEPT ![w] = NextURL(l)]
        BY <1>4, <2>1 DEF ScanURL
      <3>2. u \in URL /\ Encodings[u] \in Nat
        BY <1>1, MailDBAssumption DEF Running
      <3>3. Recorded(g, u)
        BY <1>1, <2>1, <3>2 DEF Recorded
      <3>4. Searched(NextURL(l), g, r)
        BY <1>1, <3>3, NextURLSearched
      <3> QED
        BY <1>3, <3>1, <3>4
    <2>2. CASE ~(u \in l.skip \/ Encodings[u] = 0)
      <3>0. PICK m : m = [l EXCEPT !.step = "insert", !.left = Encodings[u]]
        OBVIOUS
      <3>1. leak' = [leak EXCEPT ![w] = m]
        BY <1>4, <2>2, <3>0 DEF ScanURL
      <3>2. /\ m.step = "insert" /\ m.recipient = l.recipient /\ m.source = l.source
            /\ m.skip = l.skip /\ m.todo = l.todo
        BY <1>1, <3>0, SameSearch
      <3>3. Searched(m, g, r)
        BY <3>2, SearchingAgain
      <3> QED
        BY <1>3, <3>1, <3>3
    <2> QED
      BY <2>1, <2>2
  <1>5. CASE InsertLeak(w)
    <2>0. PICK m : m = [l EXCEPT !.step = "count"]
      OBVIOUS
    <2>1. /\ leak' = [leak EXCEPT ![w] = m]
          /\ LeakRow(g.recipient, u) \in leakedEmails'
      BY <1>1, <1>5, <2>0 DEF InsertLeak, LeakRow
    <2>2. /\ m.step = "count" /\ m.recipient = l.recipient /\ m.source = l.source
          /\ m.skip = l.skip /\ m.todo = l.todo
      BY <1>1, <2>0, SameSearch
    <2>3. Searched(m, g, r)'
      BY <2>1, <2>2, SearchingAtCount
    <2> QED
      BY <1>3, <2>1, <2>3
  <1>6. CASE CountLeak(w)
    <2>1. LeakRow(g.recipient, u) \in leakedEmails
      BY <1>6 DEF CountLeak, Searching
    <2>2. CASE ThirdParty(l)
      <3>0. PICK m : m = [l EXCEPT !.step = "tpcount"]
        OBVIOUS
      <3>1. leak' = [leak EXCEPT ![w] = m]
        BY <1>6, <2>2, <3>0 DEF CountLeak
      <3>2. /\ m.step = "tpcount" /\ m.recipient = l.recipient /\ m.source = l.source
            /\ m.skip = l.skip /\ m.todo = l.todo
        BY <1>1, <3>0, SameSearch
      <3>3. Searched(m, g, r)'
        BY <2>1, <3>2, SearchingAtCount
      <3> QED
        BY <1>3, <3>1, <3>3
    <2>3. CASE ~ThirdParty(l)
      <3>1. leak' = [leak EXCEPT ![w] = NextEncoding(l)]
        BY <1>6, <2>3 DEF CountLeak
      <3>2. Searched(NextEncoding(l), g, r)
        BY <1>1, <2>1, NextEncodingSearched
      <3> QED
        BY <1>3, <3>1, <3>2
    <2> QED
      BY <2>2, <2>3
  <1>7. CASE CountThirdParty(w)
    <2>1. /\ LeakRow(g.recipient, u) \in leakedEmails
          /\ leak' = [leak EXCEPT ![w] = NextEncoding(l)]
      BY <1>7 DEF CountThirdParty, Searching
    <2>2. Searched(NextEncoding(l), g, r)
      BY <1>1, <2>1, NextEncodingSearched
    <2> QED
      BY <1>3, <2>1, <2>2
  <1>8. CASE LeakThrows(w)
    <2>1. leak' = [leak EXCEPT ![w] = Failed]
      BY <1>1, <1>8 DEF LeakThrows
    <2>2. Searched(Failed, g, r)
      BY DEF Searched
    <2> QED
      BY <1>3, <2>1, <2>2
  <1> QED
    BY <1>4, <1>5, <1>6, <1>7, <1>8 DEF RecordLeak

(* How a step changes what a handler of the web server is doing.           *)
LEMMA WebEffect ==
  ASSUME TypeOK, [Next]_vars, NEW w \in WebThread
  PROVE  \/ web'[w] = web[w]
         \/ web'[w].pc # "leaks"
         \/ /\ web[w].pc = "user"
            /\ web'[w].pc = "leaks" /\ web'[w].group = web[w].group
            /\ web'[w].report = web[w].report
            /\ FindLeakedEmailAddress(w, web[w].group.recipient, web[w].group.domain,
                                      "link", BaseUrls(web[w].group), web[w].report)
  <1>1. web \in [WebThread -> WebState]
    BY DEF TypeOK, WebTypeOK, WebState
  <1>2. ASSUME NEW v \in WebThread, NEW n, web' = [web EXCEPT ![v] = n]
        PROVE  web'[v] = n /\ (v # w => web'[w] = web[w])
    BY <1>1, <1>2
  <1>3. NoRequest.pc # "leaks"
    BY DEF NoRequest
  <1>4. CASE DeliveryNext /\ UNCHANGED webVars
    BY <1>4 DEF webVars
  <1>5. CASE UNCHANGED vars
    BY <1>5 DEF vars, webVars
  <1>6. CASE Crash
    BY <1>3, <1>6 DEF Crash
  <1>7. ASSUME NEW v \in WebThread, Client(v)
        PROVE  web'[w] = web[w] \/ web'[w].pc # "leaks"
    <2>1. CASE PostRegister(v)
      <3>1. PICK d \in Domain :
              web' = [web EXCEPT ![v] = [pc |-> "register", domain |-> d, retries |-> 3]]
        BY <2>1 DEF PostRegister, Begin
      <3> QED
        BY <1>2, <3>1
    <2>2. CASE PostResults(v)
      <3>1. PICK id \in offered \cup {0}, r \in Report :
              web' = [web EXCEPT ![v] = [pc |-> "group", id |-> id, report |-> r]]
        BY <2>2 DEF PostResults, Begin
      <3> QED
        BY <1>2, <3>1
    <2>3. CASE GetVisit(v)
      BY <2>3 DEF GetVisit
    <2> QED
      BY <1>7, <2>1, <2>2, <2>3 DEF Client
  <1>8. ASSUME NEW v \in WebThread, GenerateAddress(v)
        PROVE  web'[w] = web[w] \/ web'[w].pc # "leaks"
    <2>1. CASE Respond(v)
      BY <1>2, <1>3, <2>1 DEF Respond
    <2>2. CASE web' = [web EXCEPT ![v].retries = @ - 1]
      <3>1. web[v] \in WebState /\ web[v].pc = "register"
        BY <1>1, <1>8 DEF GenerateAddress
      <3>2. PICK n : n = [web[v] EXCEPT !.retries = web[v].retries - 1]
        OBVIOUS
      <3>3. n.pc = "register"
        BY <3>1, <3>2 DEF WebState, NoRequest
      <3> QED
        BY <1>2, <2>2, <3>2, <3>3
    <2> QED
      BY <1>8, <2>1, <2>2 DEF GenerateAddress
  <1>9. ASSUME NEW v \in WebThread, LookUpGroup(v)
        PROVE  web'[w] = web[w] \/ web'[w].pc # "leaks"
    <2>1. CASE Respond(v)
      BY <1>2, <1>3, <2>1 DEF Respond
    <2>2. CASE \E g \in linkGroups :
                 web' = [web EXCEPT ![v] = [pc |-> "user", group |-> g,
                                            report |-> web[v].report]]
      BY <1>2, <2>2
    <2> QED
      BY <1>9, <2>1, <2>2 DEF LookUpGroup
  <1>10. ASSUME NEW v \in WebThread, ResultsFailed(v) \/ RemoveGroup(v) \/ RecordLinkLeak(v)
         PROVE  web'[w] = web[w] \/ web'[w].pc # "leaks"
    BY <1>2, <1>3, <1>10 DEF ResultsFailed, RemoveGroup, RecordLinkLeak, webVars, Respond
  <1>11. ASSUME NEW v \in WebThread, LookUpRecipient(v)
         PROVE  \/ web'[w] = web[w] \/ web'[w].pc # "leaks"
                \/ /\ v = w /\ web[w].pc = "user"
                   /\ web'[w].pc = "leaks" /\ web'[w].group = web[w].group
                   /\ web'[w].report = web[w].report
                   /\ FindLeakedEmailAddress(w, web[w].group.recipient,
                         web[w].group.domain, "link", BaseUrls(web[w].group), web[w].report)
    <2>1. CASE Respond(v)
      BY <1>2, <1>3, <2>1 DEF Respond
    <2>2. CASE /\ web' = [web EXCEPT ![v].pc = "leaks"]
               /\ FindLeakedEmailAddress(v, web[v].group.recipient, web[v].group.domain,
                                         "link", BaseUrls(web[v].group), web[v].report)
      <3>1. web[v] \in WebState /\ web[v].pc = "user"
        BY <1>1, <1>11 DEF LookUpRecipient
      <3>2. PICK n : n = [web[v] EXCEPT !.pc = "leaks"]
        OBVIOUS
      <3>3. n.pc = "leaks" /\ n.group = web[v].group /\ n.report = web[v].report
        BY <3>1, <3>2 DEF WebState, NoRequest
      <3> QED
        BY <1>2, <2>2, <3>1, <3>2, <3>3
    <2> QED
      BY <1>11, <2>1, <2>2 DEF LookUpRecipient
  <1> QED
    BY <1>4, <1>5, <1>6, <1>7, <1>8, <1>9, <1>10, <1>11 DEF Next, WebNext, WebStep

(* The beginning of a report.                                              *)
LEMMA SearchBegins ==
  ASSUME NEW a, NEW d, NEW g, g.recipient = a, NEW r \in Seq(URL)
  PROVE  Searched(Activation(a, d, "link", BaseUrls(g), r), g, r)
  <1>1. CASE r = <<>>
    BY <1>1 DEF Searched, Activation
  <1>2. CASE r # <<>>
    <2> DEFINE n == Activation(a, d, "link", BaseUrls(g), r)
    <2>1. /\ n.step = "url" /\ n.recipient = a /\ n.source = "link"
          /\ n.skip = BaseUrls(g) /\ n.todo = r
      BY <1>2 DEF Activation
    <2> HIDE DEF n
    <2>2. Len(r) \in Nat /\ Len(r) > 0
      BY <1>2
    <2>3. At(n, g, r, 1)
      BY <2>1, <2>2 DEF At
    <2>4. Searching(n, g, r)
      BY <2>1, <2>2, <2>3 DEF Searching
    <2> QED
      BY <2>4 DEF Searched, n
  <1> QED
    BY <1>1, <1>2

LEMMA ReportsSearchedStep ==
  ASSUME TypeOK, ReportsSearched, [Next]_vars
  PROVE  ReportsSearched'
  <1> SUFFICES ASSUME NEW w \in WebThread, web'[w].pc = "leaks",
                      NEW g, g = web'[w].group, NEW r, r = web'[w].report
               PROVE  Searched(leak[w], g, r)'
    BY DEF ReportsSearched, Searched, Searching, At, Recorded
  <1>1. /\ w \in Thread /\ DBTypeOK /\ leakedEmails \subseteq leakedEmails'
        /\ leak \in [Thread -> LeakActivation] /\ web[w] \in WebState
        /\ w \notin SmtpThread \cup PoolThread
    BY LeakedGrow, WebApiAssumption, MailServerAssumption
       DEF TypeOK, DBTypeOK, WebTypeOK, WebState
  <1>2. CASE web'[w] = web[w]
    <2>1. Searched(leak[w], g, r) /\ r \in Seq(URL)
      BY <1>1, <1>2, WebFields, WebApiAssumption DEF ReportsSearched
    <2>2. CASE leak'[w] = leak[w]
      <3>1. Searched(leak[w], g, r)'
        <4>1. PICK l : l = leak[w]
          OBVIOUS
        <4>2. Searched(l, g, r)'
          BY <1>1, <2>1, <4>1, SearchedKept
        <4> QED
          BY <2>2, <4>1, <4>2
      <3> QED
        BY <3>1
    <2>3. CASE RecordLeak(w)
      <3>1. Searching(leak[w], g, r)
        BY <2>1, <2>3 DEF Searched, RecordLeak, ScanURL, InsertLeak, CountLeak,
                          CountThirdParty, LeakThrows, Idle, Failed
      <3> QED
        BY <1>1, <2>1, <2>3, <3>1, RecordLeakSearches
    <2>4. ~LookUpRecipient(w) /\ ~ResultsFailed(w) /\ ~Crash
      <3>1. ~LookUpRecipient(w)
        BY <1>2 DEF LookUpRecipient
      <3>2. ResultsFailed(w) => web'[w] = NoRequest
        BY DEF ResultsFailed, Respond, TypeOK, WebTypeOK
      <3>3. Crash => web'[w] = NoRequest
        BY DEF Crash
      <3> QED
        BY <3>1, <3>2, <3>3 DEF NoRequest
    <2> QED
      BY <1>1, <2>2, <2>3, <2>4, ActivationEffect
  <1>3. CASE /\ web[w].pc = "user" /\ g = web[w].group /\ r = web[w].report
             /\ FindLeakedEmailAddress(w, g.recipient, g.domain, "link", BaseUrls(g), r)
    <2>1. r \in Seq(URL)
      BY <1>1, <1>3, WebFields, WebApiAssumption
    <2>2. PICK l : l = Activation(g.recipient, g.domain, "link", BaseUrls(g), r)
      OBVIOUS
    <2>3. Searched(l, g, r) /\ leak'[w] = l
      BY <1>1, <1>3, <2>1, <2>2, SearchBegins DEF FindLeakedEmailAddress
    <2>4. Searched(l, g, r)'
      BY <1>1, <2>3, SearchedKept
    <2> QED
      BY <2>3, <2>4
  <1> QED
    BY <1>2, <1>3, WebEffect

(* Results answered with 200 are in leaked_emails, every leak of them,     *)
(* however many handlers record at the same time and whatever failed       *)
(* before: a client that posts again only what was not answered 200 loses  *)
(* nothing (WebServer.results).                                            *)
THEOREM ResultsRecorded == Spec => []AcceptedResultsRecorded
  <1>1. Init => ReportsSearched /\ AcceptedResultsRecorded
    BY DEF Init, WebInit, NoRequest, ReportsSearched, AcceptedResultsRecorded
  <1>2. TypeOK /\ ReportsSearched /\ AcceptedResultsRecorded /\ [Next]_vars
          => ReportsSearched' /\ AcceptedResultsRecorded'
    <2> SUFFICES ASSUME TypeOK, ReportsSearched, AcceptedResultsRecorded, [Next]_vars
                 PROVE  AcceptedResultsRecorded'
      BY ReportsSearchedStep
    <2>1. leakedEmails \subseteq leakedEmails'
      BY LeakedGrow
    <2>2. CASE UNCHANGED accepted
      BY <2>1, <2>2 DEF AcceptedResultsRecorded
    <2>3. ASSUME NEW w \in WebThread, RemoveGroup(w) PROVE AcceptedResultsRecorded'
      <3>1. PICK o : o = [group |-> web[w].group, report |-> web[w].report]
        OBVIOUS
      <3>2. /\ accepted' = accepted \cup {o} /\ web[w].pc = "leaks" /\ leak[w] = Idle
            /\ o.group = web[w].group /\ o.report = web[w].report
        BY <2>3, <3>1 DEF RemoveGroup
      <3>3. \A i \in DOMAIN o.report : Recorded(o.group, o.report[i])
        BY <3>2 DEF ReportsSearched, Searched, Searching, Idle, Failed
      <3>4. \A i \in DOMAIN o.report :
              o.report[i] \notin BaseUrls(o.group) /\ Encodings[o.report[i]] > 0 =>
                [recipient |-> o.group.recipient, url |-> o.report[i], source |-> "link"]
                  \in leakedEmails'
        BY <2>1, <3>3 DEF Recorded, LeakRow
      <3> QED
        BY <2>1, <3>2, <3>4 DEF AcceptedResultsRecorded
    <2> QED
      BY <2>2, <2>3, GroupsEffect
  <1> QED
    BY <1>1, <1>2, TypeCorrect, PTL DEF Spec

-----------------------------------------------------------------------------
(* Redirects.  A pool thread inserts the rows of a request in the order of *)
(* its chain and searches the chain only after the last one; nothing takes *)
(* a row away.                                                             *)

(* A redirect to u was recorded for the address a.                         *)
Redirected(a, u, rs) == \E r \in rs : r.recipient = a /\ r.target = u

(* What an activation for the redirects of an image has still to look at.  *)
Followed(l, rs) ==
  l.step \in {"url", "insert", "count", "tpcount"} /\ l.source = "image" =>
    \A i \in DOMAIN l.todo : Redirected(l.recipient, l.todo[i], rs)

(* The rows of a task before its rank are there.                           *)
RowsBefore(s, rs) ==
  s.pc = "redirects" =>
    /\ s.rank <= Len(s.chain)
    /\ \A i \in 1 .. s.rank - 1 :
         \E r \in rs : /\ r.recipient = s.task.recipient /\ r.request = s.task.url
                       /\ r.rank = i /\ r.target = s.chain[i]

RedirectInv ==
  /\ \A p \in PoolThread : RowsBefore(pool[p], redirects)
  /\ \A t \in Thread : Followed(leak[t], redirects)
  /\ RedirectsBeforeLeaks

LEMMA MoreRows ==
  ASSUME NEW l, NEW s, NEW rs, NEW more, rs \subseteq more
  PROVE  /\ Followed(l, rs) => Followed(l, more)
         /\ RowsBefore(s, rs) => RowsBefore(s, more)
  BY DEF Followed, Redirected, RowsBefore

(* The statement that changes the redirects, and those that only change    *)
(* what a pool thread does.                                                *)
LEMMA RedirectEffect ==
  ASSUME TypeOK, [Next]_vars
  PROVE  \/ UNCHANGED <<pool, redirects>>
         \/ Crash
         \/ \E p \in PoolThread :
              \/ InsertRedirect(p)
              \/ TakeTask(p) \/ Go(p) \/ EnterAddRedirects(p) \/ RedirectThrows(p) \/ TaskDone(p)
  <1>1. ASSUME NEW t \in SmtpThread, SmtpStep(t) PROVE UNCHANGED <<pool, redirects>>
    <2>1. CASE IsDirectory(t) \/ ChooseImages(t) \/ ScheduleImage(t)
      BY <2>1 DEF IsDirectory, ChooseImages, ScheduleImage, KeepDB, dbVars, KeepPool, poolVars
    <2>2. CASE \/ Accept(t) \/ HandleMessage(t) \/ Mkdirs(t) \/ WriteFile(t)
               \/ InsertMailEntry(t) \/ UpdateReceived(t) \/ Analyze(t)
               \/ RecordConfirmation(t) \/ RecordLinksToVisit(t)
      BY <2>2 DEF Accept, HandleMessage, Mkdirs, WriteFile, InsertMailEntry, UpdateReceived,
                  Analyze, RecordConfirmation, RecordLinksToVisit, KeepPool, poolVars
    <2>3. CASE RecordMailLeak(t)
      BY <2>3 DEF RecordMailLeak, RecordLeak, deliveryVars, poolVars
    <2> QED
      BY <1>1, <2>1, <2>2, <2>3 DEF SmtpStep
  <1>2. ASSUME NEW p \in PoolThread, RecordImageLeak(p) PROVE UNCHANGED <<pool, redirects>>
    BY <1>2 DEF RecordImageLeak, RecordLeak, deliveryVars, poolVars
  <1>3. ASSUME WebNext, UNCHANGED deliveryVars PROVE UNCHANGED <<pool, redirects>>
    <2>1. UNCHANGED pool
      BY <1>3 DEF deliveryVars, poolVars
    <2>2. ASSUME NEW w \in WebThread, WebStep(w) \/ Client(w) PROVE UNCHANGED redirects
      <3>1. CASE GenerateAddress(w) \/ LookUpGroup(w) \/ RemoveGroup(w) \/ LookUpRecipient(w)
                 \/ ResultsFailed(w)
        BY <3>1 DEF GenerateAddress, LookUpGroup, RemoveGroup, LookUpRecipient, ResultsFailed
      <3>2. CASE Client(w)
        BY <3>2 DEF Client, PostRegister, GetVisit, PostResults, Begin, dbVars
      <3>3. CASE RecordLinkLeak(w)
        BY <3>3 DEF RecordLinkLeak, RecordLeak
      <3> QED
        BY <2>2, <3>1, <3>2, <3>3 DEF WebStep
    <2> QED
      BY <1>3, <2>1, <2>2 DEF WebNext
  <1>4. Tick \/ UNCHANGED vars \/ (\E t \in SmtpThread, m \in Mail : Connect(t, m))
          => UNCHANGED <<pool, redirects>>
    BY DEF Tick, Connect, KeepDB, vars, dbVars, deliveryVars, KeepPool, poolVars
  <1> QED
    BY <1>1, <1>2, <1>3, <1>4 DEF Next, DeliveryNext, PoolStep

(* A row of a task: the rows before the next rank, or before the search,   *)
(* are there, and so are the rows before the new one.                      *)
LEMMA InsertRedirectRows ==
  ASSUME TypeOK, NEW p \in PoolThread, InsertRedirect(p), RowsBefore(pool[p], redirects)
  PROVE  /\ redirects \subseteq redirects'
         /\ \A i \in 1 .. pool[p].rank :
              \E r \in redirects' :
                /\ r.recipient = pool[p].task.recipient /\ r.request = pool[p].task.url
                /\ r.rank = i /\ r.target = pool[p].chain[i]
         /\ \A r \in redirects' \ redirects :
              /\ r.recipient = pool[p].task.recipient /\ r.request = pool[p].task.url
              /\ r.rank = pool[p].rank
  <1>1. PICK new : new = [recipient |-> pool[p].task.recipient, request |-> pool[p].task.url,
                          rank |-> pool[p].rank, target |-> pool[p].chain[pool[p].rank]]
    OBVIOUS
  <1>2. redirects' = redirects \cup {new} /\ pool[p].pc = "redirects"
    BY <1>1 DEF InsertRedirect, AddRedirect
  <1>3. pool[p].rank \in Nat \ {0}
    BY <1>2, PoolFields DEF TypeOK, DeliveryTypeOK
  <1>4. /\ new.recipient = pool[p].task.recipient /\ new.request = pool[p].task.url
        /\ new.rank = pool[p].rank /\ new.target = pool[p].chain[pool[p].rank]
    BY <1>1
  <1>5. \A i \in 1 .. pool[p].rank : i = pool[p].rank \/ i \in 1 .. pool[p].rank - 1
    BY <1>3
  <1> QED
    BY <1>2, <1>4, <1>5 DEF RowsBefore

LEMMA RowsBeforeStep ==
  ASSUME TypeOK, \A p \in PoolThread : RowsBefore(pool[p], redirects), [Next]_vars
  PROVE  /\ redirects \subseteq redirects'
         /\ \A p \in PoolThread : RowsBefore(pool'[p], redirects')
  <1>1. pool \in [PoolThread -> PoolState]
    BY DEF TypeOK, DeliveryTypeOK
  <1>2. ASSUME NEW n, n.pc # "redirects" PROVE RowsBefore(n, redirects')
    BY <1>2 DEF RowsBefore
  <1>3. CASE UNCHANGED <<pool, redirects>>
    BY <1>3
  <1>4. CASE Crash
    <2>1. /\ redirects' = redirects
          /\ \A p \in PoolThread : pool'[p] = NotRunning
      BY <1>4 DEF Crash
    <2> QED
      BY <1>2, <2>1 DEF NotRunning
  <1>5. ASSUME NEW p \in PoolThread, NEW n, pool' = [pool EXCEPT ![p] = n],
               redirects \subseteq redirects', RowsBefore(n, redirects')
        PROVE  \A q \in PoolThread : RowsBefore(pool'[q], redirects')
    <2> SUFFICES ASSUME NEW q \in PoolThread PROVE RowsBefore(pool'[q], redirects')
      OBVIOUS
    <2>1. CASE q = p
      BY <1>1, <1>5, <2>1
    <2>2. CASE q # p
      <3>1. PICK s : s = pool[q]
        OBVIOUS
      <3>2. pool'[q] = s /\ RowsBefore(s, redirects)
        BY <1>1, <1>5, <2>2, <3>1
      <3>3. RowsBefore(s, redirects')
        BY <1>5, <3>2, MoreRows
      <3> QED
        BY <3>2, <3>3
    <2> QED
      BY <2>1, <2>2
  <1>6. ASSUME NEW p \in PoolThread, TakeTask(p) \/ Go(p) \/ RedirectThrows(p) \/ TaskDone(p)
        PROVE  /\ redirects' = redirects
               /\ \E n : pool' = [pool EXCEPT ![p] = n] /\ n.pc # "redirects"
    <2>1. CASE TakeTask(p)
      <3>1. [pc |-> "go", task |-> Head(queue)].pc # "redirects"
        OBVIOUS
      <3> QED
        BY <2>1, <3>1 DEF TakeTask, KeepDB, dbVars
    <2>2. CASE Go(p)
      <3>1. NotRunning.pc # "redirects"
        BY DEF NotRunning
      <3>2. \A c : [pc |-> "monitor", task |-> pool[p].task, chain |-> c].pc # "redirects"
        OBVIOUS
      <3> QED
        BY <2>2, <3>1, <3>2 DEF Go, PoolIdle, KeepDB, dbVars
    <2>3. CASE RedirectThrows(p) \/ TaskDone(p)
      BY <2>3 DEF RedirectThrows, TaskDone, PoolIdle, NotRunning, KeepDB, dbVars
    <2> QED
      BY <1>6, <2>1, <2>2, <2>3
  <1>7. ASSUME NEW p \in PoolThread, EnterAddRedirects(p)
        PROVE  /\ redirects' = redirects
               /\ \E n : pool' = [pool EXCEPT ![p] = n] /\ RowsBefore(n, redirects)
    <2>1. redirects' = redirects
      BY <1>7 DEF EnterAddRedirects, KeepDB, dbVars
    <2>2. CASE pool[p].chain = <<>>
      BY <1>7, <2>1, <2>2 DEF EnterAddRedirects, PoolIdle, NotRunning, RowsBefore
    <2>3. CASE pool[p].chain # <<>>
      <3>1. PICK n : n = [pc |-> "redirects", task |-> pool[p].task,
                          chain |-> pool[p].chain, rank |-> 1]
        OBVIOUS
      <3>2. pool' = [pool EXCEPT ![p] = n]
        BY <1>7, <2>3, <3>1 DEF EnterAddRedirects
      <3>3. n.rank = 1 /\ n.chain \in Seq(URL) /\ n.chain # <<>>
        BY <1>1, <1>7, <2>3, <3>1, PoolFields DEF EnterAddRedirects
      <3>4. n.rank <= Len(n.chain) /\ 1 .. n.rank - 1 = {}
        BY <3>3
      <3> QED
        BY <2>1, <3>2, <3>4 DEF RowsBefore
    <2> QED
      BY <2>2, <2>3
  <1>8. ASSUME NEW p \in PoolThread, InsertRedirect(p)
        PROVE  /\ redirects \subseteq redirects'
               /\ \E n : pool' = [pool EXCEPT ![p] = n] /\ RowsBefore(n, redirects')
    <2>1. pool[p] \in PoolState /\ pool[p].pc = "redirects"
      BY <1>1, <1>8 DEF InsertRedirect
    <2>2. pool[p].rank \in Nat \ {0} /\ pool[p].chain \in Seq(URL)
      BY <2>1, PoolFields
    <2>3. redirects \subseteq redirects'
      BY <1>8, InsertRedirectRows
    <2>4. CASE pool[p].rank < Len(pool[p].chain) /\ pool' = [pool EXCEPT ![p].rank = @ + 1]
      <3>1. PICK n : n = [pool[p] EXCEPT !.rank = pool[p].rank + 1]
        OBVIOUS
      <3>2. /\ n.rank = pool[p].rank + 1 /\ n.chain = pool[p].chain
            /\ n.task = pool[p].task
        BY <2>1, <3>1 DEF PoolState, NotRunning
      <3>3. n.rank <= Len(n.chain) /\ n.rank - 1 = pool[p].rank
        BY <2>2, <2>4, <3>2
      <3>4. RowsBefore(n, redirects')
        BY <1>8, <3>2, <3>3, InsertRedirectRows DEF RowsBefore
      <3> QED
        BY <2>3, <2>4, <3>1, <3>4
    <2>5. CASE PoolGoto(p, "leaks")
      <3>1. PICK n : n = [pool[p] EXCEPT !.pc = "leaks"]
        OBVIOUS
      <3>2. n.pc = "leaks" /\ pool' = [pool EXCEPT ![p] = n]
        BY <2>1, <2>5, <3>1 DEF PoolState, PoolGoto, NotRunning
      <3> QED
        BY <1>2, <2>3, <3>2
    <2> QED
      BY <1>8, <2>4, <2>5 DEF InsertRedirect
  <1> QED
    BY <1>2, <1>3, <1>4, <1>5, <1>6, <1>7, <1>8, RedirectEffect

(* An activation goes through its URLs from the head on.                   *)
LEMMA RecordLeakFollowed ==
  ASSUME DBTypeOK, NEW t \in Thread, RecordLeak(t), NEW rs, Followed(leak[t], rs)
  PROVE  /\ Followed(leak'[t], rs)
         /\ \A l \in leakedEmails' \ leakedEmails :
              l.source = "image" => Redirected(l.recipient, l.url, rs)
  <1> DEFINE l == leak[t]
             u == Head(l.todo)
  <1>1. /\ l \in LeakActivation
        /\ \A n : leak' = [leak EXCEPT ![t] = n] => leak'[t] = n
    BY DEF DBTypeOK
  <1>2. l \in Running /\ l.todo # <<>>
    BY <1>1 DEF RecordLeak, ScanURL, InsertLeak, CountLeak, CountThirdParty, LeakThrows,
                LeakActivation, Running, Idle, Failed
  <1>3. l.todo \in Seq(URL) /\ u = l.todo[1] /\ 1 \in DOMAIN l.todo
    BY <1>2 DEF Running
  <1>4. Followed(NextURL(l), rs)
    <2>1. CASE Tail(l.todo) = <<>>
      BY <2>1 DEF NextURL, Activation, Idle, Followed
    <2>2. CASE Tail(l.todo) # <<>>
      <3>1. PICK n : n = NextURL(l)
        OBVIOUS
      <3>2. /\ n.source = l.source /\ n.recipient = l.recipient /\ n.todo = Tail(l.todo)
        BY <2>2, <3>1 DEF NextURL, Activation
      <3>3. \A i \in DOMAIN n.todo : i + 1 \in DOMAIN l.todo /\ n.todo[i] = l.todo[i + 1]
        BY <1>2, <1>3, <3>2
      <3>4. l.step \in {"url", "insert", "count", "tpcount"}
        BY <1>2 DEF Running
      <3> QED
        BY <3>1, <3>2, <3>3, <3>4 DEF Followed
    <2> QED
      BY <2>1, <2>2
  <1>5. ASSUME NEW n, n.recipient = l.recipient, n.source = l.source, n.todo = l.todo
        PROVE  Followed(n, rs)
    <2>1. l.step \in {"url", "insert", "count", "tpcount"}
      BY <1>2 DEF Running
    <2> QED
      BY <1>5, <2>1 DEF Followed
  <1>6. Followed(NextEncoding(l), rs)
    <2>1. CASE l.left > 1
      <3>1. PICK n : n = [l EXCEPT !.step = "insert", !.left = l.left - 1]
        OBVIOUS
      <3>2. n.recipient = l.recipient /\ n.source = l.source /\ n.todo = l.todo
        BY <1>2, <3>1, SameSearch
      <3>3. Followed(n, rs)
        BY <1>5, <3>2
      <3> QED
        BY <2>1, <3>1, <3>3 DEF NextEncoding
    <2>2. CASE ~(l.left > 1)
      BY <1>4, <2>2 DEF NextEncoding
    <2> QED
      BY <2>1, <2>2
  <1>7. CASE InsertLeak(t)
    <2>1. PICK n : n = [l EXCEPT !.step = "count"]
      OBVIOUS
    <2>2. leak'[t] = n /\ Followed(n, rs)
      <3>1. n.recipient = l.recipient /\ n.source = l.source /\ n.todo = l.todo
        BY <1>2, <2>1, SameSearch
      <3>2. leak'[t] = n
        BY <1>1, <1>7, <2>1 DEF InsertLeak
      <3> QED
        BY <1>5, <3>1, <3>2
    <2>3. \A r \in leakedEmails' \ leakedEmails :
            r.recipient = l.recipient /\ r.url = u /\ r.source = l.source
      BY <1>7 DEF InsertLeak
    <2>4. l.step \in {"url", "insert", "count", "tpcount"}
      BY <1>2 DEF Running
    <2>5. l.source = "image" => Redirected(l.recipient, u, rs)
      BY <1>3, <2>4 DEF Followed
    <2> QED
      BY <2>2, <2>3, <2>5
  <1>8. CASE ScanURL(t) \/ CountLeak(t) \/ CountThirdParty(t) \/ LeakThrows(t)
    <2>1. leakedEmails' = leakedEmails
      BY <1>8 DEF ScanURL, CountLeak, CountThirdParty, LeakThrows
    <2>2. PICK n : leak' = [leak EXCEPT ![t] = n] /\ (\/ n \in {Failed, NextURL(l), NextEncoding(l)}
                                                      \/ n = [l EXCEPT !.step = "tpcount"]
                                                      \/ n = [l EXCEPT !.step = "insert",
                                                                       !.left = Encodings[u]])
      BY <1>8 DEF ScanURL, CountLeak, CountThirdParty, LeakThrows
    <2>3. Followed(Failed, rs)
      BY DEF Followed, Failed
    <2>4. Followed(n, rs)
      <3>1. CASE n \in {Failed, NextURL(l), NextEncoding(l)}
        BY <1>4, <1>6, <2>3, <3>1
      <3>2. CASE \/ n = [l EXCEPT !.step = "tpcount"]
                 \/ n = [l EXCEPT !.step = "insert", !.left = Encodings[u]]
        <4>1. n.recipient = l.recipient /\ n.source = l.source /\ n.todo = l.todo
          <5>1. CASE n = [l EXCEPT !.step = "tpcount"]
            BY <1>2, <5>1, SameSearch
          <5>2. CASE n = [l EXCEPT !.step = "insert", !.left = Encodings[u]]
            BY <1>2, <5>2, SameSearch
          <5> QED
            BY <3>2, <5>1, <5>2
        <4> QED
          BY <1>5, <4>1
      <3> QED
        BY <2>2, <3>1, <3>2
    <2> QED
      BY <1>1, <2>1, <2>2, <2>4
  <1> QED
    BY <1>7, <1>8 DEF RecordLeak

(* A search that begins for a mail or a report is not one of an image, and *)
(* one of an image begins with the rows of its whole chain.                *)
LEMMA SearchFollowed ==
  ASSUME TypeOK, RedirectInv, [Next]_vars, NEW t \in Thread
  PROVE  Followed(leak'[t], redirects')
  <1>1. /\ redirects \subseteq redirects'
        /\ leak \in [Thread -> LeakActivation] /\ DBTypeOK
    BY RowsBeforeStep DEF RedirectInv, TypeOK, DBTypeOK
  <1>2. ASSUME NEW a, NEW d, NEW src, NEW skip, NEW us, src # "image",
               FindLeakedEmailAddress(t, a, d, src, skip, us)
        PROVE  Followed(leak'[t], redirects')
    <2>1. PICK n : n = Activation(a, d, src, skip, us)
      OBVIOUS
    <2>2. n.step = "idle" \/ n.source = src
      BY <2>1 DEF Activation, Idle
    <2>3. leak'[t] = n
      BY <1>1, <1>2, <2>1 DEF FindLeakedEmailAddress
    <2> QED
      BY <1>2, <2>2, <2>3 DEF Followed
  <1>3. CASE leak'[t] = leak[t]
    <2>1. PICK l : l = leak[t]
      OBVIOUS
    <2>2. Followed(l, redirects')
      BY <1>1, <2>1, MoreRows DEF RedirectInv
    <2> QED
      BY <1>3, <2>1, <2>2
  <1>4. CASE RecordLeak(t)
    <2>1. redirects' = redirects
      BY <1>4 DEF RecordLeak
    <2> QED
      BY <1>1, <1>4, <2>1, RecordLeakFollowed DEF RedirectInv
  <1>5. CASE AnalyzeLinks(t)
    <2>1. \/ UNCHANGED leakVars
          \/ \E a, d, skip, us : FindLeakedEmailAddress(t, a, d, "mail", skip, us)
      BY <1>5 DEF AnalyzeLinks
    <2> QED
      BY <1>2, <1>3, <2>1 DEF leakVars
  <1>6. CASE LookUpRecipient(t) \/ ResultsFailed(t)
    <2>1. \/ UNCHANGED leakVars
          \/ \E a, d, skip, us : FindLeakedEmailAddress(t, a, d, "link", skip, us)
          \/ leak'[t] = Idle
      BY <1>1, <1>6 DEF LookUpRecipient, ResultsFailed
    <2> QED
      BY <1>2, <1>3, <2>1 DEF leakVars, Followed, Idle
  <1>7. CASE Crash
    <2>1. leak'[t] = Idle
      BY <1>7 DEF Crash
    <2> QED
      BY <2>1 DEF Followed, Idle
  <1>8. CASE t \in PoolThread /\ InsertRedirect(t)
    <2>1. pool[t] \in PoolState /\ pool[t].pc = "redirects"
      BY <1>8 DEF InsertRedirect, TypeOK, DeliveryTypeOK
    <2>2. pool[t].rank \in Nat \ {0} /\ pool[t].chain \in Seq(URL)
      BY <2>1, PoolFields
    <2>3. CASE UNCHANGED leakVars
      BY <1>3, <2>3 DEF leakVars
    <2>4. CASE /\ pool[t].rank = Len(pool[t].chain)
               /\ FindLeakedEmailAddress(t, pool[t].task.recipient, pool[t].task.domain,
                                         "image", {}, pool[t].chain)
      <3>1. PICK n : n = Activation(pool[t].task.recipient, pool[t].task.domain, "image", {},
                                    pool[t].chain)
        OBVIOUS
      <3>2. n.recipient = pool[t].task.recipient /\ n.todo = pool[t].chain
        BY <2>2, <2>4, <3>1 DEF Activation
      <3>3. DOMAIN n.todo = 1 .. pool[t].rank
        BY <2>2, <2>4, <3>2
      <3>4. leak'[t] = n
        BY <1>1, <2>4, <3>1 DEF FindLeakedEmailAddress
      <3>5. \A i \in DOMAIN n.todo : Redirected(n.recipient, n.todo[i], redirects')
        BY <1>8, <3>2, <3>3, InsertRedirectRows DEF RedirectInv, Redirected
      <3> QED
        BY <3>4, <3>5 DEF Followed
    <2> QED
      BY <1>8, <2>3, <2>4 DEF InsertRedirect
  <1> QED
    BY <1>3, <1>4, <1>5, <1>6, <1>7, <1>8, ActivationEffect

LEMMA RedirectInvStep ==
  ASSUME TypeOK, RedirectInv, [Next]_vars
  PROVE  RedirectInv'
  <1>1. /\ redirects \subseteq redirects'
        /\ (\A p \in PoolThread : RowsBefore(pool[p], redirects))'
    BY RowsBeforeStep DEF RedirectInv
  <1>2. (\A t \in Thread : Followed(leak[t], redirects))'
    BY SearchFollowed
  <1>3. \A l \in leakedEmails' :
          l.source = "image" => \E r \in redirects' : r.recipient = l.recipient /\ r.target = l.url
    <2>1. CASE leakedEmails' = leakedEmails
      BY <1>1, <2>1 DEF RedirectInv, RedirectsBeforeLeaks
    <2>2. ASSUME NEW t \in Thread, RecordLeak(t)
          PROVE  \A l \in leakedEmails' \ leakedEmails :
                   l.source = "image" => Redirected(l.recipient, l.url, redirects)
      BY <2>2, RecordLeakFollowed DEF RedirectInv, TypeOK
    <2> QED
      BY <1>1, <2>1, <2>2, LeakEffect
         DEF RedirectInv, RedirectsBeforeLeaks, Redirected, leakVars, Moves, leakTables, Crash
  <1>4. \A r \in redirects' :
          r.rank > 1 => \E q \in redirects' : /\ q.recipient = r.recipient
                                              /\ q.request = r.request
                                              /\ q.rank = r.rank - 1
    <2>1. CASE redirects' = redirects
      BY <2>1 DEF RedirectInv, RedirectsBeforeLeaks
    <2>2. ASSUME NEW p \in PoolThread, InsertRedirect(p), NEW r \in redirects', r.rank > 1
          PROVE  \E q \in redirects' : /\ q.recipient = r.recipient
                                       /\ q.request = r.request
                                       /\ q.rank = r.rank - 1
      <3>1. CASE r \in redirects
        BY <1>1, <2>2, <3>1 DEF RedirectInv, RedirectsBeforeLeaks
      <3>2. CASE r \notin redirects
        <4>1. /\ r.recipient = pool[p].task.recipient /\ r.request = pool[p].task.url
              /\ r.rank = pool[p].rank
          BY <2>2, <3>2, InsertRedirectRows DEF RedirectInv
        <4>2. pool[p].rank \in Nat \ {0}
          BY <2>2, PoolFields DEF InsertRedirect, TypeOK, DeliveryTypeOK
        <4>3. r.rank - 1 \in 1 .. pool[p].rank
          BY <2>2, <4>1, <4>2
        <4> QED
          BY <2>2, <4>1, <4>3, InsertRedirectRows DEF RedirectInv
      <3> QED
        BY <3>1, <3>2
    <2>3. ASSUME NEW p \in PoolThread,
                 TakeTask(p) \/ Go(p) \/ EnterAddRedirects(p) \/ RedirectThrows(p) \/ TaskDone(p)
          PROVE  redirects' = redirects
      BY <2>3 DEF TakeTask, Go, EnterAddRedirects, RedirectThrows, TaskDone, KeepDB, dbVars
    <2> QED
      BY <2>1, <2>2, <2>3, RedirectEffect DEF Crash
  <1> QED
    BY <1>1, <1>2, <1>3, <1>4 DEF RedirectInv, RedirectsBeforeLeaks

(* A leak in a redirect of an image is recorded after the redirect, and    *)
(* the recorded redirects of a request have no gap, whichever threads take *)
(* the monitor in turn and wherever a statement throws or the process      *)
(* stops (RequestTask.call, MailDB.addRedirects).                          *)
THEOREM RedirectsFirst == Spec => []RedirectsBeforeLeaks
  <1>1. Init => RedirectInv
    BY DEF Init, DBInit, DeliveryInit, RedirectInv, RedirectsBeforeLeaks, RowsBefore, Followed,
           NotRunning, Idle
  <1>2. TypeOK /\ RedirectInv /\ [Next]_vars => RedirectInv'
    BY RedirectInvStep
  <1>3. RedirectInv => RedirectsBeforeLeaks
    BY DEF RedirectInv
  <1> QED
    BY <1>1, <1>2, <1>3, TypeCorrect, PTL DEF Spec
-----------------------------------------------------------------------------
(* The counters of leaks are exact as long as nothing failed.  Covered     *)
(* counts (LeakCounts) allow for a thread that gives up between its        *)
(* INSERT and its UPDATEs.  Without faults and crashes no thread does: it  *)
(* begins a search only when it has none, and ends it only when it is      *)
(* through.                                                                *)

Quiet(s) ==
  \/ leak[s] = Idle
  \/ s \in SmtpThread /\ smtp[s].pc = "leaks"
  \/ s \in PoolThread /\ pool[s].pc = "leaks"
  \/ s \in WebThread /\ web[s].pc = "leaks"

(* A thread at its search stays there as long as it has one.               *)
LEMMA SessionStays ==
  ASSUME TypeOK, [Next]_vars, NEW s \in SmtpThread, smtp[s].pc = "leaks", leak[s] # Idle
  PROVE  smtp'[s] = smtp[s] \/ Crash
  <1>1. smtp \in [SmtpThread -> Session]
    BY DEF TypeOK, DeliveryTypeOK
  <1>2. ASSUME NEW t \in SmtpThread, NEW n, t # s, smtp' = [smtp EXCEPT ![t] = n]
        PROVE  smtp'[s] = smtp[s]
    BY <1>1, <1>2
  <1>3. Elsewhere => smtp'[s] = smtp[s]
    BY DEF Elsewhere
  <1>4. ASSUME NEW t \in SmtpThread, SmtpStep(t) \/ \E m \in Mail : Connect(t, m)
        PROVE  smtp'[s] = smtp[s]
    <2>1. CASE RecordMailLeak(t)
      BY <2>1 DEF RecordMailLeak, deliveryVars
    <2>2. CASE ~RecordMailLeak(t) /\ t = s
      BY <1>4, <2>2 DEF SmtpStep, Accept, HandleMessage, IsDirectory, Mkdirs, WriteFile,
           InsertMailEntry, UpdateReceived, Analyze, RecordConfirmation, ChooseImages,
           ScheduleImage, RecordLinksToVisit, Connect
    <2>3. CASE ~RecordMailLeak(t) /\ t # s
      <3>1. CASE \E m \in Mail : Connect(t, m)
        BY <1>2, <2>3, <3>1 DEF Connect
      <3>2. CASE Accept(t) \/ HandleMessage(t)
        BY <1>2, <2>3, <3>2 DEF Accept, HandleMessage, Goto, Finish, Return
      <3>3. CASE IsDirectory(t) \/ Mkdirs(t) \/ WriteFile(t)
        BY <1>2, <2>3, <3>3 DEF IsDirectory, Mkdirs, WriteFile, Goto, WriteTo
      <3>4. CASE InsertMailEntry(t) \/ UpdateReceived(t)
        BY <1>2, <2>3, <3>4 DEF InsertMailEntry, UpdateReceived, Goto
      <3>5. CASE Analyze(t) \/ RecordConfirmation(t)
        BY <1>2, <2>3, <3>5 DEF Analyze, RecordConfirmation, AnalyzeLinks, Goto, Finish, Return
      <3>6. CASE ChooseImages(t) \/ ScheduleImage(t) \/ RecordLinksToVisit(t)
        BY <1>2, <2>3, <3>6 DEF ChooseImages, ScheduleImage, RecordLinksToVisit, Finish, Return
      <3> QED
        BY <1>4, <2>3, <3>1, <3>2, <3>3, <3>4, <3>5, <3>6 DEF SmtpStep
    <2> QED
      BY <2>1, <2>2, <2>3
  <1>5. ASSUME NEW p \in PoolThread, PoolStep(p) PROVE smtp'[s] = smtp[s]
    <2>1. CASE RecordImageLeak(p)
      BY <2>1 DEF RecordImageLeak, deliveryVars
    <2> QED
      BY <1>5, <2>1 DEF PoolStep, TakeTask, Go, EnterAddRedirects, InsertRedirect,
           RedirectThrows, TaskDone
  <1>6. Tick \/ UNCHANGED vars \/ (WebNext /\ UNCHANGED deliveryVars) => smtp'[s] = smtp[s]
    BY DEF Tick, vars, deliveryVars
  <1> QED
    BY <1>4, <1>5, <1>6 DEF Next, DeliveryNext

LEMMA TaskStays ==
  ASSUME TypeOK, [Next]_vars, NEW s \in PoolThread, pool[s].pc = "leaks", leak[s] # Idle
  PROVE  pool'[s] = pool[s] \/ Crash
  <1>1. pool \in [PoolThread -> PoolState]
    BY DEF TypeOK, DeliveryTypeOK
  <1>2. ASSUME NEW p \in PoolThread, p # s, NEW n, pool' = [pool EXCEPT ![p] = n]
        PROVE  pool'[s] = pool[s]
    BY <1>1, <1>2
  <1>3. ASSUME NEW p \in PoolThread,
               \/ InsertRedirect(p)
               \/ TakeTask(p) \/ Go(p) \/ EnterAddRedirects(p) \/ RedirectThrows(p) \/ TaskDone(p)
        PROVE  pool'[s] = pool[s]
    <2>1. p # s
      BY <1>3 DEF InsertRedirect, TakeTask, Go, EnterAddRedirects, RedirectThrows, TaskDone
    <2>2. CASE TakeTask(p) \/ Go(p) \/ EnterAddRedirects(p)
      BY <1>2, <2>1, <2>2 DEF TakeTask, Go, EnterAddRedirects, PoolIdle
    <2>3. CASE InsertRedirect(p)
      BY <1>2, <2>1, <2>3 DEF InsertRedirect, PoolGoto
    <2>4. CASE RedirectThrows(p) \/ TaskDone(p)
      BY <1>2, <2>1, <2>4 DEF RedirectThrows, TaskDone, PoolIdle
    <2> QED
      BY <1>3, <2>2, <2>3, <2>4
  <1> QED
    BY <1>3, RedirectEffect

LEMMA RequestStays ==
  ASSUME TypeOK, [Next]_vars, NEW s \in WebThread, web[s].pc = "leaks", leak[s] # Idle
  PROVE  web'[s] = web[s] \/ leak'[s] = Idle
  <1>1. web \in [WebThread -> WebState] /\ leak \in [Thread -> LeakActivation]
    BY DEF TypeOK, WebTypeOK, WebState, DBTypeOK
  <1>2. s \in Thread
    BY WebApiAssumption
  <1>3. ASSUME NEW w \in WebThread, NEW n, w # s, web' = [web EXCEPT ![w] = n]
        PROVE  web'[s] = web[s]
    BY <1>1, <1>3
  <1>4. ASSUME NEW w \in WebThread, WebStep(w) \/ Client(w)
        PROVE  web'[s] = web[s] \/ leak'[s] = Idle
    <2>1. CASE w = s
      <3>1. CASE ResultsFailed(w)
        BY <1>1, <1>2, <2>1, <3>1 DEF ResultsFailed
      <3>2. CASE RecordLinkLeak(w)
        BY <3>2 DEF RecordLinkLeak, webVars
      <3> QED
        BY <1>4, <2>1, <3>1, <3>2
           DEF WebStep, GenerateAddress, LookUpGroup, LookUpRecipient, RemoveGroup,
               Client, PostRegister, GetVisit, PostResults, Begin
    <2>2. CASE w # s
      <3>1. CASE GenerateAddress(w) \/ LookUpGroup(w)
        BY <1>3, <2>2, <3>1 DEF GenerateAddress, LookUpGroup, Respond
      <3>2. CASE LookUpRecipient(w) \/ ResultsFailed(w) \/ RemoveGroup(w)
        BY <1>3, <2>2, <3>2 DEF LookUpRecipient, ResultsFailed, RemoveGroup, Respond
      <3>3. CASE RecordLinkLeak(w) \/ GetVisit(w)
        BY <3>3 DEF RecordLinkLeak, webVars, GetVisit
      <3>4. CASE PostRegister(w) \/ PostResults(w)
        BY <1>3, <2>2, <3>4 DEF PostRegister, PostResults, Begin
      <3> QED
        BY <1>4, <3>1, <3>2, <3>3, <3>4 DEF WebStep, Client
    <2> QED
      BY <2>1, <2>2
  <1>5. (DeliveryNext /\ UNCHANGED webVars) \/ UNCHANGED vars => web'[s] = web[s]
    BY DEF vars, webVars
  <1>6. Crash => leak'[s] = Idle
    BY <1>2 DEF Crash
  <1> QED
    BY <1>4, <1>5, <1>6 DEF Next, WebNext

LEMMA QuietStep ==
  ASSUME TypeOK, [Next]_vars, NEW s \in Thread, Quiet(s)
  PROVE  Quiet(s)'
  <1>1. leak \in [Thread -> LeakActivation] /\ smtp \in [SmtpThread -> Session]
        /\ pool \in [PoolThread -> PoolState] /\ web \in [WebThread -> WebState]
    BY DEF TypeOK, DBTypeOK, DeliveryTypeOK, WebTypeOK, WebState
  <1>2. CASE Crash
    BY <1>2 DEF Crash, Quiet
  <1>3. CASE leak[s] # Idle /\ ~Crash
    BY <1>3, SessionStays, TaskStays, RequestStays DEF Quiet
  <1>4. CASE leak[s] = Idle /\ ~Crash
    <2>1. ~RecordLeak(s) /\ ~ResultsFailed(s)
      BY <1>4 DEF RecordLeak, ScanURL, InsertLeak, CountLeak, CountThirdParty, LeakThrows,
                  ResultsFailed, Idle, Failed
    <2>2. ASSUME s \in SmtpThread, smtp[s].pc \in {"analyze", "confirm"}, AnalyzeLinks(s)
          PROVE  Quiet(s)'
      <3>1. UNCHANGED leakVars => leak'[s] = Idle
        BY <1>4 DEF leakVars
      <3>2. Goto(s, "leaks") => smtp'[s].pc = "leaks"
        BY <1>1, <2>2, NamedGotoKeeps DEF Goto
      <3> QED
        BY <2>2, <3>1, <3>2 DEF AnalyzeLinks, Quiet
    <2>3. ASSUME s \in PoolThread, InsertRedirect(s) PROVE Quiet(s)'
      <3>1. UNCHANGED leakVars => leak'[s] = Idle
        BY <1>4 DEF leakVars
      <3>2. pool[s] \in PoolState /\ pool[s].pc = "redirects"
        BY <1>1, <2>3 DEF InsertRedirect
      <3>3. [pool[s] EXCEPT !.pc = "leaks"].pc = "leaks"
        BY <3>2 DEF PoolState, NotRunning
      <3>4. PoolGoto(s, "leaks") => pool'[s].pc = "leaks"
        BY <1>1, <2>3, <3>3 DEF PoolGoto
      <3> QED
        BY <2>3, <3>1, <3>4 DEF InsertRedirect, Quiet
    <2>4. ASSUME s \in WebThread, LookUpRecipient(s) PROVE Quiet(s)'
      <3>1. UNCHANGED leakVars => leak'[s] = Idle
        BY <1>4 DEF leakVars
      <3>2. web[s] \in WebState /\ web[s].pc = "user"
        BY <1>1, <2>4 DEF LookUpRecipient
      <3>3. [web[s] EXCEPT !.pc = "leaks"].pc = "leaks"
        BY <3>2 DEF WebState, NoRequest
      <3>4. web' = [web EXCEPT ![s].pc = "leaks"] => web'[s].pc = "leaks"
        BY <1>1, <2>4, <3>3
      <3> QED
        BY <2>4, <3>1, <3>4 DEF LookUpRecipient, Quiet
    <2>5. leak'[s] = leak[s] => Quiet(s)'
      BY <1>4 DEF Quiet
    <2> QED
      BY <1>4, <2>1, <2>2, <2>3, <2>4, <2>5, ActivationEffect
  <1> QED
    BY <1>2, <1>3, <1>4

(* So a thread that drops an activation without a statement of its own has *)
(* nothing left to count.                                                  *)
LEMMA NothingDropped ==
  ASSUME TypeOK, [Next]_vars, NEW s \in Thread, Quiet(s), ~Crash, ~RecordLeak(s),
         leak'[s] # leak[s]
  PROVE  leak[s].step \notin {"count", "tpcount"}
  <1>1. SmtpThread \cap PoolThread = {} /\ WebThread \cap (SmtpThread \cup PoolThread) = {}
    BY MailDeliveryAssumption, MailServerAssumption
  <1>2. Idle.step \notin {"count", "tpcount"} /\ Failed.step \notin {"count", "tpcount"}
    BY DEF Idle, Failed
  <1>3. ASSUME s \in SmtpThread, smtp[s].pc \in {"analyze", "confirm"} PROVE leak[s] = Idle
    BY <1>1, <1>3 DEF Quiet
  <1>4. ASSUME s \in PoolThread, InsertRedirect(s) PROVE leak[s] = Idle
    BY <1>1, <1>4 DEF Quiet, InsertRedirect
  <1>5. ASSUME s \in WebThread, LookUpRecipient(s) PROVE leak[s] = Idle
    BY <1>1, <1>5 DEF Quiet, LookUpRecipient
  <1>6. ResultsFailed(s) => leak[s] = Failed
    BY DEF ResultsFailed
  <1> QED
    BY <1>2, <1>3, <1>4, <1>5, <1>6, ActivationEffect

(* The two equations for one address.                                      *)
Exact(a) ==
  /\ leakCount[a] + Cardinality(Uncounted(a)) = leakRows[a]
  /\ tpLeakCount[a] + Cardinality(UncountedThirdParty(a)) = tpLeakRows[a]

LEMMA MovesKeepsExact ==
  ASSUME DBTypeOK, NEW t \in Thread, Moves(t), leak[t].step \notin {"count", "tpcount"},
         NEW a \in Address, Exact(a)
  PROVE  Exact(a)'
  <1>1. PICK n \in LeakActivation : n.step \notin {"count", "tpcount"} /\ Becomes(t, n)
    BY DEF Moves, Becomes
  <1>2. Cardinality(Uncounted(a)') = Cardinality(Uncounted(a))
    BY <1>1, OwedSets, OneThreadMoves
  <1>3. Cardinality(UncountedThirdParty(a)') = Cardinality(UncountedThirdParty(a))
    BY <1>1, OwedSets, OneThreadMoves
  <1>4. /\ leakCount'[a] = leakCount[a] /\ tpLeakCount'[a] = tpLeakCount[a]
        /\ leakRows'[a] = leakRows[a] /\ tpLeakRows'[a] = tpLeakRows[a]
    BY DEF Moves, leakTables
  <1> QED
    BY <1>2, <1>3, <1>4 DEF Exact

LEMMA InsertLeakKeepsExact ==
  ASSUME DBTypeOK, NEW t \in Thread, InsertLeak(t), NEW a \in Address, Exact(a)
  PROVE  Exact(a)'
  <1> DEFINE l == leak[t]
             n == [l EXCEPT !.step = "count"]
  <1>1. /\ l \in LeakActivation /\ l.step = "insert" /\ Becomes(t, n)
        /\ l.recipient \in Address
    <2>1. l \in LeakActivation /\ l.step = "insert" /\ Becomes(t, n)
      BY DEF DBTypeOK, InsertLeak, Becomes
    <2> QED
      BY <2>1 DEF LeakActivation, Idle, Failed
  <1>2. n.step = "count" /\ n.recipient = l.recipient /\ (ThirdParty(n) <=> ThirdParty(l))
    BY <1>1, NextStep
  <1> HIDE DEF n
  <1>3. /\ Cardinality(Uncounted(a)) \in Nat
        /\ Cardinality(Uncounted(a)') =
             Cardinality(Uncounted(a)) + (IF l.recipient = a THEN 1 ELSE 0)
    BY <1>1, <1>2, OwedSets, OneThreadMoves
  <1>4. /\ Cardinality(UncountedThirdParty(a)) \in Nat
        /\ Cardinality(UncountedThirdParty(a)') = Cardinality(UncountedThirdParty(a)) +
             (IF l.recipient = a /\ ThirdParty(l) THEN 1 ELSE 0)
    BY <1>1, <1>2, OwedSets, OneThreadMoves
  <1>5. /\ leakCount'[a] = leakCount[a] /\ tpLeakCount'[a] = tpLeakCount[a]
        /\ leakRows'[a] = leakRows[a] + (IF l.recipient = a THEN 1 ELSE 0)
        /\ tpLeakRows'[a] = tpLeakRows[a] +
             (IF l.recipient = a /\ ThirdParty(l) THEN 1 ELSE 0)
        /\ leakCount[a] \in Nat /\ tpLeakCount[a] \in Nat
        /\ leakRows[a] \in Nat /\ tpLeakRows[a] \in Nat
    BY <1>1 DEF InsertLeak, DBTypeOK
  <1> QED
    BY <1>3, <1>4, <1>5 DEF Exact

LEMMA CountLeakKeepsExact ==
  ASSUME DBTypeOK, NEW t \in Thread, CountLeak(t), NEW a \in Address, Exact(a)
  PROVE  Exact(a)'
  <1> DEFINE l == leak[t]
             n == IF ThirdParty(l) THEN [l EXCEPT !.step = "tpcount"]
                  ELSE NextEncoding(l)
  <1>1. /\ l \in LeakActivation /\ l.step = "count" /\ Becomes(t, n)
        /\ l.recipient \in Address
    BY DEF DBTypeOK, CountLeak, Becomes, LeakActivation, Idle, Failed
  <1>2. /\ ThirdParty(l) => /\ n.step = "tpcount" /\ n.recipient = l.recipient
                            /\ ThirdParty(n)
        /\ ~ThirdParty(l) => n.step \notin {"count", "tpcount"}
    BY <1>1, NextStep, NextEncodingStep
  <1> HIDE DEF n
  <1>3. /\ Cardinality(Uncounted(a)') \in Nat
        /\ Cardinality(Uncounted(a)) =
             Cardinality(Uncounted(a)') + (IF l.recipient = a THEN 1 ELSE 0)
    BY <1>1, <1>2, OwedSets, OneThreadMoves
  <1>4. /\ Cardinality(UncountedThirdParty(a)) \in Nat
        /\ Cardinality(UncountedThirdParty(a)') = Cardinality(UncountedThirdParty(a))
    BY <1>1, <1>2, OwedSets, OneThreadMoves
  <1>5. /\ leakCount'[a] = leakCount[a] + (IF l.recipient = a THEN 1 ELSE 0)
        /\ tpLeakCount'[a] = tpLeakCount[a]
        /\ leakRows'[a] = leakRows[a] /\ tpLeakRows'[a] = tpLeakRows[a]
        /\ leakCount[a] \in Nat /\ tpLeakCount[a] \in Nat
    BY <1>1 DEF CountLeak, DBTypeOK
  <1> QED
    BY <1>3, <1>4, <1>5 DEF Exact

LEMMA CountThirdPartyKeepsExact ==
  ASSUME DBTypeOK, NEW t \in Thread, CountThirdParty(t), ThirdParty(leak[t]),
         NEW a \in Address, Exact(a)
  PROVE  Exact(a)'
  <1> DEFINE l == leak[t]
             n == NextEncoding(l)
  <1>1. /\ l \in LeakActivation /\ l.step = "tpcount" /\ Becomes(t, n)
        /\ l.recipient \in Address
    BY DEF DBTypeOK, CountThirdParty, Becomes, LeakActivation, Idle, Failed
  <1>2. n.step \notin {"count", "tpcount"}
    BY <1>1, NextEncodingStep
  <1> HIDE DEF n
  <1>3. Cardinality(Uncounted(a)') = Cardinality(Uncounted(a))
    BY <1>1, <1>2, OwedSets, OneThreadMoves
  <1>4. /\ Cardinality(UncountedThirdParty(a)') \in Nat
        /\ Cardinality(UncountedThirdParty(a)) = Cardinality(UncountedThirdParty(a)') +
             (IF l.recipient = a THEN 1 ELSE 0)
    BY <1>1, <1>2, OwedSets, OneThreadMoves
  <1>5. /\ leakCount'[a] = leakCount[a]
        /\ tpLeakCount'[a] = tpLeakCount[a] + (IF l.recipient = a THEN 1 ELSE 0)
        /\ leakRows'[a] = leakRows[a] /\ tpLeakRows'[a] = tpLeakRows[a]
        /\ leakCount[a] \in Nat /\ tpLeakCount[a] \in Nat
    BY <1>1 DEF CountThirdParty, DBTypeOK
  <1> QED
    BY <1>3, <1>4, <1>5 DEF Exact

LEMMA ExactStep ==
  ASSUME Works({"leaked_emails"}), Works({"counters"}), TypeOK, TpCountIsThirdParty,
         \A s \in Thread : Quiet(s), [Next]_vars, faults' = 0, crashes' = 0,
         NEW a \in Address, Exact(a)
  PROVE  Exact(a)'
  <1>1. DBTypeOK /\ ~Crash /\ faults = 0
    BY FaultsGrow DEF TypeOK
  <1>2. CASE UNCHANGED leakVars
    BY <1>2 DEF leakVars, Exact, Uncounted, UncountedThirdParty, ThirdParty
  <1>3. ASSUME NEW t \in Thread, RecordLeak(t) PROVE Exact(a)'
    <2>1. ~LeakThrows(t)
      BY <1>1 DEF LeakThrows, Throws
    <2>2. CASE ScanURL(t)
      <3>1. Moves(t) /\ leak[t].step = "url"
        BY <1>1, <1>3, <2>2, ScanOrThrowMoves DEF ScanURL
      <3> QED
        BY <1>1, <3>1, MovesKeepsExact
    <2>3. CASE CountThirdParty(t)
      <3>1. ThirdParty(leak[t])
        BY <2>3 DEF CountThirdParty, TpCountIsThirdParty
      <3> QED
        BY <1>1, <2>3, <3>1, CountThirdPartyKeepsExact
    <2> QED
      BY <1>1, <1>3, <2>1, <2>2, <2>3, InsertLeakKeepsExact, CountLeakKeepsExact
         DEF RecordLeak
  <1>4. ASSUME NEW t \in Thread, Moves(t), ~RecordLeak(t) PROVE Exact(a)'
    <2>1. CASE leak'[t] = leak[t]
      <3>1. leak' = leak /\ UNCHANGED leakTables
        BY <1>1, <1>4, <2>1 DEF Moves, DBTypeOK
      <3> QED
        BY <1>2, <3>1 DEF leakVars, leakTables
    <2>2. CASE leak'[t] # leak[t]
      <3>1. leak[t].step \notin {"count", "tpcount"}
        BY <1>1, <1>4, <2>2, NothingDropped
      <3> QED
        BY <1>1, <1>4, <3>1, MovesKeepsExact
    <2> QED
      BY <2>1, <2>2
  <1> QED
    BY <1>1, <1>2, <1>3, <1>4, LeakEffect

(* While no statement or write has failed and the process has not crashed, *)
(* users.leak_count and users.tp_leak_count lack exactly the rows of       *)
(* leaked_emails that running threads have still to count, for any number  *)
(* of threads and addresses, on a database that has the table and the      *)
(* columns (MailDB.addLeakedEmailAddress; the shipped main.sql has not).   *)
THEOREM CountersExact ==
  ASSUME Works({"leaked_emails"}), Works({"counters"})
  PROVE  Spec => []LeakCountsExact
  <1> DEFINE AllQuiet == \A s \in Thread : Quiet(s)
  <1> HIDE DEF AllQuiet
  <1>1. Init => TpCountIsThirdParty /\ AllQuiet /\ LeakCountsExact
    <2> SUFFICES ASSUME Init PROVE TpCountIsThirdParty /\ AllQuiet /\ LeakCountsExact
      OBVIOUS
    <2>1. \A t \in Thread : leak[t] = Idle /\ leak[t].step = "idle"
      BY DEF Init, DBInit, Idle
    <2>2. \A a \in Address : Uncounted(a) = {} /\ UncountedThirdParty(a) = {}
      BY <2>1 DEF Uncounted, UncountedThirdParty
    <2>3. \A a \in Address : /\ leakCount[a] = 0 /\ tpLeakCount[a] = 0
                             /\ leakRows[a] = 0 /\ tpLeakRows[a] = 0
      BY DEF Init, DBInit
    <2> QED
      <3>1. TpCountIsThirdParty
        BY LeakInvInit
      <3>2. AllQuiet
        BY <2>1 DEF AllQuiet, Quiet
      <3>3. Cardinality({}) = 0
        BY FS_EmptySet
      <3>4. LeakCountsExact
        BY <2>2, <2>3, <3>3 DEF LeakCountsExact
      <3> QED
        BY <3>1, <3>2, <3>4
  <1>2. TypeOK /\ LeakCountsCovered /\ TpCountIsThirdParty /\ AllQuiet /\ LeakCountsExact
          /\ [Next]_vars => AllQuiet' /\ LeakCountsExact'
    <2> SUFFICES ASSUME TypeOK, LeakCountsCovered, TpCountIsThirdParty, AllQuiet,
                        LeakCountsExact, [Next]_vars
                 PROVE  AllQuiet' /\ LeakCountsExact'
      OBVIOUS
    <2>1. AllQuiet'
      BY QuietStep DEF AllQuiet
    <2>2. ASSUME faults' = 0, crashes' = 0, NEW a \in Address PROVE Exact(a)'
      <3>1. Exact(a)
        BY <2>2, FaultsGrow DEF LeakCountsExact, Exact
      <3> QED
        BY <2>2, <3>1, ExactStep, Works({"leaked_emails"}), Works({"counters"})
           DEF AllQuiet
    <2> QED
      BY <2>1, <2>2 DEF LeakCountsExact, Exact
  <1>3. TypeOK /\ LeakCountsCovered /\ TpCountIsThirdParty /\ [Next]_vars
          => LeakCountsCovered' /\ TpCountIsThirdParty'
    BY LeakInvStep DEF LeakInv
  <1>4. Init => LeakCountsCovered
    BY LeakInvInit
  <1> QED
    BY <1>1, <1>2, <1>3, <1>4, TypeCorrect, PTL DEF Spec

-----------------------------------------------------------------------------
(* First mails.  A session acts on the count of received mails that        *)
(* handleMessage read, however old it is.                                  *)

(* Where a session has not read its user.                                  *)
Unread == {"idle", "accept", "handle"}

(* What a session has read is at most what is counted now, and only one    *)
(* that read 0 comes to the confirmation.                                  *)
ReadBefore(s) ==
  s.pc \notin Unread =>
    /\ s.user.received <= emailsReceived[s.mail.to]
    /\ s.pc = "confirm" => s.user.received = 0

SnapshotsOld == \A t \in SmtpThread : ReadBefore(smtp[t])

(* A step of a session: it begins or ends, reads its user, or goes on with *)
(* the user it has read.                                                   *)
BeginsOrEnds(n) == n.pc \in Unread
Reads(s, n) ==
  /\ s.pc = "handle" /\ s.mail \in Mail
  /\ n.pc = "isdir" /\ n.mail = s.mail /\ n.user.received = emailsReceived[s.mail.to]
GoesOn(s, n) ==
  /\ s.pc \notin Unread /\ n.pc \notin Unread /\ n.mail = s.mail /\ n.user = s.user
  /\ n.pc = "confirm" => s.user.received = 0
ReadsOnce(t) ==
  \E n : SessionBecomes(t, n) /\ (BeginsOrEnds(n) \/ Reads(smtp[t], n) \/ GoesOn(smtp[t], n))

LEMMA GotoGoesOn ==
  ASSUME TypeOK, NEW t \in SmtpThread, smtp[t].pc \notin Unread, NEW l, l \notin Unread,
         Goto(t, l), l = "confirm" => smtp[t].user.received = 0
  PROVE  ReadsOnce(t)
  <1> DEFINE n == [smtp[t] EXCEPT !.pc = l]
  <1>1. smtp[t] \in Session
    BY DEF TypeOK, DeliveryTypeOK
  <1>2. n.pc = l /\ n.mail = smtp[t].mail /\ n.user = smtp[t].user
    BY <1>1 DEF Session, NotRunning, Unread
  <1>3. SessionBecomes(t, n)
    BY DEF Goto, SessionBecomes
  <1> HIDE DEF n
  <1> QED
    BY <1>2, <1>3 DEF ReadsOnce, GoesOn

LEMMA FinishEnds ==
  ASSUME NEW t \in SmtpThread, NEW answer, Finish(t, answer)
  PROVE  ReadsOnce(t)
  <1>1. SessionBecomes(t, NotRunning) /\ NotRunning.pc = "idle"
    BY DEF Finish, SessionBecomes, NotRunning
  <1> QED
    BY <1>1 DEF ReadsOnce, BeginsOrEnds, Unread

LEMMA WriteToGoesOn ==
  ASSUME NEW t \in SmtpThread, smtp[t].pc \notin Unread, NEW dir, WriteTo(t, dir)
  PROVE  ReadsOnce(t)
  <1> DEFINE n == [pc |-> "write", mail |-> smtp[t].mail, user |-> smtp[t].user,
                   dir |-> dir]
  <1>1. SessionBecomes(t, n)
    BY DEF WriteTo, SessionBecomes
  <1>2. n.pc = "write" /\ n.mail = smtp[t].mail /\ n.user = smtp[t].user
    OBVIOUS
  <1> HIDE DEF n
  <1> QED
    BY <1>1, <1>2 DEF ReadsOnce, GoesOn, Unread

(* Every step of a session is such a step, or one of its search for leaks. *)
LEMMA StorageReadsOnce ==
  ASSUME TypeOK, NEW t \in SmtpThread,
         StorageStep(t) \/ \E m \in Mail : Connect(t, m)
  PROVE  ReadsOnce(t)
  <1>1. smtp[t] \in Session
    BY DEF TypeOK, DeliveryTypeOK
  <1>2. ASSUME NEW m \in Mail, Connect(t, m) PROVE ReadsOnce(t)
    <2> DEFINE n == [pc |-> "accept", mail |-> m]
    <2>1. SessionBecomes(t, n) /\ n.pc = "accept"
      BY <1>2 DEF Connect, SessionBecomes
    <2> HIDE DEF n
    <2> QED
      BY <2>1 DEF ReadsOnce, BeginsOrEnds, Unread
  <1>3. CASE Accept(t)
    <2>1. ASSUME Continues(t, {"handle"}) PROVE ReadsOnce(t)
      BY <2>1 DEF Continues, SessionBecomes, ReadsOnce, BeginsOrEnds, Unread
    <2> QED
      BY <1>3, <2>1, AcceptEffect, FinishEnds
  <1>4. CASE HandleMessage(t)
    <2> DEFINE n == [pc |-> "isdir", mail |-> smtp[t].mail,
                     user |-> UserInfo(smtp[t].mail.to)]
    <2>1. smtp' = [smtp EXCEPT ![t] = n] \/ Finish(t, "acked")
      BY <1>4 DEF HandleMessage, Return
    <2>2. smtp[t].pc = "handle" /\ smtp[t].mail \in Mail
      BY <1>1, <1>4, SessionFields DEF HandleMessage
    <2>3. /\ n.pc = "isdir" /\ n.mail = smtp[t].mail
          /\ n.user.received = emailsReceived[smtp[t].mail.to]
      BY DEF UserInfo
    <2> HIDE DEF n
    <2>4. smtp' = [smtp EXCEPT ![t] = n] => ReadsOnce(t)
      BY <2>2, <2>3 DEF ReadsOnce, Reads, SessionBecomes
    <2> QED
      BY <2>1, <2>4, FinishEnds
  <1>5. CASE IsDirectory(t) \/ Mkdirs(t)
    <2>1. smtp[t].pc \in {"isdir", "mkdirs"}
      BY <1>5 DEF IsDirectory, Mkdirs
    <2>2. Goto(t, "mkdirs") \/ \E dir : WriteTo(t, dir)
      BY <1>5 DEF IsDirectory, Mkdirs
    <2> QED
      BY <2>1, <2>2, GotoGoesOn, WriteToGoesOn DEF Unread
  <1>6. CASE WriteFile(t)
    <2> DEFINE n == [pc |-> "insert", mail |-> smtp[t].mail, user |-> smtp[t].user,
                     name |-> now]
    <2>1. SessionBecomes(t, n) /\ smtp[t].pc = "write"
      BY <1>6 DEF WriteFile, SessionBecomes
    <2>2. n.pc = "insert" /\ n.mail = smtp[t].mail /\ n.user = smtp[t].user
      OBVIOUS
    <2> HIDE DEF n
    <2> QED
      BY <2>1, <2>2 DEF ReadsOnce, GoesOn, Unread
  <1>7. CASE InsertMailEntry(t) \/ UpdateReceived(t)
    <2>1. smtp[t].pc \in {"insert", "count"}
      BY <1>7 DEF InsertMailEntry, UpdateReceived
    <2>2. Goto(t, "count") \/ Goto(t, "analyze")
      BY <1>7 DEF InsertMailEntry, UpdateReceived
    <2> QED
      BY <2>1, <2>2, GotoGoesOn DEF Unread
  <1> QED
    BY <1>2, <1>3, <1>4, <1>5, <1>6, <1>7 DEF StorageStep

LEMMA AnalysisReadsOnce ==
  ASSUME TypeOK, SnapshotsOld, NEW t \in SmtpThread,
         \/ Analyze(t) \/ RecordConfirmation(t) \/ ChooseImages(t) \/ ScheduleImage(t)
         \/ RecordLinksToVisit(t)
  PROVE  ReadsOnce(t)
  <1>1. smtp[t] \in Session
    BY DEF TypeOK, DeliveryTypeOK
  <1>2. CASE Analyze(t) \/ RecordConfirmation(t)
    <2>1. smtp[t].pc \in {"analyze", "confirm"}
      BY <1>2 DEF Analyze, RecordConfirmation
    <2>2. \/ \E answer : Finish(t, answer)
          \/ Goto(t, "leaks")
          \/ Goto(t, "confirm") /\ smtp[t].user.received = 0
      BY <1>2 DEF Analyze, RecordConfirmation, AnalyzeLinks, Return, FirstMail
    <2> QED
      BY <2>1, <2>2, GotoGoesOn, FinishEnds DEF Unread
  <1>3. CASE ChooseImages(t)
    <2>1. smtp[t].pc = "leaks"
      BY <1>3 DEF ChooseImages
    <2>2. PICK o : smtp' = [smtp EXCEPT ![t] =
                     [pc |-> "images", mail |-> smtp[t].mail, user |-> smtp[t].user,
                      images |-> smtp[t].mail.pixels \cup o]]
      BY <1>3 DEF ChooseImages
    <2> DEFINE n == [pc |-> "images", mail |-> smtp[t].mail, user |-> smtp[t].user,
                     images |-> smtp[t].mail.pixels \cup o]
    <2>3. SessionBecomes(t, n)
      BY <2>2 DEF SessionBecomes
    <2>4. n.pc = "images" /\ n.mail = smtp[t].mail /\ n.user = smtp[t].user
      OBVIOUS
    <2> HIDE DEF n
    <2> QED
      BY <2>1, <2>3, <2>4 DEF ReadsOnce, GoesOn, Unread
  <1>4. CASE ScheduleImage(t)
    <2>1. smtp[t].pc = "images"
      BY <1>4 DEF ScheduleImage
    <2>2. PICK u : smtp' = [smtp EXCEPT ![t] =
                     [smtp[t] EXCEPT !.images = smtp[t].images \ {u}]]
      BY <1>4 DEF ScheduleImage
    <2> DEFINE n == [smtp[t] EXCEPT !.images = smtp[t].images \ {u}]
    <2>3. n.pc = "images" /\ n.mail = smtp[t].mail /\ n.user = smtp[t].user
      BY <1>1, <2>1 DEF Session, NotRunning
    <2>4. SessionBecomes(t, n)
      BY <2>2 DEF SessionBecomes
    <2> HIDE DEF n
    <2> QED
      BY <2>1, <2>3, <2>4 DEF ReadsOnce, GoesOn, Unread
  <1>5. CASE RecordLinksToVisit(t)
    BY <1>5, FinishEnds DEF RecordLinksToVisit, Return
  <1> QED
    BY <1>2, <1>3, <1>4, <1>5

LEMMA SessionsEffect ==
  ASSUME TypeOK, SnapshotsOld, [Next]_vars
  PROVE  UNCHANGED smtp \/ (\E t \in SmtpThread : ReadsOnce(t)) \/ Crash
  <1>1. ASSUME NEW t \in SmtpThread, SmtpStep(t)
        PROVE  UNCHANGED smtp \/ ReadsOnce(t)
    <2>1. CASE RecordMailLeak(t)
      BY <2>1 DEF RecordMailLeak, deliveryVars
    <2> QED
      BY <1>1, <2>1, StorageReadsOnce, AnalysisReadsOnce DEF SmtpStep, StorageStep
  <1>2. ASSUME NEW p \in PoolThread, PoolStep(p) PROVE UNCHANGED smtp
    BY <1>2 DEF PoolStep, TakeTask, Go, EnterAddRedirects, InsertRedirect,
                RedirectThrows, TaskDone, RecordImageLeak, deliveryVars
  <1>3. ASSUME NEW t \in SmtpThread, NEW m \in Mail, Connect(t, m) PROVE ReadsOnce(t)
    BY <1>3, StorageReadsOnce
  <1>4. Tick \/ UNCHANGED deliveryVars \/ UNCHANGED vars => UNCHANGED smtp
    BY DEF Tick, deliveryVars, vars
  <1> QED
    BY <1>1, <1>2, <1>3, <1>4 DEF Next, DeliveryNext

(* The counter grows with the mail of a session between its row and the    *)
(* count only.                                                             *)
LEMMA ReceivedGrows ==
  ASSUME TypeOK, [Next]_vars, NEW a \in Address
  PROVE  /\ emailsReceived[a] \in Nat /\ emailsReceived'[a] \in Nat
         /\ emailsReceived'[a] >= emailsReceived[a]
         /\ \/ emailsReceived'[a] = emailsReceived[a]
            \/ \E t \in SmtpThread : smtp[t].pc = "count" /\ smtp[t].mail.to = a
  <1>1. emailsReceived \in [Address -> Nat]
    BY DEF TypeOK, DBTypeOK
  <1>2. ASSUME NEW t \in SmtpThread, CountEmail(smtp[t].mail.to)
        PROVE  /\ emailsReceived'[a] \in Nat /\ emailsReceived'[a] >= emailsReceived[a]
               /\ emailsReceived'[a] = emailsReceived[a] \/ smtp[t].mail.to = a
    BY <1>1, <1>2 DEF CountEmail
  <1>3. ASSUME NEW t \in SmtpThread, InsertMailEntry(t)
        PROVE  UNCHANGED emailsReceived
    BY <1>3, InsertMailEntryEffect
  <1>4. ASSUME NEW t \in SmtpThread, UpdateReceived(t)
        PROVE  /\ smtp[t].pc = "count"
               /\ CountEmail(smtp[t].mail.to) \/ UNCHANGED emailsReceived
    BY <1>4, UpdateReceivedEffect
  <1> QED
    BY <1>1, <1>2, <1>3, <1>4, RowsAndCountKept

LEMMA SnapshotsOldStep ==
  ASSUME TypeOK, SnapshotsOld, [Next]_vars
  PROVE  SnapshotsOld'
  <1>1. smtp \in [SmtpThread -> Session]
    BY DEF TypeOK, DeliveryTypeOK
  <1>2. ASSUME NEW t \in SmtpThread, smtp[t].pc \notin Unread
        PROVE  smtp[t].mail.to \in Address /\ smtp[t].user.received \in Nat
    <2>1. smtp[t] \in Session
      BY <1>1
    <2>2. smtp[t].mail \in Mail /\ smtp[t].user \in Snapshot
      BY <1>2, <2>1 DEF Session, NotRunning, Unread
    <2> QED
      BY <2>2, MailType DEF Snapshot
  <1>3. ASSUME NEW s \in SmtpThread, smtp[s].pc \notin Unread, NEW n, n.pc \notin Unread,
               n.mail = smtp[s].mail, n.user = smtp[s].user,
               n.pc = "confirm" => smtp[s].user.received = 0
        PROVE  ReadBefore(n)'
    <2>1. smtp[s].user.received <= emailsReceived[smtp[s].mail.to]
      BY <1>3 DEF SnapshotsOld, ReadBefore
    <2>2. smtp[s].user.received <= emailsReceived'[smtp[s].mail.to]
      BY <1>2, <1>3, <2>1, ReceivedGrows
    <2> QED
      BY <1>3, <2>2 DEF ReadBefore
  <1>4. ASSUME NEW s \in SmtpThread PROVE ReadBefore(smtp[s])'
    <2>1. ASSUME smtp'[s] = smtp[s] PROVE ReadBefore(smtp[s])'
      <3>1. CASE smtp[s].pc \in Unread
        BY <2>1, <3>1 DEF ReadBefore
      <3>2. CASE smtp[s].pc \notin Unread
        <4>1. smtp[s].pc = "confirm" => smtp[s].user.received = 0
          BY <3>2 DEF SnapshotsOld, ReadBefore
        <4>2. smtp'[s].user.received <= emailsReceived'[smtp'[s].mail.to]
          <5>1. smtp[s].user.received <= emailsReceived[smtp[s].mail.to]
            BY <3>2 DEF SnapshotsOld, ReadBefore
          <5> QED
            BY <1>2, <2>1, <3>2, <5>1, ReceivedGrows
        <4> QED
          BY <2>1, <4>1, <4>2 DEF ReadBefore
      <3> QED
        BY <3>1, <3>2
    <2>2. ASSUME NEW t \in SmtpThread, ReadsOnce(t) PROVE ReadBefore(smtp[s])'
      <3>1. PICK n : /\ SessionBecomes(t, n)
                     /\ BeginsOrEnds(n) \/ Reads(smtp[t], n) \/ GoesOn(smtp[t], n)
        BY <2>2 DEF ReadsOnce
      <3>2. smtp'[s] = (IF s = t THEN n ELSE smtp[s])
        BY <1>1, <3>1 DEF SessionBecomes
      <3>3. ReadBefore(n)'
        <4>1. CASE BeginsOrEnds(n)
          BY <4>1 DEF BeginsOrEnds, ReadBefore
        <4>2. CASE Reads(smtp[t], n)
          <5>1. smtp[t].mail.to \in Address
            BY <4>2, MailType DEF Reads
          <5>2. n.user.received <= emailsReceived'[n.mail.to]
            BY <4>2, <5>1, ReceivedGrows DEF Reads
          <5> QED
            BY <4>2, <5>2 DEF Reads, ReadBefore
        <4>3. CASE GoesOn(smtp[t], n)
          BY <1>3, <4>3 DEF GoesOn
        <4> QED
          BY <3>1, <4>1, <4>2, <4>3
      <3>4. CASE s = t
        BY <3>2, <3>3, <3>4 DEF ReadBefore
      <3> QED
        BY <2>1, <3>2, <3>4
    <2>3. CASE Crash
      <3>1. smtp'[s].pc = "idle"
        BY <2>3 DEF Crash, NotRunning
      <3> QED
        BY <3>1 DEF ReadBefore, Unread
    <2> QED
      BY <2>1, <2>2, <2>3, SessionsEffect
  <1> QED
    BY <1>4 DEF SnapshotsOld

(* The groups a step may add: the confirmation of a session, or links to   *)
(* visit.                                                                  *)
Confirms(t, g) == /\ smtp[t].pc = "confirm"
                  /\ g.recipient = smtp[t].mail.to /\ g.urls = smtp[t].mail.confirm

LEMMA AddedGroups ==
  ASSUME TypeOK, [Next]_vars, NEW g \in linkGroups'
  PROVE  \/ g \in linkGroups
         \/ \E t \in SmtpThread : Confirms(t, g)
         \/ \E m \in Mail : g.urls = m.visit
  <1>1. UNCHANGED groupVars => g \in linkGroups
    BY DEF groupVars
  <1>2. ASSUME NEW t \in SmtpThread, RecordConfirmation(t), g \notin linkGroups
        PROVE  Confirms(t, g)
    <2> DEFINE new == [id |-> nextGroup, recipient |-> smtp[t].mail.to,
                       domain |-> smtp[t].user.domain, urls |-> smtp[t].mail.confirm]
    <2>1. linkGroups' = linkGroups \cup {new} \/ UNCHANGED groupVars
      BY <1>2 DEF RecordConfirmation, AddLinkGroup
    <2>2. new.recipient = smtp[t].mail.to /\ new.urls = smtp[t].mail.confirm
      OBVIOUS
    <2>3. smtp[t].pc = "confirm"
      BY <1>2 DEF RecordConfirmation
    <2> HIDE DEF new
    <2>4. g = new
      BY <1>1, <1>2, <2>1
    <2> QED
      BY <2>2, <2>3, <2>4 DEF Confirms
  <1>3. ASSUME NEW t \in SmtpThread, RecordLinksToVisit(t), g \notin linkGroups
        PROVE  \E m \in Mail : g.urls = m.visit
    <2> DEFINE new == [id |-> nextGroup, recipient |-> smtp[t].mail.to,
                       domain |-> smtp[t].user.domain, urls |-> smtp[t].mail.visit]
    <2>1. linkGroups' = linkGroups \cup {new} \/ UNCHANGED groupVars
      BY <1>3 DEF RecordLinksToVisit, AddLinkGroup, groupVars
    <2>2. new.urls = smtp[t].mail.visit
      OBVIOUS
    <2>3. smtp[t] \in Session /\ smtp[t].pc = "images"
      BY <1>3 DEF RecordLinksToVisit, TypeOK, DeliveryTypeOK
    <2> HIDE DEF new
    <2>4. g = new
      BY <1>1, <1>3, <2>1
    <2> QED
      BY <2>2, <2>3, <2>4, SessionFields
  <1>4. ASSUME NEW t, RecordLeak(t) PROVE UNCHANGED groupVars
    BY <1>4 DEF RecordLeak
  <1>5. ASSUME NEW t \in SmtpThread, SmtpStep(t), ~RecordConfirmation(t),
               ~RecordLinksToVisit(t)
        PROVE  UNCHANGED groupVars
    <2>1. CASE IsDirectory(t) \/ ChooseImages(t) \/ ScheduleImage(t)
      BY <2>1 DEF IsDirectory, ChooseImages, ScheduleImage, KeepDB, dbVars
    <2>2. CASE \/ Accept(t) \/ HandleMessage(t) \/ Mkdirs(t) \/ WriteFile(t)
               \/ InsertMailEntry(t) \/ UpdateReceived(t) \/ Analyze(t)
      BY <2>2 DEF Accept, HandleMessage, Mkdirs, WriteFile, InsertMailEntry,
                  UpdateReceived, Analyze
    <2> QED
      BY <1>4, <1>5, <2>1, <2>2 DEF SmtpStep, RecordMailLeak
  <1>6. ASSUME NEW p \in PoolThread, PoolStep(p) PROVE UNCHANGED groupVars
    <2>1. CASE TakeTask(p) \/ Go(p) \/ EnterAddRedirects(p) \/ TaskDone(p)
      BY <2>1 DEF TakeTask, Go, EnterAddRedirects, TaskDone, KeepDB, dbVars
    <2>2. CASE InsertRedirect(p) \/ RedirectThrows(p)
      BY <2>2 DEF InsertRedirect, RedirectThrows
    <2> QED
      BY <1>4, <1>6, <2>1, <2>2 DEF PoolStep, RecordImageLeak
  <1>7. CASE DeliveryNext
    BY <1>1, <1>2, <1>3, <1>5, <1>6, <1>7
       DEF DeliveryNext, Tick, Connect, KeepDB, dbVars
  <1>8. ASSUME NEW w \in WebThread, WebStep(w) \/ Client(w) PROVE g \in linkGroups
    <2>1. CASE RemoveGroup(w)
      BY <2>1 DEF RemoveGroup, RemoveLinkGroup
    <2>2. CASE \/ GenerateAddress(w) \/ LookUpGroup(w) \/ LookUpRecipient(w)
               \/ ResultsFailed(w) \/ RecordLinkLeak(w)
      BY <1>1, <1>4, <2>2 DEF GenerateAddress, LookUpGroup, LookUpRecipient,
                              ResultsFailed, RecordLinkLeak
    <2>3. CASE Client(w)
      BY <1>1, <2>3 DEF Client, PostRegister, GetVisit, PostResults, Begin, dbVars
    <2> QED
      BY <1>8, <2>1, <2>2, <2>3 DEF WebStep
  <1>9. CASE Crash \/ UNCHANGED vars
    BY <1>1, <1>9 DEF Crash, vars, dbVars
  <1> QED
    BY <1>7, <1>8, <1>9 DEF Next, WebNext

(* Sessions that read 0 do so while 0 is counted; a later step keeps what  *)
(* its session has read.                                                   *)
LEMMA FirstSessionsClosed ==
  ASSUME TypeOK, SnapshotsOld, [Next]_vars, NEW a \in Address, emailsReceived[a] # 0,
         NEW s \in FirstSessions(a)'
  PROVE  s \in FirstSessions(a) /\ smtp'[s].mail = smtp[s].mail
  <1>1. smtp \in [SmtpThread -> Session]
    BY DEF TypeOK, DeliveryTypeOK
  <1>2. /\ s \in SmtpThread /\ smtp'[s].pc \notin Unread
        /\ smtp'[s].mail.to = a /\ smtp'[s].user.received = 0
    BY DEF FirstSessions, Unread
  <1>3. CASE smtp'[s] = smtp[s]
    BY <1>2, <1>3 DEF FirstSessions, Unread
  <1>4. ASSUME NEW t \in SmtpThread, ReadsOnce(t), smtp'[s] # smtp[s]
        PROVE  s \in FirstSessions(a) /\ smtp'[s].mail = smtp[s].mail
    <2>1. PICK n : /\ SessionBecomes(t, n)
                   /\ BeginsOrEnds(n) \/ Reads(smtp[t], n) \/ GoesOn(smtp[t], n)
      BY <1>4 DEF ReadsOnce
    <2>2. s = t /\ smtp'[s] = n
      BY <1>1, <1>2, <1>4, <2>1 DEF SessionBecomes
    <2>3. GoesOn(smtp[t], n)
      BY <1>2, <2>1, <2>2 DEF BeginsOrEnds, Reads
    <2> QED
      BY <1>2, <2>2, <2>3 DEF GoesOn, FirstSessions, Unread
  <1>5. ~Crash
    BY <1>2 DEF Crash, NotRunning, Unread
  <1> QED
    BY <1>3, <1>4, <1>5, SessionsEffect

LEMMA FirstMailsStep ==
  ASSUME TypeOK, SnapshotsOld, [Next]_vars, NEW a \in Address
  PROVE  /\ emailsReceived[a] = 0 /\ emailsReceived'[a] # 0 => FirstSessions(a) # {}
         /\ emailsReceived[a] # 0 => FirstMails(a)' \subseteq FirstMails(a)
  <1>1. ASSUME emailsReceived[a] = 0, emailsReceived'[a] # 0
        PROVE  FirstSessions(a) # {}
    <2>1. PICK t \in SmtpThread : smtp[t].pc = "count" /\ smtp[t].mail.to = a
      BY <1>1, ReceivedGrows
    <2>2. smtp[t] \in Session
      BY DEF TypeOK, DeliveryTypeOK
    <2>3. smtp[t].user.received \in Nat
      BY <2>1, <2>2, NamedSessionFields DEF Snapshot
    <2>4. smtp[t].user.received <= 0
      BY <1>1, <2>1 DEF SnapshotsOld, ReadBefore, Unread
    <2>5. smtp[t].user.received = 0
      BY <2>3, <2>4
    <2> QED
      BY <2>1, <2>5 DEF FirstSessions
  <1>2. ASSUME emailsReceived[a] # 0, NEW c \in FirstMails(a)'
        PROVE  c \in FirstMails(a)
    <2>1. CASE \E s \in FirstSessions(a)' : c = smtp'[s].mail.confirm
      <3>1. PICK s \in FirstSessions(a)' : c = smtp'[s].mail.confirm
        BY <2>1
      <3>2. s \in FirstSessions(a) /\ c = smtp[s].mail.confirm
        BY <1>2, <3>1, FirstSessionsClosed
      <3> QED
        BY <3>2 DEF FirstMails
    <2>2. ASSUME NEW g \in linkGroups', g.recipient = a, c = g.urls,
                 c \in OnlyConfirmations
          PROVE  c \in FirstMails(a)
      <3>1. CASE g \in linkGroups
        BY <2>2, <3>1 DEF FirstMails
      <3>2. ASSUME NEW t \in SmtpThread, Confirms(t, g) PROVE c \in FirstMails(a)
        <4>1. t \in FirstSessions(a)
          BY <2>2, <3>2 DEF Confirms, SnapshotsOld, ReadBefore, FirstSessions, Unread
        <4> QED
          BY <2>2, <3>2, <4>1 DEF Confirms, FirstMails
      <3>3. \A m \in Mail : g.urls # m.visit
        BY <2>2 DEF OnlyConfirmations
      <3> QED
        BY <3>1, <3>2, <3>3, AddedGroups
    <2> QED
      BY <1>2, <2>1, <2>2 DEF FirstMails
  <1> QED
    BY <1>1, <1>2

(* What handleMessage read of emails_received may be stale when analyze    *)
(* asks "is this the first email?", and two mails may both be taken for the*)
(* first; but once a mail of the address is counted no later one is,       *)
(* whatever statements fail, sessions interleave or crashes hit, and the   *)
(* one that was counted first was taken for the first.                     *)
THEOREM FirstMailsTold == Spec => FirstMailsClosed
  <1>1. Init => SnapshotsOld
    BY DEF Init, DeliveryInit, NotRunning, SnapshotsOld, ReadBefore, Unread
  <1>2. TypeOK /\ SnapshotsOld /\ [Next]_vars => SnapshotsOld'
    BY SnapshotsOldStep
  <1>3. TypeOK /\ SnapshotsOld /\ [Next]_vars =>
          [\A a \in Address :
             /\ emailsReceived[a] = 0 /\ emailsReceived'[a] # 0 => FirstSessions(a) # {}
             /\ emailsReceived[a] # 0 => FirstMails(a)' \subseteq FirstMails(a)]_vars
    BY FirstMailsStep
  <1> QED
    BY <1>1, <1>2, <1>3, TypeCorrect, PTL DEF Spec, FirstMailsClosed

-----------------------------------------------------------------------------
(* The race to make a directory.  One session wins it, the others lose one *)
(* mail each to the root.                                                  *)

Raced(a) ==
  /\ IsFiniteSet(Misfiled(a))
  /\ Misfiled(a) # {} \/ Misfiling(a) # {} => a \in dirs
  /\ Cardinality(Misfiled(a)) + Cardinality(Misfiling(a)) < Cardinality(SmtpThread)

LEMMA MisfilingFinite ==
  ASSUME IsFiniteSet(SmtpThread), NEW S \in SUBSET SmtpThread
  PROVE  IsFiniteSet(S) /\ Cardinality(S) \in Nat /\ Cardinality(SmtpThread) \in Nat
  BY FS_Subset, FS_CardinalityType

LEMMA RacedShrinks ==
  ASSUME IsFiniteSet(SmtpThread), NEW a, Raced(a), dirs \subseteq dirs',
         Misfiled(a)' \subseteq Misfiled(a), Misfiling(a)' \subseteq Misfiling(a)
  PROVE  Raced(a)'
  <1>1. Misfiling(a) \subseteq SmtpThread
    BY DEF Misfiling
  <1>2. IsFiniteSet(Misfiled(a)) /\ IsFiniteSet(Misfiling(a))
    BY <1>1, MisfilingFinite DEF Raced
  <1>3. /\ IsFiniteSet(Misfiled(a)') /\ Cardinality(Misfiled(a)') <= Cardinality(Misfiled(a))
        /\ Cardinality(Misfiling(a)') <= Cardinality(Misfiling(a))
        /\ IsFiniteSet(Misfiling(a)')
    BY <1>2, FS_Subset
  <1>4. /\ Cardinality(Misfiled(a)) \in Nat /\ Cardinality(Misfiled(a)') \in Nat
        /\ Cardinality(Misfiling(a)) \in Nat /\ Cardinality(Misfiling(a)') \in Nat
        /\ Cardinality(SmtpThread) \in Nat
    BY <1>2, <1>3, FS_CardinalityType
  <1>5. Cardinality(Misfiled(a)') + Cardinality(Misfiling(a)') < Cardinality(SmtpThread)
    BY <1>3, <1>4 DEF Raced
  <1>6. Misfiled(a)' # {} \/ Misfiling(a)' # {} => a \in dirs'
    BY DEF Raced
  <1> QED
    BY <1>3, <1>5, <1>6 DEF Raced

(* A session in state n is about to put a mail for a in the root.          *)
MisfilesFor(a, n) ==
  \/ n.pc = "mkdirs" /\ n.mail.to = a /\ a \in dirs
  \/ n.pc = "write" /\ n.mail.to = a /\ n.dir = Root

LEMMA SessionKeepsRace ==
  ASSUME TypeOK, NEW t \in SmtpThread, NEW n, SessionBecomes(t, n), UNCHANGED dirs,
         NEW a, MisfilesFor(a, n) => MisfilesFor(a, smtp[t])
  PROVE  Misfiling(a)' \subseteq Misfiling(a)
  <1>1. smtp \in [SmtpThread -> Session]
    BY DEF TypeOK, DeliveryTypeOK
  <1>2. \A s \in SmtpThread : smtp'[s] = (IF s = t THEN n ELSE smtp[s])
    BY <1>1 DEF SessionBecomes
  <1>3. ASSUME NEW s \in Misfiling(a)' PROVE s \in Misfiling(a)
    <2>1. s \in SmtpThread /\ MisfilesFor(a, smtp'[s])
      BY <1>3 DEF Misfiling, MisfilesFor
    <2>2. MisfilesFor(a, smtp[s])
      BY <1>2, <2>1
    <2> QED
      BY <2>1, <2>2 DEF Misfiling, MisfilesFor
  <1> QED
    BY <1>3

(* Whatever is not a part of store leaves the race alone.                  *)
LEMMA ElsewhereKeepsRace ==
  ASSUME TypeOK, [Next]_vars, NEW a,
         \A t \in SmtpThread : ~(IsDirectory(t) \/ Mkdirs(t) \/ WriteFile(t))
  PROVE  UNCHANGED <<dirs, files>> /\ Misfiling(a)' \subseteq Misfiling(a)
  <1>1. ASSUME NEW t \in SmtpThread, NEW n, SessionBecomes(t, n), UNCHANGED dirs,
               n.pc \notin {"mkdirs", "write"}
        PROVE  Misfiling(a)' \subseteq Misfiling(a)
    BY <1>1, SessionKeepsRace DEF MisfilesFor
  <1>2. ASSUME NEW t \in SmtpThread, NEW pcs, Continues(t, pcs), UNCHANGED dirs,
               "write" \notin pcs, "mkdirs" \notin pcs
        PROVE  Misfiling(a)' \subseteq Misfiling(a)
    BY <1>1, <1>2 DEF Continues, SessionBecomes
  <1>3. ASSUME NEW t \in SmtpThread, NEW answer, Finish(t, answer), UNCHANGED dirs
        PROVE  Misfiling(a)' \subseteq Misfiling(a)
    <2>1. SessionBecomes(t, NotRunning) /\ NotRunning.pc = "idle"
      BY <1>3 DEF Finish, SessionBecomes, NotRunning
    <2> HIDE DEF NotRunning
    <2> QED
      BY <1>1, <1>3, <2>1
  <1>4. ASSUME UNCHANGED smtp, UNCHANGED dirs PROVE Misfiling(a)' \subseteq Misfiling(a)
    BY <1>4 DEF Misfiling
  <1>5. ASSUME NEW t \in SmtpThread, SmtpStep(t)
        PROVE  UNCHANGED <<dirs, files>> /\ Misfiling(a)' \subseteq Misfiling(a)
    <2>1. CASE RecordMailLeak(t)
      BY <1>4, <2>1 DEF RecordMailLeak, deliveryVars, diskVars
    <2>2. CASE Accept(t) \/ HandleMessage(t) \/ InsertMailEntry(t) \/ UpdateReceived(t)
      <3>1. UNCHANGED <<dirs, files>>
        BY <2>2 DEF Accept, HandleMessage, InsertMailEntry, UpdateReceived, KeepDisk,
                    diskVars
      <3> QED
        BY <1>2, <1>3, <2>2, <3>1, AcceptEffect, HandleMessageEffect,
           InsertMailEntryEffect, UpdateReceivedEffect DEF Return
    <2>3. CASE \/ Analyze(t) \/ RecordConfirmation(t) \/ ChooseImages(t)
               \/ ScheduleImage(t) \/ RecordLinksToVisit(t)
      <3>1. UNCHANGED <<dirs, files>>
        BY <2>3 DEF Analyze, RecordConfirmation, ChooseImages, ScheduleImage,
                    RecordLinksToVisit, KeepDisk, diskVars
      <3>2. AnalysisStep(t)
        BY <2>3, AnalysisEffect
      <3>3. Continues(t, Analysis) \/ \E answer : Finish(t, answer)
        BY <3>2 DEF AnalysisStep, Continues
      <3> QED
        BY <1>2, <1>3, <3>1, <3>3 DEF Analysis
    <2> QED
      BY <1>5, <2>1, <2>2, <2>3 DEF SmtpStep
  <1>6. ASSUME NEW t \in SmtpThread, NEW m \in Mail, Connect(t, m)
        PROVE  UNCHANGED <<dirs, files>> /\ Misfiling(a)' \subseteq Misfiling(a)
    <2> DEFINE n == [pc |-> "accept", mail |-> m]
    <2>1. SessionBecomes(t, n) /\ n.pc = "accept" /\ UNCHANGED <<dirs, files>>
      BY <1>6 DEF Connect, SessionBecomes, KeepDisk, diskVars
    <2> HIDE DEF n
    <2> QED
      BY <1>1, <2>1
  <1>7. ASSUME NEW p \in PoolThread, PoolStep(p)
        PROVE  UNCHANGED <<dirs, files>> /\ UNCHANGED smtp
    BY <1>7 DEF PoolStep, TakeTask, Go, EnterAddRedirects, InsertRedirect, RedirectThrows,
                TaskDone, RecordImageLeak, KeepDisk, deliveryVars, diskVars
  <1>8. Tick \/ UNCHANGED vars \/ UNCHANGED deliveryVars
          => UNCHANGED <<dirs, files>> /\ UNCHANGED smtp
    BY DEF Tick, KeepDisk, vars, deliveryVars, diskVars
  <1>9. CASE Crash
    <2>1. UNCHANGED <<dirs, files>> /\ \A s \in SmtpThread : smtp'[s].pc = "idle"
      BY <1>9 DEF Crash, diskVars, NotRunning
    <2> QED
      BY <2>1 DEF Misfiling
  <1> QED
    BY <1>4, <1>5, <1>6, <1>7, <1>8, <1>9 DEF Next, DeliveryNext

LEMMA DirectoryRace ==
  ASSUME TypeOK, IsFiniteSet(SmtpThread), UNCHANGED faults, NEW a \in Address, Raced(a),
         NEW t \in SmtpThread, IsDirectory(t) \/ Mkdirs(t)
  PROVE  Raced(a)'
  <1>1. smtp \in [SmtpThread -> Session] /\ faults \in Nat
    BY MailDBAssumption DEF TypeOK, DeliveryTypeOK, DBTypeOK
  <1>2. smtp[t] \in Session /\ smtp[t].pc \in {"isdir", "mkdirs"} /\ UNCHANGED files
    BY <1>1 DEF IsDirectory, Mkdirs, KeepDisk, diskVars
  <1>3. UNCHANGED files => Misfiled(a)' = Misfiled(a)
    BY DEF Misfiled
  <1>4. smtp[t].mail \in Mail /\ smtp[t].mail.to \in Address /\ Root \notin Address
    BY <1>2, SessionFields, MailType, MailDeliveryAssumption
  <1>5. ASSUME NEW n, SessionBecomes(t, n), UNCHANGED dirs,
               MisfilesFor(a, n) => MisfilesFor(a, smtp[t])
        PROVE  Raced(a)'
    <2>1. Misfiling(a)' \subseteq Misfiling(a)
      BY <1>5, SessionKeepsRace
    <2> QED
      BY <1>2, <1>3, <1>5, <2>1, RacedShrinks
  <1>6. CASE Goto(t, "mkdirs") /\ smtp[t].mail.to \notin dirs /\ UNCHANGED dirs
    <2> DEFINE n == [smtp[t] EXCEPT !.pc = "mkdirs"]
    <2>1. n.pc = "mkdirs" /\ n.mail = smtp[t].mail
      BY <1>2 DEF Session, NotRunning
    <2>2. SessionBecomes(t, n)
      BY <1>6 DEF Goto, SessionBecomes
    <2> HIDE DEF n
    <2> QED
      BY <1>5, <1>6, <2>1, <2>2 DEF MisfilesFor
  <1>7. ASSUME NEW dir, WriteTo(t, dir)
        PROVE  \E n : /\ SessionBecomes(t, n) /\ n.pc = "write" /\ n.dir = dir
                      /\ n.mail = smtp[t].mail
    <2> DEFINE n == [pc |-> "write", mail |-> smtp[t].mail, user |-> smtp[t].user,
                     dir |-> dir]
    <2>1. SessionBecomes(t, n)
      BY <1>7 DEF WriteTo, SessionBecomes
    <2>2. n.pc = "write" /\ n.dir = dir /\ n.mail = smtp[t].mail
      OBVIOUS
    <2> QED
      BY <2>1, <2>2
  <1>8. CASE WriteTo(t, smtp[t].mail.to) /\ UNCHANGED dirs
    <2>1. PICK n : /\ SessionBecomes(t, n) /\ n.pc = "write"
                   /\ n.dir = smtp[t].mail.to
      BY <1>7, <1>8
    <2> QED
      BY <1>4, <1>5, <1>8, <2>1 DEF MisfilesFor
  <1>9. CASE /\ WriteTo(t, Root) /\ smtp[t].mail.to \in dirs /\ UNCHANGED dirs
             /\ smtp[t].pc = "mkdirs"
    <2>1. PICK n : /\ SessionBecomes(t, n) /\ n.pc = "write"
                   /\ n.mail = smtp[t].mail
      BY <1>7, <1>9
    <2> QED
      BY <1>5, <1>9, <2>1 DEF MisfilesFor
  <1>10. CASE /\ smtp[t].mail.to \notin dirs /\ dirs' = dirs \cup {smtp[t].mail.to}
              /\ WriteTo(t, smtp[t].mail.to)
    <2>1. PICK n : /\ SessionBecomes(t, n) /\ n.pc = "write"
                   /\ n.dir = smtp[t].mail.to /\ n.mail = smtp[t].mail
      BY <1>7, <1>10
    <2>2. \A s \in SmtpThread : smtp'[s] = (IF s = t THEN n ELSE smtp[s])
      BY <1>1, <2>1 DEF SessionBecomes
    <2>3. t \notin Misfiling(a)'
      BY <1>4, <2>1, <2>2 DEF Misfiling
    <2>4. CASE a # smtp[t].mail.to
      <3>1. Misfiling(a)' \subseteq Misfiling(a)
        BY <1>10, <2>2, <2>3, <2>4 DEF Misfiling
      <3> QED
        BY <1>2, <1>3, <1>10, <3>1, RacedShrinks
    <2>5. CASE a = smtp[t].mail.to
      <3>1. Misfiled(a)' = {} /\ a \in dirs'
        BY <1>2, <1>3, <1>10, <2>5 DEF Raced
      <3>2. Misfiling(a)' \subseteq SmtpThread \ {t}
        BY <2>3 DEF Misfiling
      <3>3. /\ IsFiniteSet(SmtpThread \ {t})
            /\ Cardinality(SmtpThread \ {t}) = Cardinality(SmtpThread) - 1
        BY FS_RemoveElement
      <3>4. /\ Cardinality(Misfiling(a)') <= Cardinality(SmtpThread \ {t})
            /\ IsFiniteSet(Misfiling(a)')
        BY <3>2, <3>3, FS_Subset
      <3>5. Cardinality(Misfiling(a)') \in Nat /\ Cardinality(SmtpThread) \in Nat
        BY <3>4, FS_CardinalityType
      <3>6. IsFiniteSet(Misfiled(a)') /\ Cardinality(Misfiled(a)') = 0
        BY <3>1, FS_EmptySet
      <3>7. Cardinality(Misfiled(a)') + Cardinality(Misfiling(a)') < Cardinality(SmtpThread)
        BY <3>3, <3>4, <3>5, <3>6
      <3> QED
        BY <3>1, <3>6, <3>7 DEF Raced
    <2> QED
      BY <2>4, <2>5
  <1> QED
    BY <1>1, <1>6, <1>8, <1>9, <1>10 DEF IsDirectory, Mkdirs, KeepDisk, diskVars

LEMMA WriteRace ==
  ASSUME TypeOK, IsFiniteSet(SmtpThread), UNCHANGED faults, NEW a \in Address, Raced(a),
         NEW t \in SmtpThread, WriteFile(t)
  PROVE  Raced(a)'
  <1> DEFINE new == [dir |-> smtp[t].dir, name |-> now, mail |-> smtp[t].mail]
  <1>1. smtp \in [SmtpThread -> Session] /\ UNCHANGED dirs
    BY DEF TypeOK, DeliveryTypeOK, WriteFile
  <1>2. /\ smtp[t].pc = "write" /\ smtp[t].mail \in Mail
        /\ files' = Put(smtp[t].dir, now, smtp[t].mail)
    BY WriteFileEffect
  <1>3. \A f \in files' : f \in files \/ f = new
    BY <1>2 DEF Put
  <1>4. new.dir = smtp[t].dir /\ new.mail = smtp[t].mail
    OBVIOUS
  <1> HIDE DEF new
  <1>5. PICK n : n.pc = "insert" /\ smtp' = [smtp EXCEPT ![t] = n]
    BY WriteFileEffect
  <1>6. Misfiling(a)' \subseteq Misfiling(a) \ {t}
    BY <1>1, <1>5 DEF Misfiling
  <1>7. CASE t \notin Misfiling(a)
    <2>1. ~(new.dir = Root /\ new.mail.to = a)
      BY <1>2, <1>4, <1>7 DEF Misfiling
    <2>2. Misfiled(a)' \subseteq Misfiled(a)
      BY <1>3, <2>1 DEF Misfiled
    <2> QED
      BY <1>1, <1>6, <2>2, RacedShrinks
  <1>8. CASE t \in Misfiling(a)
    <2>1. Misfiled(a)' \subseteq Misfiled(a) \cup {new}
      BY <1>3 DEF Misfiled
    <2>2. Misfiling(a) \subseteq SmtpThread
      BY DEF Misfiling
    <2>3. IsFiniteSet(Misfiling(a)) /\ IsFiniteSet(Misfiled(a))
      BY <2>2, MisfilingFinite DEF Raced
    <2>4. /\ IsFiniteSet(Misfiled(a) \cup {new})
          /\ Cardinality(Misfiled(a) \cup {new}) <= Cardinality(Misfiled(a)) + 1
      <3>1. Cardinality(Misfiled(a)) \in Nat
        BY <2>3, FS_CardinalityType
      <3>2. /\ IsFiniteSet(Misfiled(a) \cup {new})
            /\ Cardinality(Misfiled(a) \cup {new}) = IF new \in Misfiled(a)
                                                    THEN Cardinality(Misfiled(a))
                                                    ELSE Cardinality(Misfiled(a)) + 1
        BY <2>3, FS_AddElement
      <3> QED
        BY <3>1, <3>2
    <2>5. /\ IsFiniteSet(Misfiled(a)')
          /\ Cardinality(Misfiled(a)') <= Cardinality(Misfiled(a) \cup {new})
      BY <2>1, <2>4, FS_Subset
    <2>6. /\ IsFiniteSet(Misfiling(a) \ {t})
          /\ Cardinality(Misfiling(a) \ {t}) = Cardinality(Misfiling(a)) - 1
      BY <1>8, <2>3, FS_RemoveElement
    <2>7. /\ IsFiniteSet(Misfiling(a)')
          /\ Cardinality(Misfiling(a)') <= Cardinality(Misfiling(a) \ {t})
      BY <1>6, <2>6, FS_Subset
    <2>8. /\ Cardinality(Misfiled(a)') \in Nat /\ Cardinality(Misfiling(a)') \in Nat
          /\ Cardinality(Misfiled(a)) \in Nat /\ Cardinality(Misfiling(a)) \in Nat
          /\ Cardinality(Misfiled(a) \cup {new}) \in Nat /\ Cardinality(SmtpThread) \in Nat
      BY <2>3, <2>4, <2>5, <2>7, FS_CardinalityType
    <2>9. Cardinality(Misfiled(a)') + Cardinality(Misfiling(a)') < Cardinality(SmtpThread)
      BY <2>4, <2>5, <2>6, <2>7, <2>8 DEF Raced
    <2>10. a \in dirs'
      BY <1>1, <1>8 DEF Raced
    <2> QED
      BY <2>5, <2>9, <2>10 DEF Raced
  <1> QED
    BY <1>7, <1>8

(* As long as nothing failed, a mail of an address is in the root only if  *)
(* its session lost the race for the directory, and each session can lose  *)
(* it once: all but one of them do at most, whatever comes later or is sent*)
(* again after a crash (MailStorage.store: a directory that appears before *)
(* mkdirs is taken for one that cannot be made).                           *)
THEOREM RaceLostOnce ==
  ASSUME IsFiniteSet(SmtpThread), SmtpThread # {}
  PROVE  Spec => []MisfiledInRaceOnly
  <1> DEFINE Inv == faults = 0 => \A a \in Address : Raced(a)
  <1>1. Init => Inv
    <2> SUFFICES ASSUME Init, NEW a \in Address PROVE Raced(a)
      OBVIOUS
    <2>1. Misfiled(a) = {} /\ Misfiling(a) = {}
      BY DEF Init, DeliveryInit, NotRunning, Misfiled, Misfiling
    <2>2. Cardinality(SmtpThread) \in Nat /\ Cardinality(SmtpThread) # 0
      BY FS_CardinalityType, FS_EmptySet
    <2> QED
      <3>1. IsFiniteSet(Misfiled(a)) /\ Cardinality(Misfiled(a)) = 0
        BY <2>1, FS_EmptySet
      <3>2. Cardinality(Misfiling(a)) = 0
        BY <2>1, FS_EmptySet
      <3>3. Cardinality(Misfiled(a)) + Cardinality(Misfiling(a)) < Cardinality(SmtpThread)
        BY <2>2, <3>1, <3>2
      <3> QED
        BY <2>1, <3>1, <3>3 DEF Raced
  <1>2. TypeOK /\ Inv /\ [Next]_vars => Inv'
    <2> SUFFICES ASSUME TypeOK, Inv, [Next]_vars, faults' = 0, NEW a \in Address
                 PROVE  Raced(a)'
      OBVIOUS
    <2>1. faults = 0 /\ Raced(a)
      BY FaultsGrow
    <2>2. CASE \A t \in SmtpThread : ~(IsDirectory(t) \/ Mkdirs(t) \/ WriteFile(t))
      <3>1. UNCHANGED <<dirs, files>> /\ Misfiling(a)' \subseteq Misfiling(a)
        BY <2>2, ElsewhereKeepsRace
      <3> QED
        BY <2>1, <3>1, RacedShrinks DEF Misfiled
    <2> QED
      BY <2>1, <2>2, DirectoryRace, WriteRace
  <1>3. Inv => MisfiledInRaceOnly
    BY DEF MisfiledInRaceOnly, Raced
  <1> HIDE DEF Inv
  <1> QED
    BY <1>1, <1>2, <1>3, TypeCorrect, PTL DEF Spec
=============================================================================
