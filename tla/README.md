# email_tracking: models, checks and proofs

This directory holds TLA+ models of the programs of `email_tracking`, the
configurations with which TLC checks them on small instances, and proofs, checked
by TLAPS, of what matters most for instances of every size.  Paths below are
relative to the repository (`src/`).

## 1. The system

The repository measures how emails track their readers.  Three programs work
together.

* **The mail server** (`mailserver/`, Java) hands out addresses, receives the mail
  sent to them, stores it, looks for leaked addresses and for links to visit, and
  requests some of the images itself.
* **`crawler_mailinglists`** (Python, a copy of OpenWPM) visits sites, asks the mail
  server for an address and signs up with it.
* **`crawler_emails`** (Python, a nearly identical copy) renders the mails in a real
  Firefox, clicks their links, and records what is requested.

The crawlers talk to the mail server over its web API only, and to each other not
at all.  `email-tracking-tester/` is an empty directory.

### 1.1 The mail server

| part | state it keeps | operations |
|---|---|---|
| database (`MailDB.java`, MySQL, MyISAM tables) | `users`, `inbox`, `leaked_emails`, `link_groups`, `redirects`; counters in `users` | INSERTs and UPDATEs, several per method and without a transaction |
| SMTP handler and storage (`MailHandler`, `MailStorage`) | directories and files named by the clock; a snapshot of the user for each session | accept, handle, store, acknowledge |
| analyzer (`MailAnalyzer`, `Request`) | a pool of request tasks | record confirmation links, leaks, links to visit, redirects |
| web API (`WebServer`) | none of its own | `/register`, `/visit`, `/results` |
| helpers (`Utils`, `HashChecker`, `EmailAddressGenerator`, ...) | none | pure functions on text |

They share the database.  An SMTP session calls storage and analyzer; the analyzer
schedules tasks for the pool; every SMTP, pool and web thread records leaks through
the same routine.  A crawler's `/visit` and `/results` take link groups that the
analyzer left.

*Correct* means: an acknowledged mail is stored; files, rows and counters agree; a
first mail is recognised; redirects are recorded before the leaks in them; no result
that was accepted is lost; no two registrations get one address; every session, task
and request ends.

### 1.2 A crawler

| part | state it keeps | operations |
|---|---|---|
| `TaskManager` | browsers, command threads, failure status and count, visit ids, closing | launch, execute a sequence (any, one, all, all in step), watch, close |
| `BrowserManager` (object `Browser` and a child process) | child, display, Firefox and profile by pid and path; two queues | launch, restart, kill, execute a command |
| `SocketInterface` | connections, one queue | connect, accept, send, receive, close |
| `DataAggregator` | the queue, an SQLite transaction, counters of the batch | process a query, commit, drain, close |
| `LevelDBAggregator` | a write batch, its counter, the database of scripts | put a script, write a batch, drain, close |
| `MPLogger` | a queue of records, a log file; in each client a handler with a lock | log, write, drain, end |
| `CommandSequence` | the commands queued, their time-out, whether a page is visited | one method per command |
| commands (`browser_commands`, `custom_commands`) | windows, iframe and page of the driver; the form, links and windows still to look at | get, browse, fill in forms, record what a page shows |
| profiles (`profile_commands`, `deploy_firefox`, `configure_firefox`) | a profile folder with its databases and write-ahead logs, three places for archives, preferences | make, load, configure, dump, clear |
| MITM proxy | current and previous visit with their requests, a queue of messages | hand over a visit, record requests and responses, send scripts |
| crawl scripts | an index file, control files, the loop | start, hand over a site, remember it, finish, be killed |
| utilities | the tables of cookies; the file of the public suffix list and each child's copy of it | build the tables; load the list, cut a hostname |
| extension | the visit id it was told | not modelled |

Inside a crawler the main thread, one command thread per browser and the watchdog
share the fields of the browsers, partly without locks.  Each browser is a child
process reached through a command and a status queue; it starts a virtual display
and Firefox, which outlive it.  TaskManager, extension and children send rows over
sockets to the aggregators, which are processes of their own.

*Correct* means: an answer is the answer to the command it is taken for; a visit has
an id of its own; a browser that cannot be used is reported; the profile to recover
from survives; a shutdown ends and leaves nothing behind; what is sent before the end
is in the database; the database is a prefix of what was executed; what is recorded
for a visit, by the driver or by the proxy, is of that visit; a site is signed up once;
a crawl that says it is done has handed over its sites and lost few; a restored profile is
the saved one.

### 1.3 What is hard

* Methods of two or three statements without a transaction, run by threads of three
  kinds for the same address; a statement may throw after its predecessor took effect.
* Values read early and used late: the count of received mails, the failure count.
* Crashes between file, row and acknowledgement; senders that try again.
* Commands that time out while their answers are on their way; a child that hangs.
* Launches of up to four attempts, each with processes and a profile directory.
* Shutdown against command threads that are busy, launching, or wait for ever.
* Batches, an idle commit, a queue that is emptied while others still fill it.
* Pages that do not load in time, windows that open by themselves, and exceptions from
  anywhere in a search that goes on in spite of them.
* A proxy that is behind its browser when the next visit begins.
* Scripts that are killed between handing a site over, remembering it and finishing.
* A profile that is saved file by file, together with its logs, and restored many times.

`PROJECT.json` lists these under `hazards`, each at its line with the properties that
cover it, or with the reason why none does yet.

## 2. The modules

| module | models | composed of |
|---|---|---|
| `MailDB` | `MailDB.java`: tables, statements, recording of leaks | |
| `MailDelivery` | `MailHandler`, `MailStorage`, `MailAnalyzer`: sessions and request tasks, the sender | `MailDB` |
| `WebApi` | `WebServer.java`: the three requests that write | `MailDB` |
| `MailServer` | the whole server, crashes, and its properties | `MailDelivery`, `WebApi` |
| `TwoStepLedger` | abstract: a table with a separate counter | |
| `Browser` | `BrowserManager.py` and the part of `deploy_firefox.py` with lasting effects | |
| `TaskManager` | `TaskManager.py`, the part of `BrowserManager.py` that shuts down, and their properties | `Browser` |
| `SocketInterface` | `SocketInterface.py` | |
| `DataAggregator` | `DataAggregator.py` over SQLite, and its properties | `SocketInterface` |
| `WriteBehind` | abstract: a log that is written in batches | |
| `WebDriver` | external: Firefox as Selenium shows it | |
| `CommandSequence` | `CommandSequence.py` | |
| `FormFinder` | the decisions of `custom_commands.py`: which link, which form, what to type | |
| `BrowserCommands` | `browser_commands.py`, `webdriver_extensions.py` | `WebDriver`, `FormFinder` |
| `FormFiller` | `fill_forms` of `custom_commands.py` | `BrowserCommands` |
| `Commands` | `command_executor.py` and the child that executes a sequence, and their properties | `FormFiller`, `CommandSequence` |
| `LevelDBAggregator` | `LevelDBAggregator.py` | |
| `Proxy` | `MITMProxy.py`, `mitm_commands.py`, `deploy_mitm_proxy.py`, and what `get_website` does with the proxy | `LevelDBAggregator` |
| `CrawlScript` | the crawl scripts and demos of both crawlers | |
| `Profiles` | `profile_commands.py`, `configure_firefox.py`, and what `deploy_firefox.py` and `BrowserManager.py` do with profiles | |
| `Cookies`, `CookieTable` | the parser of `Cookie.py`; `build_cookie_table.py` | |
| `LogServer` | `MPLogger.py`, and how children of the TaskManager inherit its logger | |
| `Domains` | `domain_utils.py` | |
| `Tools` | the six parts before it that share no state, one at a time | `CrawlScript`, `Profiles`, `CookieTable`, `LogServer`, `Domains`, `Proxy` |
| `PythonNone` | the constant `None` | |
| `MCMailServer`, `MCTaskManager`, `MCDataAggregator`, `MCCommands`, `MCTools` | instances for TLC | |
| `MailServer_proofs` | theorems about `MailServer`: types, leaks | |
| `MailDelivery_proofs` | theorems about `MailServer`: mails, files, inbox | `MailServer_proofs` |
| `Records_proofs` | theorems about `MailServer`: users, groups, results, redirects, first mails | `MailDelivery_proofs` |
| `TaskManager_proofs`, `DataAggregator_proofs`, `Commands_proofs` | theorems about those modules | |
| `Cookies_proofs` | the parser against its definition, and the invariant of `CookieTable` | |
| `Tools_proofs` | theorems about `Tools` | `Cookies_proofs` |

Operators keep the names of the methods they translate, in TLA+ capitalisation; a
method of several steps is one action per step that another thread can come between.
Definitions that a comment calls *a mutant* are not part of a specification: each is
a plausible bug with which a definition below it can be replaced, to show that a
property notices.

### 2.1 Mail server

*Database.*  A statement is atomic (MyISAM) and there is no transaction; so each
statement is an action or a conjunct of one.  `Works(tables)` and `Throws(tables)`
are its two outcomes; it throws when a table is missing from `Schema`, or at any time
while `faults < MaxFaults`.  `addLeakedEmailAddress` is an activation record
`leak[t]`: INSERT, UPDATE `leak_count`, UPDATE `tp_leak_count` are three steps of
thread `t`, for each URL with an encoding of the address and for each encoding.

*Sessions.*  `smtp[t].pc` is the place of a session in `MailHandler.handleMessage`,
`MailStorage.store` (`isdir`, `mkdirs`, `write`, `insert`, `count`) and
`MailAnalyzer.analyze`.  `user` is the row that `getUserInfo` read at the beginning
and that is used until the end.  `now` is the clock in milliseconds; it advances in
`Tick` only, so that two mails may have one name.  A mail says what the analysis finds
in it: links, confirmation links, images, links to visit.  Which links are selected is
thus a parameter, as is how a request is redirected (`Chains`).

*Pool.*  A task follows the redirects, takes the monitor of `addRedirects`, inserts
row by row, and searches the redirects for leaks.

*Web.*  `/register` draws an address (any), INSERT IGNOREs it and tries at most three
times; `/visit` reads; `/results` looks up the group and the recipient, records leaks
URL by URL, and removes the group when all went well.

*Crash* stops all threads, empties the pool, and leaves files and tables; the sender
tries a mail again that was not acknowledged.

External are MySQL, the SMTP library, Spark, the senders and the crawler that posts
results.

### 2.2 Crawler

*Spawn attempts.*  `gen[b]` numbers the attempts to spawn a child for browser `b` and
names its child, display, Firefox and profile directory: pids and paths are the pair
`<<b, g>>`.  `launch[b]` is the activation of `launch_browser_manager`, whether the
constructor or a command thread runs it.  A child tells its profile, display and
browser one after the other; of the seven statuses the three that carry nothing are
left out.  `Kill` uses the pids the object was told: what the child had not told yet
lives on.

*Time-outs.*  A failure and a critical error of a child, and a time-out although it is
alive, each use up one of `MaxFaults`; so `childFaults = 0` is a clean run, and without
fairness for children a child is as slow as it likes.  That a dead child does not
answer in time costs nothing.

*TaskManager.*  `main` is the place of the main thread in the constructor, in
`_distribute_command` or in `_shutdown_manager`; `thread[b]` that of the command
thread.  `VisitPerCall` is the one difference between the crawlers that matters:
`crawler_emails` takes a visit id per call, `crawler_mailinglists` one per thread.
The failure count is incremented under the lock and read again after it, in two
steps.  The join of a thread in the shutdown ends with the thread, or without it when
the thread may have more to do than the time-out the join was given (`Outlasts`).

*History.*  `abandoned`, `escaped` and `exceeded` record what happened for
the properties and guard nothing.

*The script* executes sequences and closes.  It does not call after it closed, and an
exception makes it close.

### 2.3 Aggregator

A client connects, sends whole messages and closes; its connection has a thread that
puts what it receives on the common queue (`SocketInterface`).  The loop of the
aggregator is `loop` (look for DIE) to `look` (take a message or commit when idle) to
`executed` (commit a full batch) and back; DIE leads to `drain`, `close`, `ended`.
`executed` are the rows of the open transaction, `committed` those in the file.  A
message is a row, a visit, a table to create (SQLite commits first), a statement that
fails and is skipped, or a frame that cannot be decoded.  Python 2's `sqlite3` raises
IntegrityError on a second visit with one id, which nothing catches: `crashed`.
`recent` says whether less than five seconds went by since `commit_time`.

### 2.4 Commands

*Firefox* (`WebDriver`, external).  A page is its document, `Doc[p]`: its URL, forms,
inputs, links, iframes, the pages a form leads to, and those it opens in windows of
their own.  `tabs[w]` is the history of window `w`; `current` and `frame` are where the
driver is.  A window may open at any time (`OpenPopup`).  Any call may raise while
`faults < MaxFaults`, and a call in a window that was closed does raise.  A history
entry carries the visit for which it was loaded; nothing in the commands reads it.

*Commands.*  `pc` is the next call of the child: `get`, `browse`, `record`, `find`,
`submit` and so on.  Each label ends at a call to Firefox, between two of which windows
may open.  A page that does not load in time is no failure (`LoadPage`): the tab stays
what it was.  Texts are sets of the keywords they contain, so the rankings of links and
forms are the tables of the code, and `Score` is compared as Python compares tuples.

*fill_forms.*  `fill` holds its local variables.  `_find_and_fill_form` is called from
three places, `ret` says which; two of them are inside of a `try` whose `except: pass`
goes on with the next link (`FillRaises`).  With `debug`, which is how `crawl_signup.py`
calls it, it records the source of each page on which it finds a form, and what is shown
before and after the form is sent (`FormSource`, `FormScreenshot`, `FollowUpRecorded`):
of the page, of an iframe, or of any window it looks at for a form that follows.

*History.*  `dropped`: whether an exception was dropped in this visit.  `listed`: how many
windows had been opened when `get_website` last listed them to close the others; windows
are numbered as they open, so one above `listed` was opened after that, and what is
recorded of it is `late`.

*The script* queues commands through the methods of `CommandSequence` (`Build`), which
refuse what needs a page before there is one, and hands the sequence over (`Execute`), or
uses the two short cuts of the TaskManager (`ManagerGet`).  A command that fails ends the
sequence, and the browser is started anew (`CommandFailed`).

### 2.5 Proxy, scripts, profiles and tools

These parts share no state; `Tools` runs one of them in each behaviour (`part`).

*Proxy.*  A request is made by the page of a visit (`origin`, a history variable) and
reaches the proxy through its queue, as does its response, whenever it comes.  The
thread takes a new visit id only when that queue is empty, after it handled what was
in it.  Hashes of scripts have 64 bits: `HashOf` may give two scripts one hash.  The
LevelDB aggregator takes what the proxy sends.

*Crawl scripts.*  `step` is the place in the script.  The index file is emptied when it
is opened (`OpenIndex`) and written in another step; a kill can come between any two.
The script that starts it again and reboots the machine is the environment, told by the
control files.  When a browser fails to spawn, the constructor of the TaskManager closes it
and returns as if nothing had happened (`BrowserSpawnFails`); it then drops every sequence,
and the script counts the site as handed over (`refused`).  Closing waits for the
sequences under way only for a time, and so may cut them off (`CloseManager`).

*Profiles.*  The databases of a profile are one store: the version in the file and the
one in its write-ahead log.  A dump copies first the one, then the other, while Firefox
runs or is being killed.  There are three places for archives: of a crash, of the end
of a crawl, and of a command, which runs in the living browser, waits for the log to
disappear or not, may time out half way (`DumpTimesOut`), and is what another crawl may start
from (`StartFromDump`).  A place may have a compressed and a plain archive; `load_profile`
takes the compressed one, be it older.  A profile is cleared after any sequence that asks
for it, by a browser that was started anew and by one that was not; its Flash objects stay.
`prefs.js` is in no archive, so JavaScript is on in every profile that is loaded, and the
keys that turn it off for a mail client cannot turn it on.

*Cookies.*  A header string is a sequence of items, `key` or `key=value`.  `ParseItem`
is one turn of the parser's loop, `ParseString` all turns, and `HeaderRows` what the table
gets for a header.  `RowsOf` is what it should get: the names, values and attributes
defined from the string alone (`Owner`, `ValueOf`, `AttributeOf`).

*Log server.*  A handler is locked while its thread sends; a child that is forked then
inherits a lock that nobody releases.

*Domains.*  A hostname is a sequence of labels, the list a set of suffixes.  A child
may read the file of the list while another writes it.

## 3. What is checked

| run | instance | properties |
|---|---|---|
| `Sessions` | two SMTP threads, two mails for an address (one fails as a first mail and is sent again, one cannot be parsed), two milliseconds, a fault, a crash | `DiskMatchesInbox`: no row without file, no file without row except of a session about to insert it. `AckedMailIsStored`: what was acknowledged is on disk, unless a mail of the same millisecond took its file. `ReceivedCovered`: counter and rows. `FirstMailsClosed`: sessions that read the count of received mails before it is raised may all take theirs for the first mail, but the mail counted first is one of those, and none that begins later is. `MisfiledInRaceOnly`: sessions that race for the directory lose at most one mail each to the root, and one of them loses none |
| `Images` | one SMTP and two pool threads, two mails of which one has images, an address that is registered, or without a domain, or not at all, a fault, a crash | `RedirectsBeforeLeaks`; `LeakCountsCovered`, `LeakCountsExact` and `LeakLedgerImplemented`: counters and rows; `OnlyRegisteredStored`, although `accept` lets everything in when its query fails; `TasksEnd`: no thread keeps the monitor |
| `Links` | two web threads with three requests, a mail with a confirmation and a link to visit, two addresses, a fault, a crash | `TypeOK`; `AcceptedResultsRecorded`; `AddressesUnique` |
| `CrawlOne` | one browser, a sequence of two commands or one with a reset, two attempts per launch, the watchdog, seven faults | `AnswersMatch`: a late answer is never taken for another command's; `ProfileKept`; `UnusableIsReported`; `SequencesEnd` although children hang; `TypeOK` |
| `CrawlTwo` | two browsers, two calls for any of them or for all in step, two faults, profile archiving | `CommandsBelongToVisits`, `VisitIdsUnique` (crawler_mailinglists), `NothingLeftBehind`, `ShutdownEnds` although a thread may wait for ever |
| `Aggregator` | two clients with two messages each of all kinds, a batch of two, a kill | `NothingLost` at a clean end; `BatchBound`; `KeepsOrder`; `DatabaseIsPrefix`; `RowsAreSaved`; `DiesWhenTold` |
| `Commands` | two visits of up to two commands of nine kinds on eight pages with a form behind a link, in an iframe or in a window that opens by itself; two calls that raise | `EvidenceOfVisit`: what is recorded for a visit shows its page or a blank one, although pages time out and exceptions are dropped, or a window opened after the visit listed the windows, which a page of the visit before may still do; and only `fill_forms`, and commands after one that dropped an exception, record such a window or an iframe. `OneAddressPerSite`: a site gets one address, another only after a call raised, and what was asked for is sent |
| `Tools` | see 3.2; each part with its kills, failures and interruptions | `SitesExecuted`: a crawl that says it is done handed over every site, and the sequences that did not run were cut off by a kill or a shutdown, or refused by a closed TaskManager, of which each costs a batch at most. `Restored`: profiles after a crash, a crawl, a command and a clear, and no JavaScript in a mail client. `CookieRowsOnce`, through interrupted runs. `LogsKept`. `SitesToldApart`: PS+1s against a definition of what is registered. `RequestsBelongToVisit`, `ResponsesFollowRequests`, `ScriptsKept`, `HandshakeEnds`: the proxy |

All of these hold.  For each, `PROJECT.json` names a mutant of the code that breaks it.

Some properties of the modules are in no run.  `GroupsLeaveWithResults`,
`UsersNeverReset` and that the inbox implements `TwoStepLedger` are theorems (section 4).
The liveness properties `RequestsEnd` and `SessionsEnd` hold for the instance of `Links`,
when its configuration lists them under `PROPERTIES`.

Deadlock is not checked: when mails, requests, calls, visits or messages are used up the
programs wait, and a crawl that is closed is over.

### 3.1 Where the code does something else

Four runs expect a violation; each quotes in `PROJECT.json` the line it contradicts.

| run | what TLC finds |
|---|---|
| `SameMillisecond` | Two mails stored within a millisecond have one file name; the second replaces the first, both are acknowledged (`MailStorage.java:57`). |
| `SharedVisitId` | `crawler_emails` gives all browsers of one call one visit id (`TaskManager.py:361`), although it is the primary key of `site_visits`. |
| `HangingProcesses` | With an archive directory, a browser that could not be launched again makes the shutdown raise before the browsers after it are killed (`BrowserManager.py:225`). |
| `LostWakeup` | A thread of a synchronized call that has not begun to wait when `notifyAll` is called waits for ever (`TaskManager.py:417`). |

More configurations show what a property above does not promise, and why it cannot.  They are
not among the runs of `PROJECT.json`; `tlc -config X.cfg M` finds the violation.

| configuration | property | what TLC finds |
|---|---|---|
| `MCConfirmation` | `OneConfirmation` | Two sessions read the count of received mails before either is counted; both take their mail for the first one and record its confirmation (`MailAnalyzer.java:148`). `FirstMailsClosed` bounds this. |
| `MCDirectoryRace` | `FileUnderItsAddress` | Two first deliveries race for the directory; the loser stores its mail in the root (`MailStorage.java:53`). `MisfiledInRaceOnly` bounds this. |
| `MCShippedSchema` | `AckedMailIsStored` | With the tables of `sql-files/main.sql` every mail is acknowledged and dropped (`MailDB.java:304`). |
| `MCLimitMissed` | `LimitEnforced` | The failure that exceeds the limit is missed: another thread resets the count before it is read again (`TaskManager.py:510`). |
| the same | `ReadyIsReady` | In place of `LimitEnforced`: a browser whose relaunch raised has no child and is ready (`BrowserManager.py:64`). |
| `MCOrphans` | `AllClosed` | A thread that outlives its join spawns a child after the kill (`BrowserManager.py:213`). |
| `MCPopupClosesMain` | `SignedUpIsNoFailure` | A form in a pop-up makes the pop-up the main window; the page of the links is closed as one of the others, and a command that signed up fails (`custom_commands.py:317`). |
| `MCTornList` | `ReturnsPsPlusOne` | A child reads the public suffix list while another has opened its file and written nothing; its hosts have wrong PS+1s as long as it lives (`domain_utils.py:18`). |

### 3.2 Bounds

* `MaxFaults`, `MaxCrashes`, `MaxKills`: each hazard is one failure between two steps,
  and a second adds a repetition.  In `CrawlOne`, seven faults are more than one
  sequence can use before it ends, so that no thread waits for a time-out the bound
  forbids; with six TLC reports such a state as a violation of `SequencesEnd`.
* Threads: two of a kind meet in every race in the code; three kinds write the leak
  table, and the theorems hold for any number of each.
* `MaxTime`: one millisecond makes all names collide, two allow both cases.
* `MaxAttempts`: a mail is sent, and sent again.
* `MaxRequests`: a group is asked for, posted, and posted again.
* `SpawnLimit`: four in the code, one or two here: the loop has a first, a last and,
  with two, an attempt in between.
* `FailureLimit` 1: failures below and above it.  `BatchSize` 2: the same.
* `MaxSent` 2: a message behind another of the same client.
* `MaxCalls`: one in `CrawlOne`, where a call meets the launch before and the shutdown
  after it; two in `CrawlTwo`, where a call meets the threads of the one before.
* `Commands`: three windows are the main one, one that a page opened and one opened
  while those are looked at; two links followed, so that one can come after another;
  two commands, so that one can be executed after another changed the page; two visits,
  so that the page of one may be taken for that of the next; two calls that raise
  anywhere, since one that is dropped leaves the driver in a window of the visit before,
  and only another lets it stay there.  The pages are a web in which every place a form can be in occurs.
  `debug` is true, as in the repository: without it the same is recorded less the forms.
* `Tools`: the script has four sites in batches of two and two browsers, so that a
  batch ends before the list does, and two kills, so that a resumed crawl is killed
  again.  Profiles have three versions and three dumps: a version before, in and after
  a dump, and a crash after a restored crash.  Cookie tables are built twice, after an
  interruption, with commits of two rows; strings have up to three items.  Four
  log records come from two threads.  Two children load a list.  The proxy has
  three visits, one before, during and after a message of another, three requests, one
  failure, and batches of two scripts.

No symmetry is used; liveness would not be sound with it.

### 3.3 Fairness

* Mail server (`FairSpec`): every SMTP, pool and web thread takes its next step.  They
  are threads of a JVM, and each step is a statement, a file operation or a lock that
  another thread gives back; statements that hang are not modelled.  Nothing is
  assumed of senders, clients, the clock or crashes.
* Crawler (`FairSpec`): the main thread, command threads and launches go on: each is
  computation, a queue read with a time-out, or a join.  Children may hang for ever.
  `ServedSpec` adds that children go on, to show that even then `LostWakeup` is not
  the fault of a child.  The script need not call.
* Aggregator: the loop, the connection threads and the clock go on.  Clients need not
  send or end, and nobody needs to send DIE.
* Tools: the thread of the proxy takes its next step (it polls its queues), the child
  that waits for it asks again, and the TaskManager, which waits for an answer with a
  time-out, starts a child anew whose proxy reported a failure.  Pages, the network,
  scripts and everything else need not go on.
* Commands: safety only; a command that hangs is a time-out in `TaskManager`.

## 4. What is proved

The modules `*_proofs` hold for all values of the constants that satisfy the named
assumptions of the modules (`MailDBAssumption` and so on: sets of addresses and
threads, natural bounds, that a redirect leads to a URL, that browsers have the
parameters the code reads, that `None` and `NoMail` are no value of a program; for
`WebDriver`, that links, forms, windows and iframes lead to pages there are and an iframe
has none of its own; for `FormFinder`'s documents, that `forms` are `<form>`s and the
parents of an input contain it; for `Domains`, that a hostname has labels; for `Cookies`,
that the names of attributes with a `$` before them are distinct and are no names of
attributes; for `CookieTable`, that headers are numbered and have sequences of strings,
which are sequences of items with a key).  The bounds (`MaxFaults`, `MaxCalls`, ...) are constants like the others: no theorem rests on
their values.  Five theorems have a hypothesis of their own, given with them: three that a table exists, one
that visits are numbered as in `crawler_mailinglists`, one that there are finitely many
SMTP threads.  The instances in which the properties are checked meet them.

Every theorem has the same form.  The property is not inductive: a step can break it
from states that never occur.  An invariant describes what a thread, a message or a
process under way has done and still has to do; it was checked by TLC first, and then
proved action by action.  Lemmas describe the effect of a step on the variables of an
invariant, so that the steps that leave them alone are dealt with once.

### 4.1 Mail server (`MailServer_proofs`, `MailDelivery_proofs`, `Records_proofs`)

* `TypeCorrect`: `Spec => []TypeOK`.
* `LeakCounts`: `Spec => []LeakCountsCovered`.  Counter <= rows is not inductive: an
  UPDATE increments the counter without looking at the rows.  The invariant therefore
  says that a counter plus the threads which have inserted and not yet counted is at
  most the rows; a thread is a member of that set from its INSERT to its UPDATE, so
  each step moves one from one term to another.  The inductive invariant is `LeakInv`:
  `TypeOK`, `LeakCountsCovered`, and `TpCountIsThirdParty`, that a thread about to
  update the second counter has a third-party row.
* `LeakLedgerRefined`: the server implements `TwoStepLedger` with the rows as entered
  and `leak_count` as counted.  The step that counts needs
  `leak_count < rows` before it, which is `LeakInv` for the thread that takes it.
* `ReceivedMails` and `InboxLedgerRefined`: the same for the inbox and its counter, with
  the sessions between INSERT and UPDATE (`MailOwed`).
* `RegisteredOnly`: `OnlyRegisteredStored`.  `accept` may let anyone in, but
  `handleMessage` looks the address up again and nothing removes a row of `users`:
  past it the recipient of a session is registered (`RecipientsKnown`).
* `DiskAndInbox`: `DiskMatchesInbox`, *with the table inbox* (else the INSERT fails and
  leaves a file without a row).  `DiskInv` adds that a
  session that writes has chosen the directory of its recipient or the root, that one
  about to insert has its file, and that without faults a file holds a whole mail.
  That sessions may race for one name costs nothing: what is replaced has a row or a
  session too.
* `AckedMail`: `AckedMailIsStored`, *with the table of users*.  `AckInv`: a session past
  its write has its mail on disk, or the mail was replaced in its millisecond; one
  before it has a registered recipient, so it cannot return in silence.  Without the
  table it does (`MCShippedSchema`).
* `UsersKept`, `AddressesNeverReused`: `UsersNeverReset`; then `AddressesUnique`, since
  an address that was answered is registered and INSERT IGNORE tells the handlers
  apart (`IssuedRegistered`).
* `GroupsAccounted`, `ResultsRecorded`: `GroupsLeaveWithResults`;
  `AcceptedResultsRecorded`.  The second is an invariant of the search: for every URL of
  a report, either the activation has it still to do, encoding by encoding, or its leak
  has a row, or the activation has failed (`ReportsSearched`).  An activation that failed
  is never taken for one that is done.
* `RedirectsFirst`: `RedirectsBeforeLeaks`.  `RedirectInv`: the rows of a request before
  the rank at which its thread is are there, and what a search has still to look at
  has its row; rows are never removed.
* `CountersExact`: `LeakCountsExact`, *with the table leaked_emails and the columns of
  the counters* (without them a row is never counted).  To `LeakCountsCovered` it adds
  that nothing is left uncounted: a search begins only in a thread that has counted
  all it inserted, and ends only when it has (`Quiet`), unless a statement fails or
  the process crashes.
* `FirstMailsTold`: `FirstMailsClosed`, for any number of sessions of an address at a time.
  Nothing in the server makes them wait for each other, so that an address has one first
  mail is false (`MCConfirmation`); this is what is left of it.  `SnapshotsOld`: what a
  session has read is at most the count, and zero if it records a confirmation.  So the
  session that raises the count from zero had read zero (`FirstSessions`), and one that begins
  after that reads more; those that read zero before may go on, but there are no new ones,
  and a confirmation recorded later is one of theirs.
* `RaceLostOnce`: `MisfiledInRaceOnly`, *for a finite number of SMTP threads*.  That
  a file is always in the directory of its recipient is false too (`MCDirectoryRace`).
  `Raced`: the mails of an address in the root and the sessions about to put one there are
  together fewer than the sessions, and there are none before the directory is there.
  The session that makes the directory is in neither set, and once it exists no session
  gets to `mkdirs`, so the sum never grows again, after a crash neither.

### 4.2 Crawler (`TaskManager_proofs`)

* `WellTyped`: `Spec => []TypeOK`, by `BrowserState /\ ManagerState`.  They hold what the
  types of the records leave open: which fields a launch, a thread or a status has at
  which place, that a launch awaits a child only while it has attempts left, and that
  the main thread distributes to somebody.
* `ProfileOnDisk`: `ProfileKept`.  `ProfileInv` follows the profile under way from the
  status in the queue to the launch that reads it: from the moment it is announced it
  is on disk, and it is another than the one to recover from; so the attempt that fails
  removes its own only.  It also shows that dumping a profile for a restart cannot
  raise, as it can in the shutdown (`HangingProcesses`).
* `AnswersOfCommands`: `AnswersMatch`, and `UsableOrReported`: `UnusableIsReported`, from
  one invariant, `CrawlInv`: the states above, `Control` (which thread may launch which
  browser, and when) and `QueueInv`.  `QueueInv` says of a browser whose thread is about to
  send, or that has none, that its child waits, with both queues empty, or is dead and
  reported (`Waiting`); of one that awaits an answer, that the command is in the queue, in
  the child, or answered (`Asked`), only one of the three; of one that is launched, that no
  answer to a command is in the new queue and that the last status is the last
  (`Spawning`).  The late answer to a command that timed out is in the queue of a
  child that was killed, which the next attempt replaces.
* `CommandsOfVisits`: `CommandsBelongToVisits`.  `VisitInv`: the commands queued for and
  executed by a browser are of its `curr_visit_id`, whose row is the last of that
  browser.  A new visit begins only at a browser that is `Waiting`, so it rests on
  `QueueInv`.
* `VisitsKeyed`: `VisitIdsUnique`, *where a visit id is used by one thread*
  (`OneThreadPerVisit`: `crawler_mailinglists`, or calls for one browser, or a single
  browser).  `IdInv`: ids that were recorded are below the counter, and the one that is
  being distributed has at most one browser left to go to.  Otherwise it fails
  (`SharedVisitId`).
* `ShutdownIsClean`: `NothingLeftBehind`.  A display or a Firefox outlives its child, and
  `kill_browser_manager` kills those whose pids it was told, so a pid that is forgotten
  leaves a process.  `TidyInv`, without faults: what is there of a browser has the pids
  and the path that it keeps (`Known`), and during a spawn attempt there is besides only
  what belongs to this attempt and whose status is still in the queue (`Attempt`); a spawn
  succeeds when its last status is read, so all before it were (`Spawning`).
  A browser that was killed has nothing left until its next attempt (`Killed`), and whom
  the shutdown is through with has no thread that could begin one (`Ended`).

### 4.3 Aggregator (`DataAggregator_proofs`)

* `TypeCorrect`: `Spec => []TypeOK`, which holds that the batch counter stays in
  `0 .. BatchSize`.
* `Batches`: `Spec => []BatchBound`.  The code counts statements, not rows, and
  commits at three places, so the invariant `AggregatorInv` adds `Counted`: the
  counter is at least the number of rows in the transaction, and in the loop it is
  below the batch size.
* `DatabaseRefined`: the aggregator implements `WriteBehind`, with
  `committed \o executed` as the log and the length of `committed` as what is durable;
  a kill or an IntegrityError is its crash, a commit its sync.
* `OrderKept`: `KeepsOrder`.  `InOrder`: rows, queue and the stream of a client are each
  in the order of the client, and everything in one is earlier than everything in the
  next; a message moves from the front of one to the end of the one before.
* `CleanEnd`: `NothingLost`.  `NothingDropped`: while the process runs, a row that was
  sent is in a stream, in the queue, executed or committed; a connection thread that ended
  left its stream empty; and once the aggregator drains, clients that were through stay so.

### 4.4 Proxy, scripts, profiles, log, cookies (`Cookies_proofs`, `Tools_proofs`)

A step of `Tools` is a step of one part, so each part has an invariant of its own.

* `RequestsTold`: `RequestsBelongToVisit`.  `VisitInv`: a page is shown only when the
  proxy has taken its visit id, which it does when no request waits; so every request
  in its queue is of its current visit.
* `ResponsesTold`: `ResponsesFollowRequests`.  `ResponseInv`: a request that waits for a
  response, in the current or the previous set, has its row under the visit of that set.
* `ScriptsStored`: `ScriptsKept`.  `ScriptInv`: the hash in a response row is in the
  database, in the batch, or on its way; the aggregator closes with neither left, after
  the proxy.
* `LogComplete`: `LogsKept`.  `LogInv`: file and queue together are all records in their
  order, and the server leaves its loop only after it took the message of the end.
* `CrawlComplete`: `SitesExecuted`.  `CrawlInv` says which site the script has reached, from
  its index or from the index file it will load, empty as it may be; every site before
  was handed over, none after it more often than there were kills (`HandedOver`).  What was
  handed over and did not run to an end was in a browser when a kill or the limit of a
  shutdown came, at most `NUM_BROWSERS` a time (`FewLost`), or was refused by a TaskManager
  that had closed itself (`FewRefused`): what was refused and what such a one may still
  refuse of its batch are at most `NUM_BATCH + 1` for each.
* `BrowserRestored`: `Restored`.  `ProfileInv` follows what the next browser should get:
  it is in the making, by a dump whose files so far are those of the profile, or in the
  archive the next start will load, or nothing after a clear; and a mail client's profile is
  configured anew at each start.  `CommandDumps` says of the archives that commands made
  in a running Firefox, whole or torn, that each holds the version noted for it, if Firefox
  did not touch the profile while it was made, and which of two the next start takes.

* `HostsToldApart`: `SitesToldApart`.  The code takes the longest rule of the list that
  fits and one label more; `Registered` is the shortest name with a rule below it and none
  from there up.  The proof shows that both exist and are the same name whatever gaps the
  list has, and counts the parts from the hostname down to it.  It needs no invariant: the
  property speaks of the children that have the whole list.
* `RowsParsed`, about the parser alone: `parse_cookies` gives `RowsOf`, for a string of any
  length.  After `n` items the parser has the names that start a cookie among them, each
  with its last value and the attributes given for it so far, and the last of those names
  as the one that attributes are for; or an error, once a name was illegal.  This is
  written as a record, `ParsedTo(s, n)`; an item more does to it what `ParseItem` does, and
  so `n` can go from 0 to the length.  Induction itself is taken from the library in the
  one form that has no operator as parameter: the relation < on the naturals is well
  founded, so every set of them has a least member (`Least`, `Induction`).
* `CookieTablesBuilt`: `CookieRowsOnce`.  `CookieInv`: all rows of a header are in the table,
  or all are uncommitted, or it has none and, if it was selected, its turn is still to come;
  and after a complete run no header lacks rows that it should have.  A commit comes after
  the rows of a header, never between them, and moves all that is uncommitted; a rollback
  drops all of it; and a header with rows in the table is not selected again.

### 4.5 Commands (`Commands_proofs`)

* `EvidenceKept`: `EvidenceOfVisit`.  There are two invariants.  `EvidenceInv` says which
  windows are of this visit (`Mine`: all pages in their history are of it, or blank) and
  where the driver is at each label: after the tab was restarted it is in such a window, and
  comes back to it from every window that is listed, from every iframe and from every link,
  unless an exception was dropped (`GetRoute`, `BrowseRoute`, `FillRoute`).  A command
  that records comes after one that visits (`SequenceInv`, from the checks of
  `CommandSequence`), and a new browser only after the sequence ended.
  `RecordedInv` is about every window the driver may be in, by a dropped exception or
  because `fill_forms` looks at all of them: those up to `listed` are of this visit or
  closed (`ListedMine`).  While the windows are listed and closed one after the other, those
  not yet closed are still in `rest`; a window that is opened later has a higher number,
  and no step of the driver gives a window a page of another visit.  So what is
  recorded is of this visit or `late`, and where `EvidenceInv` says the driver is at home,
  of this visit.
* `OneAddress`: `OneAddressPerSite`.  `AddressInv`: after an address was asked for and as
  long as no call raised since, the driver is in the window of the form (`main`), which
  stays open while the others are closed (`WindowsInv`); so a call can raise by a fault
  only, and every such step is counted.  If the form was in a window that a page opened,
  all windows that `fill_forms` still means to look at are closed by then, the landing
  page among them: the search ends in a failure, but never with a second address
  (`CountInv`).  Lemmas about the operators of `FormFinder` show that a form which is
  found has a field for the address and a way to be sent (`FoundForm`).

### 4.6 Only checked by TLC

* The liveness properties, since `ENABLED` and fairness are out of reach of the prover:
  `TasksEnd`, `SequencesEnd`, `ShutdownEnds`, `RowsAreSaved`, `DiesWhenTold`,
  `HandshakeEnds`; and `RequestsEnd` and `SessionsEnd`, which are in no run.

Every invariant, action property and refinement of a passing run is stated by a theorem.

## 5. What is not modelled

* The selection of links, the classification of reported URLs, hashes and encodings
  of addresses, the form of generated addresses: pure functions on text.  Their
  outcomes are parameters or choices here.
* The Firefox extension: JavaScript in the event loop of an old Firefox.  In
  `SocketInterface` it is a client that sends and ends as it likes.
* In the commands: mouse movements and scrolling against bot detection, the content of
  screenshots, of Flash objects and of cookies; a custom function is a call that may raise.
* The launcher; `db_utils.py` and the lookups of the web API, which only read;
  `platform_utils.py`, which collects facts about the machine.
* Of `Cookie.py`: everything that writes cookies, and the serialised cookies, which
  nothing here uses.  Dates are strings that one of the formats fits or not.
* The names of the files that `fill_forms` records with `debug`: they are fixed for a
  visit, so that later recordings of it replace earlier ones of the same name.
* Requests that are on their way between the browser and the proxy when `get_website`
  restarts the tab: a page makes its requests before the restart or not at all.
* That the queue of an aggregator is filled as fast as it is drained after DIE: the number of
  messages is bounded, and `DiesWhenTold` says nothing of clients that never stop sending.
* A property about a child that inherits the locked handler of a logger: in `LogServer` it
  hangs, is killed and replaced, but `LogsKept` is about the records that were sent.
* In `build_cookie_table.py` the query that selects headers goes on behind a commit, as the
  documentation of `sqlite3` lets one expect.
* That a request is redirected once more than `MAX_REDIRECTS` (`Request.java:109`), and
  that one URL may be chosen twice for a group (`MailAnalyzer.java:300`): the chains and
  choices of links are parameters.
* In `TaskManager`: a socket that raises because the aggregator is dead; a script that
  calls after it closed (`_start_thread` would return None); the branch for a mismatch
  of statuses (`BrowserManager.py:128`), which a FIFO queue with the sequence of
  statuses cannot reach; the watchdog's last pass is taken to end before the shutdown.
* Killing a browser (four kills in a row by one thread) is one step.
* Partial `send()`s: a statement is a few hundred bytes on a blocking socket.
* The composition of `TaskManager`, `Commands` and the aggregators: each is the
  environment of the other, through the outcomes of commands and the rows sent.

`PROJECT.json` lists every component with its status and reason.

## 6. Plan

1. Mail server: database, delivery, web API, composition; ledgers.  *Done, with the
   proofs above.*
2. Browser and TaskManager.  *Done, with the proofs above.*
3. Sockets and aggregator; log.  *Done, with the proofs above.*  To come: the
   composition of TaskManager and a dead aggregator.
4. Commands: driver, sequence, forms, child.  *Done, with the proofs above.*
5. Proxy, scripts, profiles, cookies, log, domains.  *Done, with the proofs above.*
6. Pure algorithms of the mail server against reference definitions: selection of links
   to visit and of confirmation links (`MailAnalyzer.java:256-459`), the classification
   of results (`WebServer.java:219-283`), redirect chains with their limit
   (`Request.java:89-141`), chains of encodings (`HashChecker.java:44-105`).
7. The extension's visit id and rows.
