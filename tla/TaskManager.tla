----------------------------- MODULE TaskManager -----------------------------
(***************************************************************************)
(* The TaskManager of a crawl (TaskManager.py).  The main thread launches  *)
(* the browsers, hands out command sequences, and shuts everything down;   *)
(* each sequence is executed by a command thread of its browser            *)
(* (_issue_command); the watchdog thread asks for restarts and kills stray *)
(* processes.  The threads share the fields of the browsers, the failure   *)
(* status and the failure count.                                           *)
(*                                                                         *)
(* The script that uses the TaskManager is external: it executes           *)
(* sequences, each for a browser, any browser, all browsers ("all": the    *)
(* code's '*') or all of them in step ("sync": '**'), and closes.  It does *)
(* not catch an exception other than to close.                             *)
(***************************************************************************)
EXTENDS Browser

CONSTANTS
  CommandSequence, \* records: commands (how many), reset, blocking
  Target,          \* which of "any", "one", "all" and "sync" the script uses
  FailureLimit,    \* failure_limit
  VisitPerCall,    \* TRUE: crawler_emails takes a visit id for each call;
                   \* FALSE: crawler_mailinglists for each thread it starts
  Archive,         \* profile_archive_dir is set
  ProcessWatchdog, \* process_watchdog
  MaxCalls,        \* bound: sequences the script executes
  MaxAlarms        \* bound: times a browser exceeds BROWSER_MEMORY_LIMIT

ASSUME TaskManagerAssumption ==
  /\ \A s \in CommandSequence : /\ s.commands \in Nat
                                /\ s.reset \in BOOLEAN /\ s.blocking \in BOOLEAN
  /\ Target \subseteq {"any", "one", "all", "sync"}
  /\ FailureLimit \in Nat /\ MaxCalls \in Nat /\ MaxAlarms \in Nat
  /\ {VisitPerCall, Archive, ProcessWatchdog} \subseteq BOOLEAN

VARIABLES
  main,            \* where the main thread is
  thread,          \* the command thread of each browser
  closing,         \* closing
  failureStatus,   \* failure_status: its ErrorType, or "none"
  failureCount,    \* failurecount
  restartRequired, \* restart_required of each browser
  currVisit,       \* curr_visit_id of each browser
  nextVisit,       \* next_visit_id
  siteVisits,      \* the rows sent to site_visits, in order
  finished,        \* crawl.finished of each browser: 0, 1 or -1
  calls,           \* sequences executed so far (bounded by MaxCalls)
  alarms,          \* memory alarms so far (bounded by MaxAlarms)
  abandoned,       \* history: browsers whose thread outlived its join
  escaped,         \* history: browsers whose launch raised in their thread
  exceeded         \* history: more than FailureLimit commands failed in a row

failureVars == <<failureStatus, failureCount>>
visitVars   == <<currVisit, nextVisit, siteVisits>>
historyVars == <<abandoned, escaped, exceeded>>
managerVars == <<main, thread, closing, failureVars, restartRequired, visitVars,
                 finished, calls, alarms, historyVars>>
vars        == <<browserVars, managerVars>>

DeadThread == [pc |-> "dead"]

MainAt(l) == main' = [main EXCEPT !.pc = l]
ThreadAt(b, l) == thread' = [thread EXCEPT ![b].pc = l]
ThreadEnds(b) == thread' = [thread EXCEPT ![b] = DeadThread]

(* ready: the browser has no live command thread.                          *)
IsReady(b) == thread[b].pc = "dead"

-----------------------------------------------------------------------------
(* Shutdown.  _shutdown_manager goes over the browsers: it joins the       *)
(* command thread for a limited time, kills, archives the profile and      *)
(* removes it, and marks the crawl as finished.  result is 1 or -1,        *)
(* during_init what shutdown_browser is told.                              *)

Shutdown(result, duringInit) ==
  /\ closing' = TRUE
  /\ main' = [pc |-> "join", b |-> 1, result |-> result, during_init |-> duringInit,
              seen |-> thread[1]]

(* The join lasts ten seconds longer than the timeout of the command that  *)
(* was running when it began, or of the whole sequence if none was: it can *)
(* end without the thread only if the thread has more to do than that.     *)
Outlasts(b) ==
  \/ thread[b].pc \in {"wait", "launch"}
  \/ /\ thread[b].pc \in {"await", "limit"} /\ main.seen.pc # "start"
     /\ thread[b].n > main.seen.n

ThreadJoined(b) == IsReady(b) /\ UNCHANGED abandoned

(* A mutant: the join has no time limit.                                   *)
JoinOverNoLimit(b) == ThreadJoined(b)

JoinOver(b) ==
  \/ ThreadJoined(b)
  \/ ~IsReady(b) /\ Outlasts(b) /\ abandoned' = abandoned \cup {b}

JoinEnds(b) ==
  /\ main.pc = "join" /\ main.b = b
  /\ JoinOver(b) /\ MainAt("kill")
  /\ UNCHANGED <<browserVars, thread, closing, failureVars, restartRequired, visitVars,
                 finished, calls, alarms, escaped, exceeded>>

KillAtShutdown(b) ==
  /\ main.pc = "kill" /\ main.b = b
  /\ Kill(b) /\ MainAt("archive")
  /\ UNCHANGED <<gen, queueVars, pidVars, profileVars, launch, childFaults, thread, closing,
                 failureVars, restartRequired, visitVars, finished, calls, alarms, historyVars>>

(* dump_profile raises when there is no profile directory; otherwise the   *)
(* next browser follows, and after the last one the aggregators.           *)
ArchiveRaises(b) ==
  /\ ~main.during_init /\ Archive /\ <<b, currentProfile[b]>> \notin profiles

FinishBrowser(b) ==
  /\ main.pc = "archive" /\ main.b = b
  /\ IF ArchiveRaises(b)
     THEN main' = [pc |-> "aborted"] /\ UNCHANGED <<profiles, finished>>
     ELSE /\ profiles' = profiles \ {<<b, currentProfile[b]>>}
          /\ finished' = [finished EXCEPT ![b] = main.result]
          /\ main' = IF b = NumBrowsers THEN [pc |-> "closed"]
                     ELSE [main EXCEPT !.pc = "join", !.b = b + 1, !.seen = thread[b + 1]]
  /\ UNCHANGED <<gen, manager, queueVars, processVars, pidVars, currentProfile, isFresh,
                 launch, childFaults, thread, closing, failureVars, restartRequired,
                 visitVars, calls, alarms, historyVars>>

ShutdownStep ==
  \E b \in Browser : JoinEnds(b) \/ KillAtShutdown(b) \/ FinishBrowser(b)

-----------------------------------------------------------------------------
(* _launch_browsers, in the constructor *)

LaunchNext(b) ==
  /\ main.pc = "launch" /\ main.b = b /\ launch[b].step = "none"
  /\ Launch(b, currentProfile[b])
  /\ UNCHANGED <<gen, manager, queueVars, processVars, pidVars, profileVars, childFaults,
                 managerVars>>

Launched(b) ==
  /\ main.pc = "launch" /\ main.b = b /\ launch[b].step \in {"ok", "failed", "raised"}
  /\ LaunchAt(b, "none")
  /\ CASE launch[b].step = "ok" ->
            /\ main' = IF b = NumBrowsers THEN [pc |-> "idle"] ELSE [main EXCEPT !.b = b + 1]
            /\ UNCHANGED closing
       [] launch[b].step = "failed" -> Shutdown(1, FALSE)
       [] launch[b].step = "raised" -> Shutdown(-1, TRUE)
  /\ UNCHANGED <<gen, manager, queueVars, processVars, pidVars, profileVars, childFaults,
                 thread, failureVars, restartRequired, visitVars, finished, calls, alarms,
                 historyVars>>

-----------------------------------------------------------------------------
(* Executing a command sequence *)

(* The script calls execute_command_sequence.  main.left are the browsers  *)
(* that have still to get the sequence, {0} for any one of them.           *)
Execute(s, index, b) ==
  /\ main.pc = "idle" /\ calls < MaxCalls /\ calls' = calls + 1
  /\ main' = [pc |-> "distribute", sequence |-> s, index |-> index,
              left |-> CASE index = "any" -> {0} [] index = "one" -> {b}
                         [] index \in {"all", "sync"} -> Browser,
              at |-> IF index = "one" THEN b ELSE 1,
              visit |-> nextVisit, last |-> 0]
  /\ nextVisit' = IF VisitPerCall THEN nextVisit + 1 ELSE nextVisit
  /\ UNCHANGED <<browserVars, thread, closing, failureVars, restartRequired, currVisit,
                 siteVisits, finished, alarms, historyVars>>

(* The loops of _distribute_command look at one browser after the other.   *)
NextBrowser(b) == IF main.index = "one" THEN b ELSE (b % NumBrowsers) + 1

Wanted(b) == main.left = {0} \/ b \in main.left

LookElsewhere(b) ==
  /\ main.pc = "distribute" /\ main.at = b /\ main.left # {}
  /\ ~(Wanted(b) /\ IsReady(b)) /\ NextBrowser(b) # b
  /\ main' = [main EXCEPT !.at = NextBrowser(b)]
  /\ UNCHANGED <<browserVars, thread, closing, failureVars, restartRequired, visitVars,
                 finished, calls, alarms, historyVars>>

(* The failure status is checked before each thread, not before the call.  *)
CheckFails(b) ==
  /\ main.pc = "distribute" /\ main.at = b /\ Wanted(b) /\ IsReady(b)
  /\ failureStatus # "none"
  /\ Shutdown(-1, FALSE)
  /\ UNCHANGED <<browserVars, thread, failureVars, restartRequired, visitVars, finished,
                 calls, alarms, historyVars>>

NewThread == [pc |-> "start", sequence |-> main.sequence, n |-> 1,
              call |-> calls, synced |-> main.index = "sync"]

(* The thread of b is started for visit id, once that is recorded.         *)
StartVisit(b, id) ==
  /\ main.pc = "distribute" /\ main.at = b /\ Wanted(b) /\ IsReady(b)
  /\ failureStatus = "none"
  /\ siteVisits' = Append(siteVisits, [id |-> id, browser |-> b])
  /\ thread' = [thread EXCEPT ![b] = NewThread]
  /\ main' = [main EXCEPT !.left = IF @ = {0} THEN {} ELSE @ \ {b},
                          !.at = NextBrowser(b), !.last = b]
  /\ UNCHANGED <<browserVars, closing, failureVars, restartRequired, finished, calls,
                 alarms, historyVars>>

SetVisit(b, id) == currVisit' = [currVisit EXCEPT ![b] = id]

(* A mutant: the thread is started before set_visit_id, and so keeps the   *)
(* previous visit id.                                                      *)
StartThreadStaleVisit(b) ==
  /\ StartVisit(b, nextVisit) /\ nextVisit' = nextVisit + 1 /\ UNCHANGED currVisit

(* A mutant: the id is not advanced for the second of two threads.         *)
StartThreadSameVisit(b) ==
  /\ StartVisit(b, main.visit) /\ SetVisit(b, main.visit)
  /\ nextVisit' = main.visit + 1

(* _start_thread, with the id of the call or with one of its own.          *)
StartWithCall(b) ==
  VisitPerCall /\ StartVisit(b, main.visit) /\ SetVisit(b, main.visit) /\ UNCHANGED nextVisit

StartWithOwn(b) ==
  /\ ~VisitPerCall /\ StartVisit(b, nextVisit) /\ SetVisit(b, nextVisit)
  /\ nextVisit' = nextVisit + 1

StartThread(b) == StartWithCall(b) \/ StartWithOwn(b)

(* All threads are started: those that wait in step are notified, and a    *)
(* blocking call goes on to join the last one.                             *)
Distributed ==
  /\ main.pc = "distribute" /\ main.left = {}
  /\ thread' = [b \in Browser |->
       IF main.index = "sync" /\ thread[b].pc = "wait" /\ thread[b].call = calls
       THEN [thread[b] EXCEPT !.pc = "next"] ELSE thread[b]]
  /\ main' = IF main.sequence.blocking THEN [pc |-> "block", b |-> main.last]
             ELSE [pc |-> "idle"]
  /\ UNCHANGED <<browserVars, closing, failureVars, restartRequired, visitVars, finished,
                 calls, alarms, historyVars>>

(* thread.join() of a blocking call, and the check after it.               *)
Unblocked ==
  /\ main.pc = "block" /\ IsReady(main.b)
  /\ IF failureStatus = "none" THEN main' = [pc |-> "idle"] /\ UNCHANGED closing
     ELSE Shutdown(-1, FALSE)
  /\ UNCHANGED <<browserVars, thread, failureVars, restartRequired, visitVars, finished,
                 calls, alarms, historyVars>>

Close ==
  /\ main.pc = "idle"
  /\ Shutdown(1, FALSE)
  /\ UNCHANGED <<browserVars, thread, failureVars, restartRequired, visitVars, finished,
                 calls, alarms, historyVars>>

DistributeStep ==
  \/ \E b \in Browser : LookElsewhere(b) \/ CheckFails(b) \/ StartThread(b)
  \/ Distributed \/ Unblocked

-----------------------------------------------------------------------------
(* _issue_command, the command thread of browser b *)

StartSequence(b) ==
  /\ thread[b].pc = "start"
  /\ isFresh' = [isFresh EXCEPT ![b] = FALSE]
  /\ ThreadAt(b, IF thread[b].synced THEN "wait" ELSE "next")
  /\ UNCHANGED <<gen, manager, queueVars, processVars, pidVars, profiles, currentProfile,
                 launch, childFaults, main, closing, failureVars, restartRequired,
                 visitVars, finished, calls, alarms, historyVars>>

SendCommand(b) ==
  /\ thread[b].pc = "next" /\ thread[b].n <= thread[b].sequence.commands
  /\ commandQueue' = [commandQueue EXCEPT ![b] =
       Append(@, [visit |-> currVisit[b], n |-> thread[b].n])]
  /\ ThreadAt(b, "await")
  /\ UNCHANGED <<gen, manager, statusQueue, processVars, pidVars, profileVars, launch,
                 childFaults, main, closing, failureVars, restartRequired, visitVars,
                 finished, calls, alarms, historyVars>>

SequenceDone(b) ==
  /\ thread[b].pc = "next" /\ thread[b].n > thread[b].sequence.commands
  /\ ThreadAt(b, "drain")
  /\ UNCHANGED <<browserVars, main, closing, failureVars, restartRequired, visitVars,
                 finished, calls, alarms, historyVars>>

(* An answer arrives ...                                                   *)
Answer(b, k) ==
  /\ thread[b].pc = "await" /\ statusQueue[b] # <<>>
  /\ Head(statusQueue[b]).kind \in k
  /\ statusQueue' = [statusQueue EXCEPT ![b] = Tail(@)]

(* ... the command succeeded: the next one follows unless the watchdog has *)
(* asked for a restart;                                                    *)
CommandSucceeded(b) ==
  /\ Answer(b, {"OK"})
  /\ failureCount' = 0
  /\ thread' = [thread EXCEPT ![b].pc = IF restartRequired[b] THEN "drain" ELSE "next",
                              ![b].n = @ + 1]
  /\ UNCHANGED <<gen, manager, commandQueue, processVars, pidVars, profileVars, launch,
                 childFaults, main, closing, failureStatus, restartRequired, visitVars,
                 finished, calls, alarms, abandoned, escaped, exceeded>>

(* ... or the child died of something critical;                            *)
CommandCritical(b) ==
  /\ Answer(b, {"CRITICAL"})
  /\ failureStatus' = "CriticalChildException"
  /\ ThreadEnds(b)
  /\ UNCHANGED <<gen, manager, commandQueue, processVars, pidVars, profileVars, launch,
                 childFaults, main, closing, failureCount, restartRequired, visitVars,
                 finished, calls, alarms, historyVars>>

AnsweredFailed(b) == Answer(b, {"FAILED"}) /\ UNCHANGED childFaults

(* A mutant: the answer is awaited for ever.                               *)
NoSuccessNoTimeout(b) == AnsweredFailed(b)

(* ... or it failed, or there was no answer in time: a dead child never    *)
(* answers, another one may be slow.                                       *)
NoSuccess(b) ==
  \/ AnsweredFailed(b)
  \/ /\ thread[b].pc = "await" /\ statusQueue[b] = <<>> /\ UNCHANGED statusQueue
     /\ IF manager[b].pc = "dead" THEN UNCHANGED childFaults ELSE Fault

CommandFailed(b) ==
  /\ NoSuccess(b)
  /\ failureCount' = failureCount + 1
  /\ exceeded' = (exceeded \/ failureCount' > FailureLimit)
  /\ ThreadAt(b, "limit")
  /\ UNCHANGED <<gen, manager, commandQueue, processVars, pidVars, profileVars, launch,
                 main, closing, failureStatus, restartRequired, visitVars, finished,
                 calls, alarms, abandoned, escaped>>

GiveUp(b) ==
  /\ failureStatus' = "ExceedCommandFailureLimit" /\ ThreadEnds(b)
  /\ UNCHANGED restartRequired

(* A mutant: a failed command does not ask for a restart.                  *)
AskNoRestart(b) ==
  /\ thread' = [thread EXCEPT ![b].pc = "next", ![b].n = @ + 1]
  /\ UNCHANGED <<failureStatus, restartRequired>>

AskRestart(b) ==
  /\ restartRequired' = [restartRequired EXCEPT ![b] = TRUE]
  /\ ThreadAt(b, "drain") /\ UNCHANGED failureStatus

OverLimit == failureCount > FailureLimit

(* The count is read again, without the lock it was incremented under.     *)
CheckLimit(b) ==
  /\ thread[b].pc = "limit"
  /\ \/ OverLimit /\ GiveUp(b)
     \/ ~OverLimit /\ AskRestart(b)
  /\ UNCHANGED <<browserVars, main, closing, failureCount, visitVars, finished, calls,
                 alarms, historyVars>>

(* After the sequence: nothing more when closing, a restart if needed.     *)
AfterSequence(b) ==
  LET reset == thread[b].sequence.reset IN
  /\ thread[b].pc = "drain"
  /\ IF closing \/ ~(restartRequired[b] \/ reset)
     THEN ThreadEnds(b) /\ UNCHANGED <<manager, processVars, profiles, currentProfile, launch>>
     ELSE ThreadAt(b, "launch") /\ Restart(b, reset)
  /\ UNCHANGED <<gen, queueVars, pidVars, isFresh, childFaults, main, closing, failureVars,
                 restartRequired, visitVars, finished, calls, alarms, historyVars>>

(* A mutant: a failed launch is not reported.                              *)
LaunchFailureUnseen(b) == FALSE

LaunchFailure(b) == launch[b].step = "failed"

(* The restart is over; an exception in it ends the thread and is seen by  *)
(* nobody.                                                                 *)
Restarted(b) ==
  /\ thread[b].pc = "launch" /\ launch[b].step \in {"ok", "failed", "raised"}
  /\ LaunchAt(b, "none") /\ ThreadEnds(b)
  /\ failureStatus' = IF LaunchFailure(b) THEN "ExceedLaunchFailureLimit" ELSE failureStatus
  /\ restartRequired' = [restartRequired EXCEPT ![b] = @ /\ launch[b].step # "ok"]
  /\ escaped' = IF launch[b].step = "raised" THEN escaped \cup {b} ELSE escaped
  /\ UNCHANGED <<gen, manager, queueVars, processVars, pidVars, profileVars, childFaults,
                 main, closing, failureCount, visitVars, finished, calls, alarms,
                 abandoned, exceeded>>

ThreadStep(b) ==
  \/ StartSequence(b) \/ SendCommand(b) \/ SequenceDone(b)
  \/ CommandSucceeded(b) \/ CommandCritical(b) \/ CommandFailed(b)
  \/ CheckLimit(b) \/ AfterSequence(b) \/ Restarted(b)

-----------------------------------------------------------------------------
(* _manager_watchdog *)

(* Firefox uses too much memory.                                           *)
MemoryAlarm(b) ==
  /\ ~closing /\ main.pc # "launch"
  /\ alarms < MaxAlarms /\ alarms' = alarms + 1
  /\ <<b, browserPid[b]>> \in firefoxes
  /\ restartRequired' = [restartRequired EXCEPT ![b] = TRUE]
  /\ UNCHANGED <<browserVars, main, thread, closing, failureVars, visitVars, finished,
                 calls, historyVars>>

(* With process_watchdog: processes that belong to no browser are killed   *)
(* if they are older than 300 seconds, and so may be those of a spawn      *)
(* attempt under way that is slow.                                         *)
Stray == {p \in displays : p[2] # displayPid[p[1]]}
         \cup {p \in firefoxes : p[2] # browserPid[p[1]]}

UnderWay(p) == launch[p[1]].step = "status" /\ p[2] = gen[p[1]]

KillStrays ==
  /\ ProcessWatchdog /\ ~closing /\ main.pc # "launch"
  /\ \E old \in (SUBSET Stray) \ {{}} :
       /\ {p \in Stray : ~UnderWay(p)} \subseteq old
       /\ IF \E p \in old : UnderWay(p) THEN Fault ELSE UNCHANGED childFaults
       /\ displays' = {p \in displays : ~(p \in old /\ p[2] # displayPid[p[1]])}
       /\ firefoxes' = {p \in firefoxes : ~(p \in old /\ p[2] # browserPid[p[1]])}
  /\ UNCHANGED <<gen, manager, queueVars, pidVars, profileVars, launch, managerVars>>

-----------------------------------------------------------------------------
Init ==
  /\ BrowserInit
  /\ main = [pc |-> "launch", b |-> 1]
  /\ thread = [b \in Browser |-> DeadThread]
  /\ closing = FALSE
  /\ failureStatus = "none" /\ failureCount = 0
  /\ restartRequired = [b \in Browser |-> FALSE]
  /\ currVisit = [b \in Browser |-> 0]
  /\ nextVisit = 1 /\ siteVisits = <<>>
  /\ finished = [b \in Browser |-> 0]
  /\ calls = 0 /\ alarms = 0
  /\ abandoned = {} /\ escaped = {} /\ exceeded = FALSE

MainStep ==
  \/ \E b \in Browser : LaunchNext(b) \/ Launched(b)
  \/ DistributeStep \/ ShutdownStep

BrowserStep(b) == (ChildStep(b) \/ LaunchStep(b)) /\ UNCHANGED managerVars

Next ==
  \/ MainStep
  \/ \E s \in CommandSequence, t \in Target, b \in Browser : Execute(s, t, b)
  \/ Close
  \/ \E b \in Browser : ThreadStep(b) \/ BrowserStep(b) \/ MemoryAlarm(b)
  \/ KillStrays

Spec == Init /\ [][Next]_vars

(* Threads run, and a launch reads its queue or times out.  Children may   *)
(* hang, and the script need not call anything.                            *)
Fairness ==
  /\ WF_vars(MainStep)
  /\ \A b \in Browser : /\ WF_vars(ThreadStep(b))
                         /\ WF_vars(LaunchStep(b) /\ UNCHANGED managerVars)

FairSpec == Spec /\ Fairness

(* Children run, too: they hang only as often as MaxFaults allows.         *)
ServedSpec ==
  FairSpec /\ \A b \in Browser : WF_vars(ChildStep(b) /\ UNCHANGED managerVars)

-----------------------------------------------------------------------------
MainTypeOK ==
  \/ main.pc \in {"idle", "closed", "aborted"}
  \/ main.pc \in {"launch", "block"} /\ main.b \in Browser
  \/ /\ main.pc \in {"join", "kill", "archive"} /\ main.b \in Browser
     /\ main.result \in {-1, 1} /\ main.during_init \in BOOLEAN
  \/ /\ main.pc = "distribute" /\ main.sequence \in CommandSequence
     /\ main.index \in Target /\ main.left \subseteq {0} \cup Browser
     /\ main.at \in Browser /\ main.visit \in Nat /\ main.last \in {0} \cup Browser

TypeOK ==
  /\ BrowserTypeOK /\ MainTypeOK
  /\ \A b \in Browser :
       \/ thread[b] = DeadThread
       \/ thread[b] \in [pc : {"start", "wait", "next", "await", "limit", "drain", "launch"},
                         sequence : CommandSequence, n : Nat \ {0}, call : Nat,
                         synced : BOOLEAN]
  /\ closing \in BOOLEAN /\ exceeded \in BOOLEAN
  /\ failureStatus \in {"none", "CriticalChildException", "ExceedCommandFailureLimit",
                        "ExceedLaunchFailureLimit"}
  /\ failureCount \in Nat
  /\ restartRequired \in [Browser -> BOOLEAN]
  /\ currVisit \in [Browser -> Nat] /\ nextVisit \in Nat
  /\ siteVisits \in Seq([id : Nat, browser : Browser])
  /\ finished \in [Browser -> {-1, 0, 1}]
  /\ calls \in 0 .. MaxCalls /\ alarms \in 0 .. MaxAlarms
  /\ abandoned \subseteq Browser /\ escaped \subseteq Browser

-----------------------------------------------------------------------------
(* Commands and visits *)

(* An answer taken for a command is the answer to that command: a late one *)
(* of a command that timed out is never in the queue (_issue_command,      *)
(* launch_browser_manager).                                                *)
AnswersMatch ==
  \A b \in Browser : thread[b].pc = "await" =>
    LET command == [visit |-> currVisit[b], n |-> thread[b].n] IN
    /\ \A i \in DOMAIN statusQueue[b] :
         statusQueue[b][i].kind = "OK" => statusQueue[b][i].command = command
    /\ manager[b].pc = "busy" => manager[b].command = command

(* What a browser executes belongs to the last visit that was recorded for *)
(* it in site_visits (_start_thread).                                      *)
CommandsBelongToVisits ==
  \A b \in Browser : manager[b].pc = "busy" =>
    \E i \in DOMAIN siteVisits :
      /\ siteVisits[i] = [id |-> manager[b].command.visit, browser |-> b]
      /\ \A j \in DOMAIN siteVisits : siteVisits[j].browser = b => j <= i

(* A site visit is "keyed by a visit id" (CommandSequence.py:6): no two    *)
(* rows of site_visits have the same.                                      *)
VisitIdsUnique ==
  \A i, j \in DOMAIN siteVisits : siteVisits[i].id = siteVisits[j].id => i = j

-----------------------------------------------------------------------------
(* Failures *)

(* "TaskManager exceeded maximum consecutive command execution failures"   *)
(* (TaskManager.py:338): when they are exceeded, it is given up.           *)
LimitEnforced ==
  exceeded /\ (\A b \in Browser : thread[b].pc # "limit") => failureStatus # "none"

Serving == main.pc \in {"idle", "distribute", "block"}

(* A browser without a command thread waits for commands, or the failure   *)
(* of its launch is known and stops the crawl, or its launch raised        *)
(* (Restarted).                                                            *)
UnusableIsReported ==
  \A b \in Browser :
    Serving /\ IsReady(b) => \/ manager[b].pc = "loop"
                            \/ failureStatus # "none"
                            \/ b \in escaped

(* ready(): "return if the browser is ready to accept a command"           *)
(* (BrowserManager.py:64).                                                 *)
ReadyIsReady ==
  \A b \in Browser :
    Serving /\ failureStatus = "none" /\ IsReady(b) => manager[b].pc = "loop"

(* The profile a browser would recover from is on disk at all times, until *)
(* the shutdown: through crashes, time-outs and failed relaunches          *)
(* (launch_browser_manager).                                               *)
ProfileKept ==
  ~closing => \A b \in Browser :
    currentProfile[b] # 0 => <<b, currentProfile[b]>> \in profiles

-----------------------------------------------------------------------------
(* Shutdown *)

Running(b) ==
  \/ manager[b].pc # "dead"
  \/ \E p \in displays \cup firefoxes : p[1] = b

(* When nothing failed and every thread ended within its join, the         *)
(* shutdown leaves no process and no profile directory                     *)
(* (shutdown_browser, kill_browser_manager).                               *)
NothingLeftBehind ==
  main.pc = "closed" /\ childFaults = 0 =>
    \A b \in Browser \ abandoned : /\ ~Running(b)
                                   /\ \A p \in profiles : p[1] # b

(* "Wait for current commands to finish, close all child processes and     *)
(* threads" (TaskManager.py:293): with no exception for a thread that      *)
(* outlived its join.                                                      *)
AllClosed ==
  main.pc = "closed" /\ childFaults = 0 => \A b \in Browser : ~Running(b)

(* "This should keep us from having a bunch of hanging processes and       *)
(* incomplete data" (TaskManager.py:317): once the shutdown has ended, one *)
(* way or the other, no child is left.                                     *)
NoHangingProcesses ==
  main.pc \in {"closed", "aborted"} =>
    \A b \in Browser \ abandoned : manager[b].pc = "dead"

-----------------------------------------------------------------------------
(* Progress *)

(* Every command sequence ends, whatever its browser does: answers, fails, *)
(* hangs or cannot be launched again (_issue_command).                     *)
SequencesEnd ==
  \A b \in Browser : thread[b].pc # "dead" ~> thread[b].pc = "dead"

(* A shutdown ends even if command threads hang (_shutdown_manager).       *)
ShutdownEnds == closing ~> main.pc \in {"closed", "aborted"}
=============================================================================
