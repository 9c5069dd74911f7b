------------------------- MODULE TaskManager_proofs -------------------------
(***************************************************************************)
(* What holds of a crawl for any number of browsers, sequences and limits: *)
(* its state is well typed; the profile to recover from is on disk; a      *)
(* crawl is given up for its limits only; visit ids are unique where one   *)
(* thread uses each; an answer is the answer to the command that was sent; *)
(* a command belongs to the last visit recorded for its browser; a browser *)
(* without a thread is usable or known not to be; and without faults a     *)
(* shutdown leaves no process and no profile behind.                       *)
(***************************************************************************)
EXTENDS TaskManager, SequenceTheorems, TLAPS

-----------------------------------------------------------------------------
(* The invariants *)

(* The records of the state, with the fields each has.                     *)
Manager == [pc : {"dead", "boot", "profile", "display", "firefox", "launched", "loop"}]
           \cup [pc : {"busy"}, command : Command]

Status == [kind : {"OK"}, command : Command]
          \cup [kind : {"ProfileCreated", "Display", "BrowserLaunched",
                        "BrowserReady", "FAILED", "CRITICAL"}]

Activation == [step : {"none", "ok", "failed", "raised"}]
              \cup [step : {"dump", "spawn", "status"}, failures : 0 .. SpawnLimit,
                    spawned : Nat]

LivePC == {"start", "wait", "next", "await", "limit", "drain", "launch"}

LiveThread == [pc : LivePC, sequence : CommandSequence, n : Nat \ {0}, call : Nat,
               synced : BOOLEAN]

Thread == {DeadThread} \cup LiveThread

Closing == [pc : {"join", "kill", "archive"}, b : Browser, result : {-1, 1},
            during_init : BOOLEAN, seen : Thread]

Distributing == [pc : {"distribute"}, sequence : CommandSequence, index : Target,
                 left : SUBSET ({0} \cup Browser), at : Browser, visit : Nat,
                 last : {0} \cup Browser]

Main == [pc : {"idle", "closed", "aborted"}]
        \cup [pc : {"launch", "block"}, b : Browser]
        \cup Closing \cup Distributing

BrowserState ==
  /\ gen \in [Browser -> Nat]
  /\ manager \in [Browser -> Manager]
  /\ commandQueue \in [Browser -> Seq(Command)]
  /\ statusQueue \in [Browser -> Seq(Status)]
  /\ displays \subseteq Browser \X Nat
  /\ firefoxes \subseteq Browser \X Nat
  /\ profiles \subseteq Browser \X Nat
  /\ displayPid \in [Browser -> Nat]
  /\ browserPid \in [Browser -> Nat]
  /\ currentProfile \in [Browser -> Nat]
  /\ isFresh \in [Browser -> BOOLEAN]
  /\ launch \in [Browser -> Activation]
  /\ \A b \in Browser : launch[b].step \in {"dump", "spawn", "status"} =>
       launch[b].spawned <= gen[b]
  /\ \A b \in Browser : launch[b].step = "status" => launch[b].failures < SpawnLimit
  /\ childFaults \in 0 .. MaxFaults

ManagerState ==
  /\ main \in Main
  /\ main.pc = "distribute" => main.left # {} \/ main.last # 0
  /\ thread \in [Browser -> Thread]
  /\ closing \in BOOLEAN /\ exceeded \in BOOLEAN
  /\ failureStatus \in {"none", "CriticalChildException", "ExceedCommandFailureLimit",
                        "ExceedLaunchFailureLimit"}
  /\ failureCount \in Nat
  /\ restartRequired \in [Browser -> BOOLEAN]
  /\ currVisit \in [Browser -> Nat] /\ nextVisit \in Nat
  /\ siteVisits \in Seq([id : Nat, browser : Browser])
  /\ finished \in [Browser -> {-1, 0, 1}]
  /\ calls \in 0 .. MaxCalls /\ alarms \in 0 .. MaxAlarms
  /\ abandoned \subseteq Browser /\ escaped \subseteq Browser

(* Where the threads are: closing is set as soon as the shutdown begins;   *)
(* only the main thread launches browsers at first, one after the other,   *)
(* then only the thread of a browser; a browser that has been given a      *)
(* sequence is not fresh.                                                  *)
ShutPC == {"join", "kill", "archive", "closed", "aborted"}

Control ==
  /\ closing <=> main.pc \in ShutPC
  /\ main.pc = "launch" => \A b \in Browser : thread[b].pc = "dead"
  /\ \A b \in Browser :
       /\ launch[b].step # "none" => \/ thread[b].pc = "launch"
                                     \/ main.pc = "launch" /\ main.b = b
       /\ thread[b].pc \in {"wait", "next", "await", "limit", "drain"} => ~isFresh[b]

(* The profile under way is another than the one to recover from, and it   *)
(* is on disk from the moment it was announced.                            *)
Announced(b) == \E i \in DOMAIN statusQueue[b] : statusQueue[b][i].kind = "ProfileCreated"

ProfileInv ==
  /\ ProfileKept
  /\ \A b \in Browser :
       /\ currentProfile[b] <= gen[b]
       /\ launch[b].step = "dump" => currentProfile[b] # 0
       /\ launch[b].step = "status" =>
            /\ currentProfile[b] < gen[b]
            /\ launch[b].spawned \in {0, gen[b]}
            /\ Announced(b) \/ launch[b].spawned # 0 => <<b, gen[b]>> \in profiles

(* The child has nothing to do and owes no answer, or is dead, and then a  *)
(* launch raised or the crawl is over.                                     *)
NoAnswer(b) == \A i \in DOMAIN statusQueue[b] : statusQueue[b][i].kind # "OK"

Waiting(b) ==
  /\ NoAnswer(b)
  /\ \/ manager[b].pc = "dead" /\ (closing \/ b \in escaped)
     \/ manager[b].pc = "loop" /\ commandQueue[b] = <<>> /\ statusQueue[b] = <<>>

(* The command that was sent is in the queue, being executed or answered,  *)
(* or the child is dead.                                                   *)
Sent(b) == [visit |-> currVisit[b], n |-> thread[b].n]
Done(b) == [kind |-> "OK", command |-> Sent(b)]

Asked(b) ==
  \/ manager[b].pc = "dead" /\ NoAnswer(b)
  \/ manager[b].pc = "dead" /\ statusQueue[b] = <<Done(b)>> /\ closing
  \/ manager[b].pc = "loop" /\ commandQueue[b] = <<Sent(b)>> /\ statusQueue[b] = <<>>
  \/ manager[b].pc = "loop" /\ commandQueue[b] = <<>> /\ statusQueue[b] = <<Done(b)>>
  \/ /\ manager[b] = [pc |-> "busy", command |-> Sent(b)]
     /\ commandQueue[b] = <<>> /\ statusQueue[b] = <<>>

(* A spawn attempt: no commands yet, and the last status is the last.      *)
Spawning(b) ==
  /\ NoAnswer(b) /\ commandQueue[b] = <<>> /\ manager[b].pc # "busy"
  /\ \A i \in DOMAIN statusQueue[b] :
       /\ statusQueue[b][i].kind = "BrowserReady" =>
            /\ i = Len(statusQueue[b])
            /\ manager[b].pc = "loop" \/ (manager[b].pc = "dead" /\ closing)
       /\ statusQueue[b][i].kind = "CRITICAL" => manager[b].pc = "dead"

Launching(b) ==
  /\ launch[b].step = "status" => Spawning(b)
  /\ launch[b].step = "ok" => Waiting(b)
  /\ launch[b].step = "raised" => closing \/ (manager[b].pc = "dead" /\ NoAnswer(b))

Usable(b) ==
  /\ main.pc = "launch" /\ b < main.b => Waiting(b)
  /\ main.pc # "launch" /\ thread[b].pc = "dead" =>
       closing \/ failureStatus # "none" \/ Waiting(b)
  /\ thread[b].pc \in {"start", "wait", "next"} => Waiting(b)
  /\ thread[b].pc = "await" => Asked(b)
  /\ thread[b].pc = "drain" => closing \/ restartRequired[b] \/ Waiting(b)

QueueOf(b) == Launching(b) /\ Usable(b)

QueueInv == \A b \in Browser : QueueOf(b)

(* The visit of a browser is the last one recorded for it, and all its     *)
(* commands are of this visit.                                             *)
Recorded(b) ==
  \E i \in DOMAIN siteVisits :
    /\ siteVisits[i] = [id |-> currVisit[b], browser |-> b]
    /\ \A j \in DOMAIN siteVisits : siteVisits[j].browser = b => j <= i

VisitOf(b) ==
  /\ thread[b].pc # "dead" => Recorded(b)
  /\ manager[b].pc = "busy" => manager[b].command.visit = currVisit[b] /\ Recorded(b)
  /\ manager[b].pc # "dead" => \A i \in DOMAIN commandQueue[b] :
       commandQueue[b][i].visit = currVisit[b] /\ Recorded(b)

VisitInv == \A b \in Browser : VisitOf(b)

(* Each visit id is used by one thread.                                    *)
OneThreadPerVisit == ~VisitPerCall \/ Target \subseteq {"any", "one"} \/ NumBrowsers = 1

IdInv ==
  /\ VisitIdsUnique
  /\ \A i \in DOMAIN siteVisits : siteVisits[i].id < nextVisit
  /\ main.pc = "distribute" /\ VisitPerCall =>
       /\ main.visit < nextVisit
       /\ \E b \in {0} \cup Browser : main.left \subseteq {b}
       /\ main.left # {} => \A i \in DOMAIN siteVisits : siteVisits[i].id # main.visit

(* A process or profile of a browser is one it knows of, by the pids and   *)
(* the path it keeps; during a spawn attempt, one of the attempt may be    *)
(* known by a status that is still in the queue.                           *)
InQueue(b, k) == \E i \in DOMAIN statusQueue[b] : statusQueue[b][i].kind = k

NoProcess(b) == \A g \in Nat : <<b, g>> \notin displays \cup firefoxes
NoProfile(b) == \A g \in Nat : <<b, g>> \notin profiles

Known(b) ==
  \A g \in Nat : /\ <<b, g>> \in displays => g = displayPid[b]
                 /\ <<b, g>> \in firefoxes => g = browserPid[b]
                 /\ <<b, g>> \in profiles => g = currentProfile[b]

AttemptKnown(b, g) ==
  /\ <<b, g>> \in displays =>
       g = gen[b] /\ (displayPid[b] = g \/ InQueue(b, "Display"))
  /\ <<b, g>> \in firefoxes =>
       /\ g = gen[b]
       /\ \/ browserPid[b] = g
          \/ InQueue(b, "BrowserLaunched")
          \/ manager[b].pc = "firefox"
  /\ <<b, g>> \in profiles =>
       \/ g = currentProfile[b]
       \/ g = gen[b] /\ (launch[b].spawned = g \/ InQueue(b, "ProfileCreated"))

Attempt(b) ==
  /\ \A g \in Nat : AttemptKnown(b, g)
  /\ ~InQueue(b, "FAILED") /\ ~InQueue(b, "CRITICAL")
  /\ manager[b].pc # "dead" => Intact(b)

(* The shutdown is through with b, or it is about to kill it or has.       *)
Passed(b) ==
  (main.pc \in {"join", "kill", "archive"} /\ b < main.b) \/ main.pc = "closed"
Ended(b) == Passed(b) \/ (main.pc \in {"kill", "archive"} /\ b = main.b)

(* The child and its processes were killed, and no new child is there.     *)
Killed(b) ==
  \/ launch[b].step \in {"dump", "spawn"}
  \/ main.pc = "launch" /\ b >= main.b /\ launch[b].step = "none"
  \/ main.pc = "archive" /\ b = main.b
  \/ Passed(b)

TidyOf(b) ==
  /\ launch[b].step # "status" => Known(b) /\ manager[b].pc \in {"dead", "loop", "busy"}
  /\ launch[b].step = "status" => Attempt(b)
  /\ Killed(b) => manager[b].pc = "dead" /\ NoProcess(b)
  /\ Ended(b) => thread[b].pc = "dead"
  /\ Passed(b) => NoProfile(b)

TidyInv == childFaults = 0 => \A b \in Browser \ abandoned : TidyOf(b)

-----------------------------------------------------------------------------
(* Type correctness.  Lemmas about the records and the queues come first.  *)

BootPC == {"dead", "boot", "profile", "display", "firefox", "launched", "loop"}
PlainKind == {"ProfileCreated", "Display", "BrowserLaunched", "BrowserReady", "FAILED",
              "CRITICAL"}
LiveStep == {"dump", "spawn", "status"}

LEMMA PutType ==
  ASSUME statusQueue \in [Browser -> Seq(Status)], NEW b \in Browser, NEW s \in Status,
         Put(b, s)
  PROVE  statusQueue' \in [Browser -> Seq(Status)]
  <1>1. Append(statusQueue[b], s) \in Seq(Status)
    OBVIOUS
  <1> QED
    BY <1>1 DEF Put

LEMMA PlainStatus ==
  ASSUME NEW k \in PlainKind
  PROVE  [kind |-> k] \in Status
  BY DEF PlainKind, Status

LEMMA DoneStatus ==
  ASSUME NEW c \in Command
  PROVE  [kind |-> "OK", command |-> c] \in Status
  BY DEF Status

LEMMA ManagerAtType ==
  ASSUME manager \in [Browser -> Manager], NEW b \in Browser, NEW l \in BootPC,
         ManagerAt(b, l)
  PROVE  manager' \in [Browser -> Manager]
  <1>1. [pc |-> l] \in Manager
    BY DEF Manager, BootPC
  <1> QED
    BY <1>1 DEF ManagerAt

LEMMA LaunchAtType ==
  ASSUME launch \in [Browser -> Activation], NEW b \in Browser,
         NEW l \in {"none", "ok", "failed", "raised"}, LaunchAt(b, l)
  PROVE  /\ launch' \in [Browser -> Activation]
         /\ launch'[b].step = l
         /\ \A a \in Browser \ {b} : launch'[a] = launch[a]
  <1>1. [step |-> l] \in Activation
    BY DEF Activation
  <1> QED
    BY <1>1 DEF LaunchAt

LEMMA HeadTailType ==
  ASSUME NEW S, NEW q \in Seq(S), q # <<>>
  PROVE  Head(q) \in S /\ Tail(q) \in Seq(S)
  BY HeadTailProperties

LEMMA BusyManager ==
  ASSUME NEW c \in Command
  PROVE  [pc |-> "busy", command |-> c] \in Manager
  BY DEF Manager

LEMMA ManagerCommand ==
  ASSUME NEW m \in Manager, m.pc = "busy"
  PROVE  m.command \in Command /\ m = [pc |-> "busy", command |-> m.command]
  BY DEF Manager

LEMMA TellType ==
  ASSUME statusQueue \in [Browser -> Seq(Status)], manager \in [Browser -> Manager],
         NEW b \in Browser, NEW k \in PlainKind, NEW l \in BootPC,
         Put(b, [kind |-> k]), ManagerAt(b, l)
  PROVE  /\ statusQueue' \in [Browser -> Seq(Status)]
         /\ manager' \in [Browser -> Manager]
  BY PlainStatus, PutType, ManagerAtType

LEMMA FaultType ==
  ASSUME childFaults \in 0 .. MaxFaults, Fault
  PROVE  childFaults' \in 0 .. MaxFaults
  BY BrowserAssumption DEF Fault

LEMMA OwnPair ==
  ASSUME gen \in [Browser -> Nat], NEW b \in Browser
  PROVE  {<<b, gen[b]>>} \subseteq Browser \X Nat
  OBVIOUS

LEMMA ChildType ==
  ASSUME BrowserState, NEW b \in Browser, ChildStep(b)
  PROVE  BrowserState'
  <1>1. CASE CreateProfile(b)
    <2>1. Put(b, [kind |-> "ProfileCreated"]) /\ ManagerAt(b, "profile")
      BY <1>1 DEF CreateProfile
    <2>2. "ProfileCreated" \in PlainKind /\ "profile" \in BootPC
      BY DEF PlainKind, BootPC
    <2>3. statusQueue' \in [Browser -> Seq(Status)] /\ manager' \in [Browser -> Manager]
      BY <2>1, <2>2, TellType DEF BrowserState
    <2>4. profiles' \subseteq Browser \X Nat
      BY <1>1, OwnPair DEF BrowserState, CreateProfile
    <2> QED
      BY <1>1, <2>3, <2>4 DEF BrowserState, CreateProfile, processVars, pidVars
  <1>2. CASE StartDisplay(b)
    <2>1. Put(b, [kind |-> "Display"]) /\ ManagerAt(b, "display")
      BY <1>2 DEF StartDisplay
    <2>2. "Display" \in PlainKind /\ "display" \in BootPC
      BY DEF PlainKind, BootPC
    <2>3. statusQueue' \in [Browser -> Seq(Status)] /\ manager' \in [Browser -> Manager]
      BY <2>1, <2>2, TellType DEF BrowserState
    <2>4. displays' \subseteq Browser \X Nat
      BY <1>2, OwnPair DEF BrowserState, StartDisplay
    <2> QED
      BY <1>2, <2>3, <2>4 DEF BrowserState, StartDisplay, pidVars, profileVars
  <1>3. CASE StartFirefox(b)
    <2>1. manager' \in [Browser -> Manager]
      BY <1>3, ManagerAtType DEF BrowserState, StartFirefox, BootPC
    <2>2. firefoxes' \subseteq Browser \X Nat
      BY <1>3, OwnPair DEF BrowserState, StartFirefox
    <2> QED
      BY <1>3, <2>1, <2>2 DEF BrowserState, StartFirefox, queueVars, pidVars, profileVars
  <1>4. CASE FirefoxLaunched(b)
    <2>1. Put(b, [kind |-> "BrowserLaunched"]) /\ ManagerAt(b, "launched")
      BY <1>4 DEF FirefoxLaunched
    <2>2. "BrowserLaunched" \in PlainKind /\ "launched" \in BootPC
      BY DEF PlainKind, BootPC
    <2>3. statusQueue' \in [Browser -> Seq(Status)] /\ manager' \in [Browser -> Manager]
      BY <2>1, <2>2, TellType DEF BrowserState
    <2> QED
      BY <1>4, <2>3 DEF BrowserState, FirefoxLaunched, processVars, pidVars, profileVars
  <1>5. CASE Ready(b)
    <2>1. Put(b, [kind |-> "BrowserReady"]) /\ ManagerAt(b, "loop")
      BY <1>5 DEF Ready
    <2>2. "BrowserReady" \in PlainKind /\ "loop" \in BootPC
      BY DEF PlainKind, BootPC
    <2>3. statusQueue' \in [Browser -> Seq(Status)] /\ manager' \in [Browser -> Manager]
      BY <2>1, <2>2, TellType DEF BrowserState
    <2> QED
      BY <1>5, <2>3 DEF BrowserState, Ready, processVars, pidVars, profileVars
  <1>6. CASE TakeCommand(b)
    <2>1. Head(commandQueue[b]) \in Command /\ Tail(commandQueue[b]) \in Seq(Command)
      BY <1>6, HeadTailType DEF BrowserState, TakeCommand
    <2>2. [pc |-> "busy", command |-> Head(commandQueue[b])] \in Manager
      BY <2>1, BusyManager
    <2> QED
      BY <1>6, <2>1, <2>2 DEF BrowserState, TakeCommand, processVars, pidVars, profileVars
  <1>7. CASE CommandDone(b)
    <2>1. [kind |-> "OK", command |-> manager[b].command] \in Status
      BY <1>7, ManagerCommand, DoneStatus DEF BrowserState, CommandDone
    <2> QED
      BY <1>7, <2>1, PutType, ManagerAtType
      DEF BrowserState, CommandDone, processVars, pidVars, profileVars, BootPC
  <1>8. CASE ChildFails(b)
    <2>1. Put(b, [kind |-> "FAILED"]) /\ ManagerAt(b, "dead")
      BY <1>8 DEF ChildFails
    <2>2. "FAILED" \in PlainKind /\ "dead" \in BootPC
      BY DEF PlainKind, BootPC
    <2>3. statusQueue' \in [Browser -> Seq(Status)] /\ manager' \in [Browser -> Manager]
      BY <2>1, <2>2, TellType DEF BrowserState
    <2>4. childFaults' \in 0 .. MaxFaults
      BY <1>8, FaultType DEF BrowserState, ChildFails
    <2> QED
      BY <1>8, <2>3, <2>4 DEF BrowserState, ChildFails, processVars, pidVars, profileVars
  <1>9. CASE ChildCritical(b)
    <2>1. Put(b, [kind |-> "CRITICAL"]) /\ ManagerAt(b, "dead")
      BY <1>9 DEF ChildCritical
    <2>2. "CRITICAL" \in PlainKind /\ "dead" \in BootPC
      BY DEF PlainKind, BootPC
    <2>3. statusQueue' \in [Browser -> Seq(Status)] /\ manager' \in [Browser -> Manager]
      BY <2>1, <2>2, TellType DEF BrowserState
    <2>4. childFaults' \in 0 .. MaxFaults
      BY <1>9, FaultType DEF BrowserState, ChildCritical
    <2> QED
      BY <1>9, <2>3, <2>4 DEF BrowserState, ChildCritical, processVars, pidVars, profileVars
  <1> QED
    BY <1>1, <1>2, <1>3, <1>4, <1>5, <1>6, <1>7, <1>8, <1>9 DEF ChildStep

(* The activation of a launch is at a statement, with its counters while   *)
(* it is under way.                                                        *)
LaunchState ==
  /\ launch \in [Browser -> Activation]
  /\ \A b \in Browser : launch[b].step \in LiveStep => launch[b].spawned <= gen[b]
  /\ \A b \in Browser : launch[b].step = "status" => launch[b].failures < SpawnLimit

LEMMA LiveActivation ==
  ASSUME NEW a \in Activation, a.step \in LiveStep
  PROVE  /\ a.failures \in 0 .. SpawnLimit /\ a.spawned \in Nat
         /\ a = [step |-> a.step, failures |-> a.failures, spawned |-> a.spawned]
  BY DEF Activation, LiveStep

LEMMA NewActivation ==
  ASSUME NEW s \in LiveStep, NEW f \in 0 .. SpawnLimit, NEW p \in Nat
  PROVE  /\ [step |-> s, failures |-> f, spawned |-> p] \in Activation
         /\ [step |-> s, failures |-> f, spawned |-> p].step = s
         /\ [step |-> s, failures |-> f, spawned |-> p].failures = f
         /\ [step |-> s, failures |-> f, spawned |-> p].spawned = p
  BY DEF Activation, LiveStep

LEMMA StepSet ==
  ASSUME launch \in [Browser -> Activation], NEW b \in Browser, launch[b].step \in LiveStep,
         NEW s, launch' = [launch EXCEPT ![b].step = s]
  PROVE  launch' = [launch EXCEPT ![b] =
           [step |-> s, failures |-> launch[b].failures, spawned |-> launch[b].spawned]]
  <1>1. PICK x, y, z : /\ x = launch[b].step /\ y = launch[b].failures
                       /\ z = launch[b].spawned
                       /\ launch[b] = [step |-> x, failures |-> y, spawned |-> z]
    BY LiveActivation
  <1>2. [launch[b] EXCEPT !.step = s] = [step |-> s, failures |-> y, spawned |-> z]
    BY <1>1
  <1> QED
    BY <1>1, <1>2

LEMMA SpawnedSet ==
  ASSUME launch \in [Browser -> Activation], NEW b \in Browser, launch[b].step \in LiveStep,
         NEW p, launch' = [launch EXCEPT ![b].spawned = p]
  PROVE  launch' = [launch EXCEPT ![b] =
           [step |-> launch[b].step, failures |-> launch[b].failures, spawned |-> p]]
  <1>1. PICK x, y, z : /\ x = launch[b].step /\ y = launch[b].failures
                       /\ z = launch[b].spawned
                       /\ launch[b] = [step |-> x, failures |-> y, spawned |-> z]
    BY LiveActivation
  <1>2. [launch[b] EXCEPT !.spawned = p] = [step |-> x, failures |-> y, spawned |-> p]
    BY <1>1
  <1> QED
    BY <1>1, <1>2

LEMMA StepSpawnedSet ==
  ASSUME launch \in [Browser -> Activation], NEW b \in Browser, launch[b].step \in LiveStep,
         NEW s, NEW p, launch' = [launch EXCEPT ![b].step = s, ![b].spawned = p]
  PROVE  launch' = [launch EXCEPT ![b] =
           [step |-> s, failures |-> launch[b].failures, spawned |-> p]]
  <1>1. PICK x, y, z : /\ x = launch[b].step /\ y = launch[b].failures
                       /\ z = launch[b].spawned
                       /\ launch[b] = [step |-> x, failures |-> y, spawned |-> z]
    BY LiveActivation
  <1>2. PICK c : c = [launch[b] EXCEPT !.step = s]
                 /\ c = [step |-> s, failures |-> y, spawned |-> z]
    BY <1>1
  <1>2a. c = [step |-> s, failures |-> y, spawned |-> z]
    BY <1>2
  <1>3. [c EXCEPT !.spawned = p] = [step |-> s, failures |-> y, spawned |-> p]
    BY ONLY <1>2a
  <1>4. launch' = [launch EXCEPT ![b] = [c EXCEPT !.spawned = p]]
    BY <1>2
  <1> QED
    BY <1>1, <1>3, <1>4

LEMMA StepFailuresSet ==
  ASSUME launch \in [Browser -> Activation], NEW b \in Browser, launch[b].step \in LiveStep,
         NEW s, launch' = [launch EXCEPT ![b].step = s, ![b].failures = @ + 1]
  PROVE  launch' = [launch EXCEPT ![b] =
           [step |-> s, failures |-> launch[b].failures + 1, spawned |-> launch[b].spawned]]
  <1>1. PICK x, y, z : /\ x = launch[b].step /\ y = launch[b].failures
                       /\ z = launch[b].spawned
                       /\ launch[b] = [step |-> x, failures |-> y, spawned |-> z]
    BY LiveActivation
  <1>2. PICK c : c = [launch[b] EXCEPT !.step = s]
                 /\ c = [step |-> s, failures |-> y, spawned |-> z]
    BY <1>1
  <1>2a. c = [step |-> s, failures |-> y, spawned |-> z]
    BY <1>2
  <1>3. [c EXCEPT !.failures = @ + 1] = [step |-> s, failures |-> y + 1, spawned |-> z]
    BY ONLY <1>2a
  <1>4. launch' = [launch EXCEPT ![b] = [c EXCEPT !.failures = @ + 1]]
    BY <1>2
  <1> QED
    BY <1>1, <1>3, <1>4

(* A launch that is set to a step under way.                               *)
Sets(b, s, f, p) ==
  /\ b \in Browser /\ s \in LiveStep /\ f \in 0 .. SpawnLimit /\ p \in Nat
  /\ s = "status" => f < SpawnLimit
  /\ launch' = [launch EXCEPT ![b] = [step |-> s, failures |-> f, spawned |-> p]]
  /\ gen' \in [Browser -> Nat] /\ p <= gen'[b]
  /\ \A a \in Browser : gen[a] <= gen'[a]

LEMMA LaunchSet ==
  ASSUME LaunchState, gen \in [Browser -> Nat], NEW b, NEW s, NEW f, NEW p, Sets(b, s, f, p)
  PROVE  LaunchState'
  <1> USE DEF Sets
  <1> DEFINE r == [step |-> s, failures |-> f, spawned |-> p]
  <1>1. r \in Activation /\ r.step = s /\ r.failures = f /\ r.spawned = p
    BY NewActivation
  <1> HIDE DEF r
  <1>2. launch' = [launch EXCEPT ![b] = r]
    BY DEF r
  <1>3. launch' \in [Browser -> Activation]
    BY <1>1, <1>2 DEF LaunchState
  <1>4. ASSUME NEW a \in Browser, launch'[a].step \in LiveStep
        PROVE  launch'[a].spawned <= gen'[a]
    <2>1. CASE a = b
      BY <1>1, <1>2, <2>1 DEF LaunchState
    <2>2. CASE a # b
      <3>1. launch'[a] = launch[a]
        BY <1>2, <2>2 DEF LaunchState
      <3>2. launch[a].spawned \in Nat /\ launch[a].spawned <= gen[a]
        BY <1>4, <3>1, LiveActivation DEF LaunchState
      <3> QED
        BY <3>1, <3>2
    <2> QED
      BY <2>1, <2>2
  <1>5. ASSUME NEW a \in Browser, launch'[a].step = "status"
        PROVE  launch'[a].failures < SpawnLimit
    BY <1>1, <1>2, <1>5 DEF LaunchState
  <1> QED
    BY <1>3, <1>4, <1>5 DEF LaunchState

LEMMA LaunchOver ==
  ASSUME LaunchState, NEW b \in Browser, NEW l \in {"none", "ok", "failed", "raised"},
         LaunchAt(b, l), UNCHANGED gen
  PROVE  LaunchState'
  <1>1. /\ launch' \in [Browser -> Activation] /\ launch'[b].step = l
        /\ \A a \in Browser \ {b} : launch'[a] = launch[a]
    BY LaunchAtType DEF LaunchState
  <1> QED
    BY <1>1 DEF LaunchState, LiveStep

LEMMA LaunchBegins ==
  ASSUME LaunchState, NEW b \in Browser, NEW p, Launch(b, p), UNCHANGED gen,
         gen \in [Browser -> Nat]
  PROVE  LaunchState'
  <1> DEFINE s == IF p # 0 THEN "dump" ELSE "spawn"
  <1>1. s \in LiveStep /\ s # "status" /\ 0 \in 0 .. SpawnLimit
    BY BrowserAssumption DEF LiveStep
  <1>2. launch' = [launch EXCEPT ![b] = [step |-> s, failures |-> 0, spawned |-> 0]]
    BY DEF Launch
  <1> HIDE DEF s
  <1>3. Sets(b, s, 0, 0)
    BY <1>1, <1>2 DEF Sets
  <1> QED
    BY <1>3, LaunchSet

LEMMA KillType ==
  ASSUME BrowserState, NEW b \in Browser, Kill(b)
  PROVE  /\ manager' \in [Browser -> Manager]
         /\ displays' \subseteq Browser \X Nat
         /\ firefoxes' \subseteq Browser \X Nat
  <1>1. manager' \in [Browser -> Manager]
    BY ManagerAtType DEF Kill, BrowserState, BootPC
  <1> QED
    BY <1>1 DEF Kill, BrowserState

LEMMA ReceivedType ==
  ASSUME BrowserState, NEW b \in Browser, NEW k, Received(b, k)
  PROVE  statusQueue' \in [Browser -> Seq(Status)]
  <1>1. Tail(statusQueue[b]) \in Seq(Status)
    BY HeadTailType DEF Received, BrowserState
  <1> QED
    BY <1>1 DEF Received, BrowserState

LEMMA LaunchStepType ==
  ASSUME BrowserState, NEW b \in Browser, LaunchStep(b)
  PROVE  BrowserState'
  <1>0. LaunchState /\ launch[b] \in Activation
    BY DEF BrowserState, LaunchState, LiveStep
  <1>a. launch[b].step \in LiveStep =>
          launch[b].failures \in 0 .. SpawnLimit /\ launch[b].spawned \in Nat
    BY <1>0, LiveActivation
  <1>1. CASE DumpProfile(b)
    <2>1. LaunchState'
      <3>1. CASE LaunchAt(b, "raised")
        BY <1>0, <1>1, <3>1, LaunchOver DEF DumpProfile
      <3>2. CASE launch' = [launch EXCEPT ![b].step = "spawn"]
        <4>1. launch' = [launch EXCEPT ![b] =
                [step |-> "spawn", failures |-> launch[b].failures,
                 spawned |-> launch[b].spawned]]
          BY <1>0, <1>1, <3>2, StepSet DEF LaunchState, DumpProfile, LiveStep
        <4> QED
          <5>1. Sets(b, "spawn", launch[b].failures, launch[b].spawned)
          BY <1>0, <1>a, <1>1, <4>1 DEF Sets, DumpProfile, LiveStep, BrowserState
        <5> QED
          BY <1>0, <5>1, LaunchSet DEF BrowserState
      <3> QED
        BY <1>1, <3>1, <3>2 DEF DumpProfile
    <2> QED
      BY <1>1, <2>1
      DEF BrowserState, LaunchState, LiveStep, DumpProfile, queueVars, processVars, pidVars,
          profileVars
  <1>2. CASE Spawn(b)
    <2>1. gen' \in [Browser -> Nat] /\ gen'[b] = gen[b] + 1 /\ \A a \in Browser : gen[a] <= gen'[a]
      BY <1>2 DEF Spawn, BrowserState
    <2>2. launch' = [launch EXCEPT ![b] =
            [step |-> "status", failures |-> launch[b].failures, spawned |-> 0]]
      BY <1>0, <1>2, StepSpawnedSet, Zenon DEF LaunchState, Spawn, LiveStep
    <2>3. LaunchState'
      <3>a. /\ "status" \in LiveStep /\ launch[b].failures \in 0 .. SpawnLimit
            /\ launch[b].failures < SpawnLimit
        BY <1>a, <1>2 DEF Spawn, LiveStep
      <3>b. 0 \in Nat /\ 0 <= gen'[b]
        BY <2>1 DEF BrowserState
      <3>1. Sets(b, "status", launch[b].failures, 0)
        BY <2>1, <2>2, <3>a, <3>b DEF Sets
      <3> QED
        BY <1>0, <3>1, LaunchSet DEF BrowserState
    <2>4. manager' \in [Browser -> Manager]
      BY <1>2, ManagerAtType DEF Spawn, BootPC, BrowserState
    <2>5. statusQueue' \in [Browser -> Seq(Status)] /\ commandQueue' \in [Browser -> Seq(Command)]
      <3>1. <<>> \in Seq(Status) /\ <<>> \in Seq(Command)
        OBVIOUS
      <3> QED
        BY <1>2, <3>1 DEF Spawn, BrowserState
    <2>6. isFresh' \in [Browser -> BOOLEAN]
      <3>1. (currentProfile[b] = 0) \in BOOLEAN
        OBVIOUS
      <3> QED
        BY <1>2, <3>1 DEF Spawn, BrowserState
    <2> QED
      BY <1>2, <2>1, <2>3, <2>4, <2>5, <2>6
      DEF BrowserState, LaunchState, LiveStep, Spawn, processVars, pidVars
  <1>3. CASE SpawnLimitReached(b)
    <2>1. LaunchState'
      BY <1>0, <1>3, LaunchOver DEF SpawnLimitReached
    <2> QED
      BY <1>3, <2>1
      DEF BrowserState, LaunchState, LiveStep, SpawnLimitReached, queueVars, processVars, pidVars,
          profileVars
  <1>4. CASE LearnProfile(b)
    <2>1. launch' = [launch EXCEPT ![b] =
            [step |-> "status", failures |-> launch[b].failures, spawned |-> gen[b]]]
      BY <1>0, <1>4, SpawnedSet DEF LaunchState, LearnProfile, Received, LiveStep
    <2>2. LaunchState'
      <3>a. /\ "status" \in LiveStep /\ launch[b].step = "status"
            /\ launch[b].failures \in 0 .. SpawnLimit /\ launch[b].failures < SpawnLimit
        BY <1>0, <1>a, <1>4 DEF LearnProfile, Received, LiveStep, LaunchState
      <3>b. /\ gen' \in [Browser -> Nat] /\ gen[b] \in Nat /\ gen[b] <= gen'[b]
            /\ \A a \in Browser : gen[a] <= gen'[a]
        BY <1>4 DEF LearnProfile, BrowserState
      <3>1. Sets(b, "status", launch[b].failures, gen[b])
        BY <2>1, <3>a, <3>b DEF Sets
      <3> QED
        BY <1>0, <3>1, LaunchSet DEF BrowserState
    <2>3. statusQueue' \in [Browser -> Seq(Status)]
      BY <1>4, ReceivedType DEF LearnProfile
    <2> QED
      BY <1>4, <2>2, <2>3
      DEF BrowserState, LaunchState, LiveStep, LearnProfile, processVars, pidVars, profileVars
  <1>5. CASE LearnDisplay(b)
    BY <1>5, ReceivedType DEF BrowserState, LearnDisplay, processVars, profileVars
  <1>6. CASE LearnBrowser(b)
    BY <1>6, ReceivedType DEF BrowserState, LearnBrowser, processVars, profileVars
  <1>7. CASE SpawnSucceeds(b)
    <2>1. LaunchState'
      BY <1>0, <1>7, LaunchOver DEF SpawnSucceeds
    <2>2. statusQueue' \in [Browser -> Seq(Status)]
      BY <1>7, ReceivedType DEF SpawnSucceeds
    <2>3. currentProfile' \in [Browser -> Nat] /\ profiles' \subseteq Browser \X Nat
      BY <1>a, <1>7 DEF SpawnSucceeds, Received, LiveStep, BrowserState
    <2> QED
      BY <1>7, <2>1, <2>2, <2>3
      DEF BrowserState, LaunchState, LiveStep, SpawnSucceeds, processVars, pidVars
  <1>8. CASE SpawnFails(b)
    <2>1. statusQueue' \in [Browser -> Seq(Status)] /\ childFaults' \in 0 .. MaxFaults
      BY <1>8, ReceivedType, FaultType DEF SpawnFails, BrowserState
    <2>2. launch[b].step = "status"
      BY <1>8 DEF SpawnFails, Received
    <2>3. launch' = [launch EXCEPT ![b] =
            [step |-> "spawn", failures |-> launch[b].failures + 1,
             spawned |-> launch[b].spawned]]
      BY <1>0, <1>8, <2>2, StepFailuresSet, Zenon DEF LaunchState, SpawnFails, LiveStep
    <2>4. launch[b].failures + 1 \in 0 .. SpawnLimit /\ launch[b].spawned <= gen[b]
      BY <1>0, <1>a, <2>2, BrowserAssumption DEF LaunchState, LiveStep
    <2>5. LaunchState'
      <3>a. "spawn" \in LiveStep /\ "spawn" # "status" /\ launch[b].spawned \in Nat
        BY <1>a, <2>2 DEF LiveStep
      <3>b. /\ gen' \in [Browser -> Nat] /\ launch[b].spawned <= gen'[b]
            /\ \A a \in Browser : gen[a] <= gen'[a]
        BY <1>8, <2>4 DEF SpawnFails, BrowserState
      <3>1. Sets(b, "spawn", launch[b].failures + 1, launch[b].spawned)
        BY <2>3, <2>4, <3>a, <3>b DEF Sets
      <3> QED
        BY <1>0, <3>1, LaunchSet DEF BrowserState
    <2>6. /\ manager' \in [Browser -> Manager]
          /\ displays' \subseteq Browser \X Nat /\ firefoxes' \subseteq Browser \X Nat
      BY <1>8, KillType DEF SpawnFails
    <2> QED
      BY <1>8, <2>1, <2>5, <2>6 DEF BrowserState, LaunchState, LiveStep, SpawnFails, pidVars
  <1>9. CASE SpawnRaises(b)
    <2>1. LaunchState'
      BY <1>0, <1>9, LaunchOver DEF SpawnRaises
    <2>2. statusQueue' \in [Browser -> Seq(Status)]
      BY <1>9, ReceivedType DEF SpawnRaises
    <2> QED
      BY <1>9, <2>1, <2>2
      DEF BrowserState, LaunchState, LiveStep, SpawnRaises, processVars, pidVars, profileVars
  <1> QED
    BY <1>1, <1>2, <1>3, <1>4, <1>5, <1>6, <1>7, <1>8, <1>9 DEF LaunchStep

LEMMA LiveThreads ==
  /\ DeadThread.pc = "dead" /\ DeadThread \in Thread
  /\ \A t \in Thread : t.pc # "dead" => t \in LiveThread
  /\ \A t \in LiveThread : t.pc \in LivePC /\ t.pc # "dead" /\ t \in Thread
  BY DEF DeadThread, Thread, LiveThread, LivePC

LEMMA LiveThreadAt ==
  ASSUME NEW t \in LiveThread, NEW l \in LivePC
  PROVE  /\ [t EXCEPT !.pc = l] \in LiveThread
         /\ [t EXCEPT !.pc = l].pc = l
         /\ [t EXCEPT !.pc = l].n = t.n
         /\ [t EXCEPT !.pc = l].sequence = t.sequence
         /\ [t EXCEPT !.pc = l].call = t.call
  BY DEF LiveThread

LEMMA LiveThreadNext ==
  ASSUME NEW t \in LiveThread, NEW k \in Nat \ {0}
  PROVE  [t EXCEPT !.n = k] \in LiveThread /\ [t EXCEPT !.n = k].pc = t.pc
  BY DEF LiveThread

LEMMA LiveThreadCount ==
  ASSUME NEW t \in LiveThread
  PROVE  t.n \in Nat \ {0} /\ t.n + 1 \in Nat \ {0} /\ t.sequence \in CommandSequence
  BY DEF LiveThread

LEMMA ThreadAtType ==
  ASSUME thread \in [Browser -> Thread], NEW b \in Browser, NEW l \in LivePC,
         thread[b].pc # "dead", ThreadAt(b, l)
  PROVE  /\ thread' \in [Browser -> Thread]
         /\ thread'[b].pc = l /\ thread'[b].n = thread[b].n
         /\ \A a \in Browser \ {b} : thread'[a] = thread[a]
  <1>1. PICK t \in LiveThread : t = thread[b]
    BY LiveThreads
  <1>2. PICK u \in LiveThread : u = [t EXCEPT !.pc = l] /\ u.pc = l /\ u.n = t.n
    BY LiveThreadAt
  <1>3. thread' = [thread EXCEPT ![b] = u]
    BY <1>1, <1>2 DEF ThreadAt
  <1>4. u \in Thread
    BY <1>2, LiveThreads
  <1> QED
    BY <1>1, <1>2, <1>3, <1>4

LEMMA ThreadEndsType ==
  ASSUME thread \in [Browser -> Thread], NEW b \in Browser, ThreadEnds(b)
  PROVE  /\ thread' \in [Browser -> Thread]
         /\ thread'[b].pc = "dead"
         /\ \A a \in Browser \ {b} : thread'[a] = thread[a]
  BY LiveThreads DEF ThreadEnds

LEMMA ThreadNextType ==
  ASSUME thread \in [Browser -> Thread], NEW b \in Browser, NEW l \in LivePC,
         thread[b].pc # "dead",
         thread' = [thread EXCEPT ![b].pc = l, ![b].n = @ + 1]
  PROVE  /\ thread' \in [Browser -> Thread]
         /\ thread'[b].pc = l
         /\ \A a \in Browser \ {b} : thread'[a] = thread[a]
  <1>1. PICK t \in LiveThread : t = thread[b]
    BY LiveThreads
  <1>2. PICK v \in LiveThread : v = [t EXCEPT !.pc = l] /\ v.pc = l /\ v.n = t.n
    BY LiveThreadAt
  <1>3. PICK k \in Nat \ {0} : k = v.n + 1
    BY <1>2, LiveThreadCount
  <1>4. PICK u \in LiveThread : u = [v EXCEPT !.n = k] /\ u.pc = v.pc
    BY <1>3, LiveThreadNext
  <1>5. thread' = [thread EXCEPT ![b] = u]
    BY <1>1, <1>2, <1>3, <1>4
  <1>6. u \in Thread
    BY <1>4, LiveThreads
  <1> QED
    BY <1>1, <1>2, <1>4, <1>5, <1>6

LEMMA MainCases ==
  ASSUME main \in Main
  PROVE  /\ main.pc \in {"launch", "block"} => main.b \in Browser
         /\ main.pc \in {"join", "kill", "archive"} => main \in Closing
         /\ main.pc = "distribute" => main \in Distributing
         /\ main.pc \in {"idle", "closed", "aborted", "launch", "block", "join", "kill",
                         "archive", "distribute"}
  BY DEF Main, Closing, Distributing

LEMMA MainPlain ==
  /\ \A l \in {"idle", "closed", "aborted"} : [pc |-> l] \in Main
  /\ \A l \in {"launch", "block"}, b \in Browser : [pc |-> l, b |-> b] \in Main
  BY DEF Main

LEMMA ClosingAt ==
  ASSUME NEW m \in Closing, NEW l \in {"join", "kill", "archive"}
  PROVE  [m EXCEPT !.pc = l] \in Main /\ [m EXCEPT !.pc = l].pc = l
  BY DEF Closing, Main

LEMMA ClosingNext ==
  ASSUME NEW m \in Closing, NEW c \in Browser, NEW t \in Thread
  PROVE  /\ [m EXCEPT !.pc = "join", !.b = c, !.seen = t] \in Main
         /\ [m EXCEPT !.pc = "join", !.b = c, !.seen = t].pc = "join"
  BY DEF Closing, Main

LEMMA DistributingAt ==
  ASSUME NEW m \in Distributing, NEW c \in Browser
  PROVE  /\ [m EXCEPT !.at = c] \in Main
         /\ [m EXCEPT !.at = c] \in Distributing
         /\ [m EXCEPT !.at = c].left = m.left
         /\ [m EXCEPT !.at = c].last = m.last
         /\ [m EXCEPT !.at = c].visit = m.visit
  BY DEF Distributing, Main

LEMMA DistributingLeft ==
  ASSUME NEW m \in Distributing, NEW s \in SUBSET ({0} \cup Browser)
  PROVE  /\ [m EXCEPT !.left = s] \in Distributing
         /\ [m EXCEPT !.left = s].left = s
         /\ [m EXCEPT !.left = s].visit = m.visit
  BY DEF Distributing

LEMMA DistributingLast ==
  ASSUME NEW m \in Distributing, NEW d \in Browser
  PROVE  /\ [m EXCEPT !.last = d] \in Distributing
         /\ [m EXCEPT !.last = d].last = d
         /\ [m EXCEPT !.last = d].left = m.left
         /\ [m EXCEPT !.last = d].visit = m.visit
  BY DEF Distributing

LEMMA ShutdownType ==
  ASSUME thread \in [Browser -> Thread], NEW r \in {-1, 1}, NEW d \in BOOLEAN,
         Shutdown(r, d)
  PROVE  main' \in Main /\ main'.pc = "join" /\ closing' = TRUE
  <1>1. 1 \in Browser /\ thread[1] \in Thread
    BY BrowserAssumption DEF Browser
  <1> QED
    BY <1>1 DEF Shutdown, Main, Closing

LEMMA ThreadCases ==
  ASSUME thread \in [Browser -> Thread], NEW b \in Browser, thread[b].pc # "dead"
  PROVE  /\ thread[b].n \in Nat \ {0} /\ thread[b].n + 1 \in Nat \ {0}
         /\ thread[b].sequence \in CommandSequence /\ thread[b].pc \in LivePC
  <1>1. thread[b] \in LiveThread
    BY LiveThreads
  <1> QED
    BY <1>1, LiveThreads, LiveThreadCount

LEMMA ShutdownStepType ==
  ASSUME BrowserState, ManagerState, ShutdownStep
  PROVE  BrowserState' /\ ManagerState'
  <1>1. PICK b \in Browser : JoinEnds(b) \/ KillAtShutdown(b) \/ FinishBrowser(b)
    BY DEF ShutdownStep
  <1>2. CASE JoinEnds(b)
    <2>1. main \in Closing
      BY <1>2, MainCases DEF JoinEnds, ManagerState
    <2>2. main' \in Main /\ main'.pc = "kill"
      BY <1>2, <2>1, ClosingAt DEF JoinEnds, MainAt
    <2>3. abandoned' \subseteq Browser
      BY <1>2 DEF JoinEnds, JoinOver, ThreadJoined, ManagerState
    <2>4. BrowserState'
      BY <1>2
      DEF JoinEnds, BrowserState, browserVars, queueVars, processVars, pidVars, profileVars
    <2> QED
      BY <1>2, <2>2, <2>3, <2>4 DEF JoinEnds, ManagerState, failureVars, visitVars
  <1>3. CASE KillAtShutdown(b)
    <2>1. main \in Closing
      BY <1>3, MainCases DEF KillAtShutdown, ManagerState
    <2>2. main' \in Main /\ main'.pc = "archive"
      BY <1>3, <2>1, ClosingAt DEF KillAtShutdown, MainAt
    <2>3. /\ manager' \in [Browser -> Manager]
          /\ displays' \subseteq Browser \X Nat /\ firefoxes' \subseteq Browser \X Nat
      BY <1>3, KillType DEF KillAtShutdown
    <2>4. BrowserState'
      BY <1>3, <2>3 DEF KillAtShutdown, BrowserState, queueVars, pidVars, profileVars
    <2> QED
      BY <1>3, <2>2, <2>4 DEF KillAtShutdown, ManagerState, failureVars, visitVars, historyVars
  <1>4. CASE FinishBrowser(b)
    <2>1. main \in Closing /\ main.result \in {-1, 1}
      BY <1>4, MainCases DEF FinishBrowser, ManagerState, Closing
    <2>2. /\ main' \in Main /\ main'.pc # "distribute"
          /\ profiles' \subseteq profiles
          /\ finished' \in [Browser -> {-1, 0, 1}]
      <3>1. CASE ArchiveRaises(b)
        <4>1. [pc |-> "aborted"] \in Main /\ [pc |-> "aborted"].pc # "distribute"
          BY MainPlain
        <4> QED
          BY <1>4, <3>1, <4>1 DEF FinishBrowser, ManagerState
      <3>2. CASE ~ArchiveRaises(b)
        <4>1. /\ profiles' \subseteq profiles
              /\ finished' \in [Browser -> {-1, 0, 1}]
          BY <1>4, <2>1, <3>2 DEF FinishBrowser, ManagerState
        <4>2. CASE b = NumBrowsers
          <5>1. [pc |-> "closed"] \in Main /\ [pc |-> "closed"].pc # "distribute"
            BY MainPlain
          <5> QED
            BY <1>4, <3>2, <4>1, <4>2, <5>1 DEF FinishBrowser
        <4>3. CASE b # NumBrowsers
          <5>1. b + 1 \in Browser /\ thread[b + 1] \in Thread
            BY <4>3, BrowserAssumption DEF Browser, ManagerState
          <5>2. main' = [main EXCEPT !.pc = "join", !.b = b + 1, !.seen = thread[b + 1]]
            BY <1>4, <3>2, <4>3 DEF FinishBrowser
          <5>3. PICK c \in Browser, t \in Thread : c = b + 1 /\ t = thread[b + 1]
            BY <5>1
          <5>4. PICK m \in Closing : m = main
            BY <2>1
          <5>5. main' = [m EXCEPT !.pc = "join", !.b = c, !.seen = t]
            BY <5>2, <5>3, <5>4
          <5>6. main' \in Main /\ main'.pc = "join"
            BY ONLY <5>5, ClosingNext, Zenon
          <5> QED
            BY <4>1, <5>6
        <4> QED
          BY <4>2, <4>3
      <3> QED
        BY <3>1, <3>2
    <2>3. BrowserState'
      BY <1>4, <2>2 DEF FinishBrowser, BrowserState, queueVars, processVars, pidVars
    <2> QED
      BY <1>4, <2>2, <2>3 DEF FinishBrowser, ManagerState, failureVars, visitVars, historyVars
  <1> QED
    BY <1>1, <1>2, <1>3, <1>4

(* What a step of the main thread other than the shutdown leaves alone.    *)
LEMMA SameBrowsers ==
  ASSUME BrowserState, UNCHANGED browserVars
  PROVE  BrowserState'
  BY DEF BrowserState, browserVars, queueVars, processVars, pidVars, profileVars

LEMMA NextInRange ==
  ASSUME NEW b \in Browser
  PROVE  (b % NumBrowsers) + 1 \in Browser
  <1>1. NumBrowsers \in Nat \ {0} /\ b \in Nat
    BY BrowserAssumption DEF Browser
  <1>2. b % NumBrowsers \in 0 .. NumBrowsers - 1
    BY <1>1
  <1> QED
    BY <1>1, <1>2 DEF Browser

LEMMA LaunchesType ==
  ASSUME BrowserState, ManagerState, NEW b \in Browser, LaunchNext(b) \/ Launched(b)
  PROVE  BrowserState' /\ ManagerState'
  <1>0. LaunchState
    BY DEF BrowserState, LaunchState, LiveStep
  <1>1. CASE LaunchNext(b)
    <2>1. LaunchState'
      BY <1>0, <1>1, LaunchBegins DEF LaunchNext, BrowserState
    <2>2. BrowserState'
      BY <1>1, <2>1
      DEF LaunchNext, BrowserState, LaunchState, LiveStep, queueVars, processVars, pidVars,
          profileVars
    <2>3. ManagerState'
      BY <1>1 DEF LaunchNext, ManagerState, managerVars, failureVars, visitVars, historyVars
    <2> QED
      BY <2>2, <2>3
  <1>2. CASE Launched(b)
    <2>1. LaunchState'
      BY <1>0, <1>2, LaunchOver DEF Launched
    <2>2. BrowserState'
      BY <1>2, <2>1
      DEF Launched, BrowserState, LaunchState, LiveStep, queueVars, processVars, pidVars,
          profileVars
    <2>3. main' \in Main /\ main'.pc # "distribute" /\ closing' \in BOOLEAN
      <3>1. CASE launch[b].step = "ok"
        <4>1. UNCHANGED closing
          BY <1>2, <3>1 DEF Launched
        <4>2. CASE b = NumBrowsers
          <5>1. [pc |-> "idle"] \in Main /\ [pc |-> "idle"].pc # "distribute"
            BY MainPlain
          <5> QED
            BY <1>2, <3>1, <4>1, <4>2, <5>1 DEF Launched, ManagerState
        <4>3. CASE b # NumBrowsers
          <5>1. b + 1 \in Browser
            BY <4>3, BrowserAssumption DEF Browser
          <5>2. main' = [main EXCEPT !.b = b + 1] /\ main.pc = "launch" /\ main \in Main
            BY <1>2, <3>1, <4>3 DEF Launched, ManagerState
          <5>3. main \in [pc : {"launch", "block"}, b : Browser]
            BY <5>2 DEF Main, Closing, Distributing
          <5>4. main' \in [pc : {"launch", "block"}, b : Browser]
            BY <5>1, <5>2, <5>3
          <5> QED
            BY <4>1, <5>4 DEF ManagerState, Main
        <4> QED
          BY <4>2, <4>3
      <3>2. CASE launch[b].step = "failed"
        <4>1. Shutdown(1, FALSE)
          BY <1>2, <3>2 DEF Launched
        <4> QED
          BY <4>1, ShutdownType DEF ManagerState
      <3>3. CASE launch[b].step = "raised"
        <4>1. Shutdown(-1, TRUE)
          BY <1>2, <3>3 DEF Launched
        <4> QED
          BY <4>1, ShutdownType DEF ManagerState
      <3> QED
        BY <1>2, <3>1, <3>2, <3>3 DEF Launched
    <2>4. ManagerState'
      BY <1>2, <2>3 DEF Launched, ManagerState, failureVars, visitVars, historyVars
    <2> QED
      BY <2>2, <2>4
  <1> QED
    BY <1>1, <1>2

LEMMA ScriptType ==
  ASSUME BrowserState, ManagerState,
         \/ Close
         \/ \E s \in CommandSequence, t \in Target, b \in Browser : Execute(s, t, b)
  PROVE  BrowserState' /\ ManagerState'
  <1>1. CASE Close
    <2>1. main' \in Main /\ main'.pc = "join" /\ closing' = TRUE
      BY <1>1, ShutdownType DEF Close, ManagerState
    <2>2. BrowserState'
      BY <1>1, SameBrowsers DEF Close
    <2> QED
      BY <1>1, <2>1, <2>2 DEF Close, ManagerState, failureVars, visitVars, historyVars
  <1>2. ASSUME NEW s \in CommandSequence, NEW t \in Target, NEW b \in Browser, Execute(s, t, b)
        PROVE  BrowserState' /\ ManagerState'
    <2>1. t \in {"any", "one", "all", "sync"} /\ 1 \in Browser
      BY TaskManagerAssumption, BrowserAssumption DEF Browser
    <2>2. PICK l \in SUBSET ({0} \cup Browser), at \in Browser :
            /\ l # {}
            /\ main' = [pc |-> "distribute", sequence |-> s, index |-> t, left |-> l,
                        at |-> at, visit |-> nextVisit, last |-> 0]
      <3>1. CASE t = "any"
        BY <1>2, <2>1, <3>1 DEF Execute
      <3>2. CASE t = "one"
        BY <1>2, <2>1, <3>2 DEF Execute
      <3>3. CASE t \in {"all", "sync"}
        BY <1>2, <2>1, <3>3 DEF Execute
      <3> QED
        BY <2>1, <3>1, <3>2, <3>3
    <2>3. main' \in Main /\ main'.left # {}
      BY <2>2 DEF Main, Distributing, ManagerState
    <2>4. calls' \in 0 .. MaxCalls /\ nextVisit' \in Nat
      BY <1>2, TaskManagerAssumption DEF Execute, ManagerState
    <2>5. BrowserState'
      BY <1>2, SameBrowsers DEF Execute
    <2> QED
      BY <1>2, <2>3, <2>4, <2>5 DEF Execute, ManagerState, failureVars, historyVars
  <1> QED
    BY <1>1, <1>2

(* What the start of a thread does to the state of the main thread.        *)
LEMMA StartVisitMain ==
  ASSUME ManagerState, NEW b \in Browser, NEW id \in Nat, StartVisit(b, id)
  PROVE  /\ main' \in Main /\ main'.pc = "distribute" /\ main'.visit = main.visit
         /\ main'.left = (IF main.left = {0} THEN {} ELSE main.left \ {b})
         /\ main'.last = b /\ b # 0
         /\ thread' = [thread EXCEPT ![b] = NewThread]
         /\ NewThread \in LiveThread /\ NewThread.pc = "start"
         /\ siteVisits' = Append(siteVisits, [id |-> id, browser |-> b])
         /\ siteVisits' \in Seq([id : Nat, browser : Browser])
  <1>1. main \in Distributing /\ main.pc = "distribute"
    BY MainCases DEF StartVisit, ManagerState
  <1>2. NextBrowser(b) \in Browser /\ b # 0
    BY NextInRange, BrowserAssumption DEF NextBrowser, Browser
  <1>3. PICK m \in Distributing, s \in SUBSET ({0} \cup Browser), c \in Browser,
              d \in Browser :
          /\ m = main /\ c = NextBrowser(b) /\ d = b
          /\ s = (IF main.left = {0} THEN {} ELSE main.left \ {b})
    BY <1>1, <1>2 DEF Distributing
  <1>4. PICK m1 \in Distributing : /\ m1 = [m EXCEPT !.left = s]
                                    /\ m1.left = s /\ m1.visit = m.visit
    BY DistributingLeft
  <1>a. PICK m2 \in Distributing : /\ m2 = [m1 EXCEPT !.at = c]
                                    /\ m2.left = m1.left /\ m2.visit = m1.visit
    BY DistributingAt
  <1>b. PICK m3 \in Distributing : /\ m3 = [m2 EXCEPT !.last = d] /\ m3.last = d
                                    /\ m3.left = m2.left /\ m3.visit = m2.visit
    BY DistributingLast
  <1>c. main' = m3
    BY <1>3, <1>4, <1>a, <1>b DEF StartVisit
  <1>5. /\ main' \in Main /\ main'.pc = "distribute" /\ main'.left = s /\ main'.last = d
        /\ main'.visit = m.visit
    BY <1>4, <1>a, <1>b, <1>c DEF Distributing, Main
  <1>6. NewThread \in LiveThread /\ NewThread.pc = "start"
    BY <1>1, TaskManagerAssumption
    DEF NewThread, LiveThread, LivePC, Distributing, ManagerState
  <1>7. /\ siteVisits' = Append(siteVisits, [id |-> id, browser |-> b])
        /\ siteVisits' \in Seq([id : Nat, browser : Browser])
    <2>1. [id |-> id, browser |-> b] \in [id : Nat, browser : Browser]
      OBVIOUS
    <2> QED
      BY <2>1 DEF StartVisit, ManagerState
  <1> QED
    BY <1>2, <1>3, <1>5, <1>6, <1>7 DEF StartVisit

LEMMA DistributeType ==
  ASSUME BrowserState, ManagerState, DistributeStep
  PROVE  BrowserState' /\ ManagerState'
  <1>1. ASSUME NEW b \in Browser, LookElsewhere(b)
        PROVE  BrowserState' /\ ManagerState'
    <2>1. main \in Distributing
      BY <1>1, MainCases DEF LookElsewhere, ManagerState
    <2>2. NextBrowser(b) \in Browser
      BY NextInRange DEF NextBrowser
    <2>3. main' \in Main /\ main'.left = main.left /\ main'.last = main.last
      BY <1>1, <2>1, <2>2, DistributingAt DEF LookElsewhere
    <2>4. BrowserState'
      BY <1>1, SameBrowsers DEF LookElsewhere
    <2> QED
      BY <1>1, <2>3, <2>4 DEF LookElsewhere, ManagerState, failureVars, visitVars, historyVars
  <1>2. ASSUME NEW b \in Browser, CheckFails(b)
        PROVE  BrowserState' /\ ManagerState'
    <2>1. main' \in Main /\ main'.pc = "join" /\ closing' = TRUE
      BY <1>2, ShutdownType DEF CheckFails, ManagerState
    <2>2. BrowserState'
      BY <1>2, SameBrowsers DEF CheckFails
    <2> QED
      BY <1>2, <2>1, <2>2 DEF CheckFails, ManagerState, failureVars, visitVars, historyVars
  <1>3. ASSUME NEW b \in Browser, NEW id \in Nat, StartVisit(b, id), SetVisit(b, id),
               nextVisit' \in Nat
        PROVE  BrowserState' /\ ManagerState'
    <2>1. /\ main' \in Main /\ main'.last # 0
          /\ thread' \in [Browser -> Thread]
          /\ siteVisits' \in Seq([id : Nat, browser : Browser])
      <3>1. /\ main' \in Main /\ main'.last = b /\ b # 0
            /\ thread' = [thread EXCEPT ![b] = NewThread]
            /\ NewThread \in LiveThread
            /\ siteVisits' \in Seq([id : Nat, browser : Browser])
        BY <1>3, StartVisitMain
      <3> QED
        BY <3>1, LiveThreads DEF ManagerState
    <2>2. currVisit' \in [Browser -> Nat]
      BY <1>3 DEF SetVisit, ManagerState
    <2>3. BrowserState'
      BY <1>3, SameBrowsers DEF StartVisit
    <2> QED
      BY <1>3, <2>1, <2>2, <2>3 DEF StartVisit, ManagerState, failureVars, historyVars
  <1>4. ASSUME NEW b \in Browser, StartThread(b)
        PROVE  BrowserState' /\ ManagerState'
    <2>1. CASE StartWithCall(b)
      <3>1. main.visit \in Nat /\ nextVisit' \in Nat
        BY <2>1, MainCases DEF StartWithCall, StartVisit, ManagerState, Distributing
      <3> QED
        BY <1>3, <2>1, <3>1 DEF StartWithCall
    <2>2. CASE StartWithOwn(b)
      <3>1. nextVisit \in Nat /\ nextVisit' \in Nat
        BY <2>2 DEF StartWithOwn, ManagerState
      <3> QED
        BY <1>3, <2>2, <3>1 DEF StartWithOwn
    <2> QED
      BY <1>4, <2>1, <2>2 DEF StartThread
  <1>5. CASE Distributed
    <2>1. main \in Distributing /\ main.last \in Browser
      BY <1>5, MainCases DEF Distributed, ManagerState, Distributing
    <2>2. main' \in Main /\ main'.pc # "distribute"
      BY <1>5, <2>1, MainPlain DEF Distributed, Main
    <2>3. thread' \in [Browser -> Thread]
      <3>1. ASSUME NEW b \in Browser, thread[b].pc = "wait"
            PROVE  [thread[b] EXCEPT !.pc = "next"] \in Thread
        <4>1. PICK t \in LiveThread : t = thread[b]
          BY <3>1, LiveThreads DEF ManagerState
        <4>2. [t EXCEPT !.pc = "next"] \in LiveThread
          BY LiveThreadAt DEF LivePC
        <4> QED
          BY <4>1, <4>2, LiveThreads
      <3> QED
        BY <1>5, <3>1 DEF Distributed, ManagerState
    <2>4. BrowserState'
      BY <1>5, SameBrowsers DEF Distributed
    <2> QED
      BY <1>5, <2>2, <2>3, <2>4
      DEF Distributed, ManagerState, failureVars, visitVars, historyVars
  <1>6. CASE Unblocked
    <2>1. main' \in Main /\ main'.pc # "distribute" /\ closing' \in BOOLEAN
      <3>1. CASE failureStatus = "none"
        BY <1>6, <3>1, MainPlain DEF Unblocked, ManagerState
      <3>2. CASE failureStatus # "none"
        BY <1>6, <3>2, ShutdownType DEF Unblocked, ManagerState
      <3> QED
        BY <3>1, <3>2
    <2>2. BrowserState'
      BY <1>6, SameBrowsers DEF Unblocked
    <2> QED
      BY <1>6, <2>1, <2>2 DEF Unblocked, ManagerState, failureVars, visitVars, historyVars
  <1> QED
    BY <1>1, <1>2, <1>4, <1>5, <1>6 DEF DistributeStep

LEMMA AnswerType ==
  ASSUME BrowserState, NEW b \in Browser, NEW k, Answer(b, k)
  PROVE  statusQueue' \in [Browser -> Seq(Status)]
  <1>1. Tail(statusQueue[b]) \in Seq(Status)
    BY HeadTailType DEF Answer, BrowserState
  <1> QED
    BY <1>1 DEF Answer, BrowserState

LEMMA RestartType ==
  ASSUME BrowserState, NEW b \in Browser, NEW r \in BOOLEAN, Restart(b, r), UNCHANGED gen
  PROVE  /\ manager' \in [Browser -> Manager]
         /\ displays' \subseteq Browser \X Nat /\ firefoxes' \subseteq Browser \X Nat
         /\ profiles' \subseteq profiles
         /\ currentProfile' \in [Browser -> Nat]
         /\ LaunchState'
  <1>0. LaunchState
    BY DEF BrowserState, LaunchState, LiveStep
  <1>1. CASE isFresh[b]
    <2>1. LaunchState'
      BY <1>0, <1>1, LaunchOver DEF Restart
    <2> QED
      BY <1>1, <2>1 DEF Restart, BrowserState, processVars
  <1>2. CASE ~isFresh[b]
    <2>1. /\ manager' \in [Browser -> Manager]
          /\ displays' \subseteq Browser \X Nat /\ firefoxes' \subseteq Browser \X Nat
      BY <1>2, KillType DEF Restart
    <2>2. profiles' \subseteq profiles /\ currentProfile' \in [Browser -> Nat]
      <3>1. CASE r
        <4>1. /\ profiles' = profiles \ {<<b, currentProfile[b]>>}
              /\ currentProfile' = [currentProfile EXCEPT ![b] = 0]
          BY <1>2, <3>1 DEF Restart
        <4>2. profiles' \subseteq profiles
          BY <4>1
        <4>3. currentProfile' \in [Browser -> Nat]
          BY <4>1 DEF BrowserState
        <4> QED
          BY <4>2, <4>3
      <3>2. CASE ~r
        BY <1>2, <3>2 DEF Restart, BrowserState
      <3> QED
        BY <3>1, <3>2
    <2>3. LaunchState'
      BY <1>0, <1>2, LaunchBegins DEF Restart, BrowserState
    <2> QED
      BY <2>1, <2>2, <2>3
  <1> QED
    BY <1>1, <1>2

LEMMA ThreadStepType ==
  ASSUME BrowserState, ManagerState, NEW b \in Browser, ThreadStep(b)
  PROVE  BrowserState' /\ ManagerState'
  <1> USE DEF LivePC
  <1>0. thread \in [Browser -> Thread] /\ LaunchState
    BY DEF ManagerState, BrowserState, LaunchState, LiveStep
  <1>1. CASE StartSequence(b)
    <2>1. thread' \in [Browser -> Thread]
      BY <1>0, <1>1, ThreadAtType DEF StartSequence
    <2>2. BrowserState'
      BY <1>1 DEF StartSequence, BrowserState, queueVars, processVars, pidVars
    <2> QED
      BY <1>1, <2>1, <2>2
      DEF StartSequence, ManagerState, failureVars, visitVars, historyVars
  <1>2. CASE SendCommand(b)
    <2>1. thread' \in [Browser -> Thread]
      BY <1>0, <1>2, ThreadAtType DEF SendCommand
    <2>2. [visit |-> currVisit[b], n |-> thread[b].n] \in Command
      BY <1>0, <1>2, ThreadCases DEF SendCommand, Command, ManagerState
    <2>3. commandQueue' \in [Browser -> Seq(Command)]
      <3>1. Append(commandQueue[b], [visit |-> currVisit[b], n |-> thread[b].n])
              \in Seq(Command)
        BY <2>2 DEF BrowserState
      <3> QED
        BY <1>2, <3>1 DEF SendCommand, BrowserState
    <2>4. BrowserState'
      BY <1>2, <2>3 DEF SendCommand, BrowserState, processVars, pidVars, profileVars
    <2> QED
      BY <1>2, <2>1, <2>4 DEF SendCommand, ManagerState, failureVars, visitVars, historyVars
  <1>3. CASE SequenceDone(b)
    <2>1. thread' \in [Browser -> Thread]
      BY <1>0, <1>3, ThreadAtType DEF SequenceDone
    <2>2. BrowserState'
      BY <1>3, SameBrowsers DEF SequenceDone
    <2> QED
      BY <1>3, <2>1, <2>2 DEF SequenceDone, ManagerState, failureVars, visitVars, historyVars
  <1>4. CASE CommandSucceeded(b)
    <2>1. thread' \in [Browser -> Thread]
      <3>1. PICK l \in LivePC : l = IF restartRequired[b] THEN "drain" ELSE "next"
        OBVIOUS
      <3>2. thread' = [thread EXCEPT ![b].pc = l, ![b].n = @ + 1] /\ thread[b].pc # "dead"
        BY <1>4, <3>1 DEF CommandSucceeded, Answer
      <3> QED
        BY <1>0, <3>2, ThreadNextType, Zenon
    <2>2. statusQueue' \in [Browser -> Seq(Status)]
      BY <1>4, AnswerType DEF CommandSucceeded
    <2>3. BrowserState'
      BY <1>4, <2>2 DEF CommandSucceeded, BrowserState, processVars, pidVars, profileVars
    <2> QED
      BY <1>4, <2>1, <2>3 DEF CommandSucceeded, ManagerState, visitVars
  <1>5. CASE CommandCritical(b)
    <2>1. thread' \in [Browser -> Thread]
      BY <1>0, <1>5, ThreadEndsType DEF CommandCritical
    <2>2. statusQueue' \in [Browser -> Seq(Status)]
      BY <1>5, AnswerType DEF CommandCritical
    <2>3. BrowserState'
      BY <1>5, <2>2 DEF CommandCritical, BrowserState, processVars, pidVars, profileVars
    <2> QED
      BY <1>5, <2>1, <2>3 DEF CommandCritical, ManagerState, visitVars, historyVars
  <1>6. CASE CommandFailed(b)
    <2>1. thread[b].pc = "await"
      BY <1>6 DEF CommandFailed, NoSuccess, AnsweredFailed, Answer
    <2>2. thread' \in [Browser -> Thread]
      BY <1>0, <1>6, <2>1, ThreadAtType DEF CommandFailed
    <2>3. /\ statusQueue' \in [Browser -> Seq(Status)]
          /\ childFaults' \in 0 .. MaxFaults
      <3>1. CASE AnsweredFailed(b)
        BY <3>1, AnswerType DEF AnsweredFailed, BrowserState
      <3>2. CASE ~AnsweredFailed(b)
        BY <1>6, <3>2, FaultType DEF CommandFailed, NoSuccess, BrowserState
      <3> QED
        BY <3>1, <3>2
    <2>4. BrowserState'
      BY <1>6, <2>3 DEF CommandFailed, BrowserState, processVars, pidVars, profileVars
    <2>5. /\ failureCount' \in Nat /\ exceeded' \in BOOLEAN
      BY <1>6 DEF CommandFailed, ManagerState
    <2> QED
      BY <1>6, <2>2, <2>4, <2>5 DEF CommandFailed, ManagerState, visitVars
  <1>7. CASE CheckLimit(b)
    <2>1. /\ thread' \in [Browser -> Thread]
          /\ restartRequired' \in [Browser -> BOOLEAN]
          /\ failureStatus' \in {"none", "CriticalChildException",
                                 "ExceedCommandFailureLimit", "ExceedLaunchFailureLimit"}
      <3>1. CASE GiveUp(b)
        BY <1>0, <3>1, ThreadEndsType DEF GiveUp, ManagerState
      <3>2. CASE AskRestart(b)
        BY <1>0, <1>7, <3>2, ThreadAtType DEF AskRestart, CheckLimit, ManagerState
      <3> QED
        BY <1>7, <3>1, <3>2 DEF CheckLimit
    <2>2. BrowserState'
      BY <1>7, SameBrowsers DEF CheckLimit
    <2> QED
      BY <1>7, <2>1, <2>2 DEF CheckLimit, ManagerState, visitVars, historyVars
  <1>8. CASE AfterSequence(b)
    <2>1. /\ thread' \in [Browser -> Thread]
          /\ manager' \in [Browser -> Manager]
          /\ displays' \subseteq Browser \X Nat /\ firefoxes' \subseteq Browser \X Nat
          /\ profiles' \subseteq profiles
          /\ currentProfile' \in [Browser -> Nat]
          /\ LaunchState'
      <3>1. CASE ThreadEnds(b) /\ UNCHANGED <<manager, processVars, profiles, currentProfile, launch>>
        BY <1>0, <1>8, <3>1, ThreadEndsType
        DEF AfterSequence, LaunchState, BrowserState, processVars
      <3>2. CASE ThreadAt(b, "launch") /\ Restart(b, thread[b].sequence.reset)
        <4>1. thread' \in [Browser -> Thread]
          BY <1>0, <1>8, <3>2, ThreadAtType DEF AfterSequence
        <4>2. thread[b].sequence.reset \in BOOLEAN
          BY <1>0, <1>8, ThreadCases, TaskManagerAssumption DEF AfterSequence
        <4> QED
          BY <1>8, <3>2, <4>1, <4>2, RestartType DEF AfterSequence
      <3> QED
        BY <1>8, <3>1, <3>2 DEF AfterSequence
    <2>2. BrowserState'
      BY <1>8, <2>1
      DEF AfterSequence, BrowserState, LaunchState, LiveStep, queueVars, pidVars
    <2> QED
      BY <1>8, <2>1, <2>2 DEF AfterSequence, ManagerState, failureVars, visitVars, historyVars
  <1>9. CASE Restarted(b)
    <2>1. thread' \in [Browser -> Thread]
      BY <1>0, <1>9, ThreadEndsType DEF Restarted
    <2>2. LaunchState'
      BY <1>0, <1>9, LaunchOver DEF Restarted
    <2>3. BrowserState'
      BY <1>9, <2>2
      DEF Restarted, BrowserState, LaunchState, LiveStep, queueVars, processVars, pidVars,
          profileVars
    <2>4. /\ restartRequired' \in [Browser -> BOOLEAN] /\ escaped' \subseteq Browser
          /\ failureStatus' \in {"none", "CriticalChildException",
                                 "ExceedCommandFailureLimit", "ExceedLaunchFailureLimit"}
      <3>1. (restartRequired[b] /\ launch[b].step # "ok") \in BOOLEAN
        OBVIOUS
      <3> QED
        BY <1>9, <3>1 DEF Restarted, ManagerState
    <2> QED
      BY <1>9, <2>1, <2>3, <2>4 DEF Restarted, ManagerState, visitVars
  <1> QED
    BY <1>1, <1>2, <1>3, <1>4, <1>5, <1>6, <1>7, <1>8, <1>9 DEF ThreadStep

LEMMA WatchdogType ==
  ASSUME BrowserState, ManagerState, KillStrays \/ \E b \in Browser : MemoryAlarm(b)
  PROVE  BrowserState' /\ ManagerState'
  <1>1. CASE KillStrays
    <2>1. /\ displays' \subseteq displays /\ firefoxes' \subseteq firefoxes
          /\ childFaults' \in 0 .. MaxFaults
      BY <1>1, FaultType DEF KillStrays, BrowserState
    <2>2. BrowserState'
      BY <1>1, <2>1 DEF KillStrays, BrowserState, queueVars, pidVars, profileVars
    <2> QED
      BY <1>1, <2>2
      DEF KillStrays, ManagerState, managerVars, failureVars, visitVars, historyVars
  <1>2. ASSUME NEW b \in Browser, MemoryAlarm(b)
        PROVE  BrowserState' /\ ManagerState'
    <2>1. BrowserState'
      BY <1>2, SameBrowsers DEF MemoryAlarm
    <2>2. alarms' \in 0 .. MaxAlarms
      BY <1>2, TaskManagerAssumption DEF MemoryAlarm, ManagerState
    <2> QED
      BY <1>2, <2>1, <2>2 DEF MemoryAlarm, ManagerState, failureVars, visitVars, historyVars
  <1> QED
    BY <1>1, <1>2

LEMMA StateStep ==
  ASSUME BrowserState, ManagerState, [Next]_vars
  PROVE  BrowserState' /\ ManagerState'
  <1>1. CASE UNCHANGED vars
    <2>1. BrowserState'
      BY <1>1, SameBrowsers DEF vars
    <2> QED
      BY <1>1, <2>1
      DEF vars, ManagerState, managerVars, failureVars, visitVars, historyVars
  <1>2. CASE MainStep
    BY <1>2, LaunchesType, DistributeType, ShutdownStepType DEF MainStep
  <1>3. CASE Close \/ \E s \in CommandSequence, t \in Target, b \in Browser : Execute(s, t, b)
    BY <1>3, ScriptType
  <1>4. ASSUME NEW b \in Browser, BrowserStep(b)
        PROVE  BrowserState' /\ ManagerState'
    <2>1. BrowserState'
      BY <1>4, ChildType, LaunchStepType DEF BrowserStep
    <2> QED
      BY <1>4, <2>1
      DEF BrowserStep, ManagerState, managerVars, failureVars, visitVars, historyVars
  <1> QED
    BY <1>1, <1>2, <1>3, <1>4, ThreadStepType, WatchdogType DEF Next

LEMMA StateInit ==
  ASSUME Init
  PROVE  BrowserState /\ ManagerState
  <1>1. 1 \in Browser
    BY BrowserAssumption DEF Browser
  <1>2. [pc |-> "dead"] \in Manager /\ NotLaunching \in Activation
        /\ NotLaunching.step = "none" /\ DeadThread \in Thread
    BY LiveThreads DEF Manager, NotLaunching, Activation
  <1>3. BrowserState
    BY <1>2, BrowserAssumption DEF Init, BrowserInit, BrowserState
  <1>4. main \in Main /\ main.pc # "distribute"
    BY <1>1 DEF Init, Main
  <1>5. /\ thread \in [Browser -> Thread]
        /\ restartRequired \in [Browser -> BOOLEAN]
        /\ currVisit \in [Browser -> Nat]
        /\ finished \in [Browser -> {-1, 0, 1}]
    BY <1>2 DEF Init
  <1>6. /\ siteVisits \in Seq([id : Nat, browser : Browser])
        /\ calls \in 0 .. MaxCalls /\ alarms \in 0 .. MaxAlarms
    BY TaskManagerAssumption DEF Init
  <1>7. ManagerState
    BY <1>4, <1>5, <1>6 DEF Init, ManagerState
  <1> QED
    BY <1>3, <1>7

LEMMA StateTyped ==
  ASSUME BrowserState, ManagerState
  PROVE  TypeOK
  <1>1. MainTypeOK
    BY DEF ManagerState, Main, Closing, Distributing, MainTypeOK
  <1>2. manager \in [Browser ->
          [pc : {"dead", "boot", "profile", "display", "firefox", "launched", "loop"}]
          \cup [pc : {"busy"}, command : Command]]
    BY DEF BrowserState, Manager
  <1>3. ASSUME NEW b \in Browser, NEW i \in DOMAIN statusQueue[b]
        PROVE  \/ statusQueue[b][i] \in [kind : {"OK"}, command : Command]
               \/ statusQueue[b][i] \in
                    [kind : {"ProfileCreated", "Display", "BrowserLaunched", "BrowserReady",
                             "FAILED", "CRITICAL"}]
    <2>1. statusQueue[b][i] \in Status
      BY DEF BrowserState
    <2> QED
      BY <2>1 DEF Status
  <1>4. ASSUME NEW b \in Browser
        PROVE  \/ launch[b].step \in {"none", "ok", "failed", "raised"}
               \/ /\ launch[b].step \in {"dump", "spawn", "status"}
                  /\ launch[b].failures \in 0 .. SpawnLimit
                  /\ launch[b].spawned \in 0 .. gen[b]
    <2>1. launch[b] \in Activation /\ gen[b] \in Nat
      BY DEF BrowserState
    <2>2. CASE launch[b].step \in LiveStep
      BY <2>1, <2>2, LiveActivation DEF LiveStep, BrowserState
    <2>3. CASE launch[b].step \notin LiveStep
      BY <2>1, <2>3 DEF LiveStep, Activation
    <2> QED
      BY <2>2, <2>3
  <1>5. BrowserTypeOK
    BY <1>2, <1>3, <1>4 DEF BrowserState, BrowserTypeOK
  <1>6. ASSUME NEW b \in Browser
        PROVE  \/ thread[b] = DeadThread
               \/ thread[b] \in
                    [pc : {"start", "wait", "next", "await", "limit", "drain", "launch"},
                     sequence : CommandSequence, n : Nat \ {0}, call : Nat,
                     synced : BOOLEAN]
    BY DEF ManagerState, Thread, LiveThread, LivePC
  <1> QED
    BY <1>1, <1>5, <1>6 DEF ManagerState, TypeOK

(* The state of a crawl is well typed (TaskManager.py, BrowserManager.py). *)
THEOREM WellTyped == Spec => []TypeOK
  <1>1. Init => BrowserState /\ ManagerState
    BY StateInit
  <1>2. BrowserState /\ ManagerState /\ [Next]_vars => BrowserState' /\ ManagerState'
    BY StateStep
  <1>3. BrowserState /\ ManagerState => TypeOK
    BY StateTyped
  <1> QED
    BY <1>1, <1>2, <1>3, PTL DEF Spec

-----------------------------------------------------------------------------
(* What the steps do to the control of the threads.                        *)

LEMMA ChildEffect ==
  ASSUME NEW b \in Browser, ChildStep(b)
  PROVE  UNCHANGED <<gen, currentProfile, isFresh, launch, displayPid, browserPid>>
  BY DEF ChildStep, CreateProfile, StartDisplay, StartFirefox, FirefoxLaunched, Ready,
         TakeCommand, CommandDone, ChildFails, ChildCritical, queueVars, processVars,
         pidVars, profileVars

LEMMA LaunchStepEffect ==
  ASSUME BrowserState, NEW b \in Browser, LaunchStep(b)
  PROVE  /\ launch[b].step \in LiveStep
         /\ \A a \in Browser \ {b} : launch'[a] = launch[a] /\ isFresh'[a] = isFresh[a]
  <1> USE DEF LiveStep, BrowserState, LaunchAt
  <1>1. CASE DumpProfile(b)
    BY <1>1 DEF DumpProfile, profileVars
  <1>2. CASE Spawn(b)
    BY <1>2 DEF Spawn
  <1>3. CASE SpawnLimitReached(b)
    BY <1>3 DEF SpawnLimitReached, profileVars
  <1>4. CASE LearnProfile(b)
    BY <1>4 DEF LearnProfile, Received, profileVars
  <1>5. CASE LearnDisplay(b)
    BY <1>5 DEF LearnDisplay, Received, profileVars
  <1>6. CASE LearnBrowser(b)
    BY <1>6 DEF LearnBrowser, Received, profileVars
  <1>7. CASE SpawnSucceeds(b)
    BY <1>7 DEF SpawnSucceeds, Received
  <1>8. CASE SpawnFails(b)
    BY <1>8 DEF SpawnFails, Received
  <1>9. CASE SpawnRaises(b)
    BY <1>9 DEF SpawnRaises, Received, profileVars
  <1> QED
    BY <1>1, <1>2, <1>3, <1>4, <1>5, <1>6, <1>7, <1>8, <1>9 DEF LaunchStep

(* A step of the main thread that launches no browser.                     *)
LEMMA ShutdownEffect ==
  ASSUME BrowserState, ManagerState, ShutdownStep
  PROVE  /\ main.pc \in ShutPC /\ main'.pc \in ShutPC
         /\ UNCHANGED <<thread, closing, launch, isFresh, gen, currentProfile, queueVars,
                        failureVars, restartRequired, visitVars, escaped, exceeded>>
         /\ \A b \in Browser : manager'[b] = manager[b] \/ manager'[b].pc = "dead"
         /\ \A b \in Browser, p \in Nat :
              <<b, p>> \in profiles \ profiles' => p = currentProfile[b]
  <1>1. PICK b \in Browser : JoinEnds(b) \/ KillAtShutdown(b) \/ FinishBrowser(b)
    BY DEF ShutdownStep
  <1>2. CASE JoinEnds(b)
    <2>1. main \in Closing
      BY <1>2, MainCases DEF JoinEnds, ManagerState
    <2>2. main'.pc = "kill"
      BY <1>2, <2>1, ClosingAt DEF JoinEnds, MainAt
    <2> QED
      BY <1>2, <2>2
      DEF JoinEnds, ShutPC, browserVars, queueVars, profileVars, failureVars, visitVars
  <1>3. CASE KillAtShutdown(b)
    <2>1. main \in Closing
      BY <1>3, MainCases DEF KillAtShutdown, ManagerState
    <2>2. main'.pc = "archive"
      BY <1>3, <2>1, ClosingAt DEF KillAtShutdown, MainAt
    <2>3. \A a \in Browser : manager'[a] = manager[a] \/ manager'[a].pc = "dead"
      BY <1>3 DEF KillAtShutdown, Kill, ManagerAt, BrowserState
    <2> QED
      BY <1>3, <2>2, <2>3
      DEF KillAtShutdown, ShutPC, queueVars, profileVars, failureVars, visitVars, historyVars
  <1>4. CASE FinishBrowser(b)
    <2>1. main \in Closing
      BY <1>4, MainCases DEF FinishBrowser, ManagerState
    <2>2. main'.pc \in ShutPC
      <3>1. CASE ArchiveRaises(b)
        BY <1>4, <3>1 DEF FinishBrowser, ShutPC
      <3>2. CASE ~ArchiveRaises(b) /\ b = NumBrowsers
        BY <1>4, <3>2 DEF FinishBrowser, ShutPC
      <3>3. CASE ~ArchiveRaises(b) /\ b # NumBrowsers
        <4>1. main' = [main EXCEPT !.pc = "join", !.b = b + 1, !.seen = thread[b + 1]]
          BY <1>4, <3>3 DEF FinishBrowser
        <4> QED
          BY <2>1, <4>1 DEF Closing, ShutPC
      <3> QED
        BY <3>1, <3>2, <3>3
    <2>3. \A a \in Browser, p \in Nat :
            <<a, p>> \in profiles \ profiles' => p = currentProfile[a]
      BY <1>4 DEF FinishBrowser
    <2> QED
      BY <1>4, <2>2, <2>3
      DEF FinishBrowser, ShutPC, queueVars, failureVars, visitVars, historyVars
  <1> QED
    BY <1>1, <1>2, <1>3, <1>4

LEMMA LaunchedEffect ==
  ASSUME BrowserState, ManagerState, NEW b \in Browser, Launched(b)
  PROVE  /\ launch'[b].step = "none" /\ \A a \in Browser \ {b} : launch'[a] = launch[a]
         /\ main.pc = "launch" /\ main.b = b
         /\ \/ /\ launch[b].step = "ok" /\ UNCHANGED closing
               /\ \/ main'.pc = "idle" /\ b = NumBrowsers
                  \/ main'.pc = "launch" /\ main'.b = b + 1
            \/ closing' = TRUE /\ main'.pc \in ShutPC
  <1>1. launch'[b].step = "none" /\ \A a \in Browser \ {b} : launch'[a] = launch[a]
    BY LaunchAtType DEF Launched, BrowserState
  <1>2. CASE launch[b].step = "ok"
    <2>1. CASE b = NumBrowsers
      BY <1>1, <1>2, <2>1 DEF Launched
    <2>2. CASE b # NumBrowsers
      <3>1. main' = [main EXCEPT !.b = b + 1] /\ main.pc = "launch" /\ main \in Main
        BY <1>2, <2>2 DEF Launched, ManagerState
      <3>2. main \in [pc : {"launch", "block"}, b : Browser]
        BY <3>1 DEF Main, Closing, Distributing
      <3>3. main'.pc = "launch" /\ main'.b = b + 1
        BY <3>1, <3>2
      <3> QED
        BY <1>1, <1>2, <3>3 DEF Launched
    <2> QED
      BY <2>1, <2>2
  <1>3. CASE launch[b].step = "failed"
    <2>1. Shutdown(1, FALSE)
      BY <1>3 DEF Launched
    <2>2. main'.pc = "join" /\ closing' = TRUE
      BY <2>1, ShutdownType DEF ManagerState
    <2> QED
      BY <1>1, <2>2 DEF Launched, ShutPC
  <1>4. CASE launch[b].step = "raised"
    <2>1. Shutdown(-1, TRUE)
      BY <1>4 DEF Launched
    <2>2. main'.pc = "join" /\ closing' = TRUE
      BY <2>1, ShutdownType DEF ManagerState
    <2> QED
      BY <1>1, <2>2 DEF Launched, ShutPC
  <1> QED
    BY <1>2, <1>3, <1>4 DEF Launched

(* The script's calls and the steps that distribute a sequence, other than *)
(* the start of a thread: from idle, distribute or block to one of these   *)
(* or to the shutdown.                                                     *)
Calling == {"idle", "distribute", "block"}

LEMMA CallEffect ==
  ASSUME BrowserState, ManagerState,
         \/ Close \/ Unblocked
         \/ \E s \in CommandSequence, t \in Target, b \in Browser : Execute(s, t, b)
         \/ \E b \in Browser : LookElsewhere(b) \/ CheckFails(b)
  PROVE  /\ main.pc \in Calling
         /\ \/ main'.pc \in Calling /\ UNCHANGED closing
            \/ main'.pc \in ShutPC /\ closing' = TRUE
         /\ UNCHANGED <<browserVars, thread, failureVars, restartRequired, currVisit,
                        siteVisits, escaped, exceeded>>
  <1> USE DEF Calling
  <1>1. CASE Close
    BY <1>1, ShutdownType DEF Close, ManagerState, ShutPC, visitVars, historyVars
  <1>2. CASE Unblocked
    <2>1. CASE failureStatus = "none"
      BY <1>2, <2>1 DEF Unblocked, visitVars, historyVars
    <2>2. CASE failureStatus # "none"
      BY <1>2, <2>2, ShutdownType DEF Unblocked, ManagerState, ShutPC, visitVars, historyVars
    <2> QED
      BY <2>1, <2>2
  <1>3. ASSUME NEW s \in CommandSequence, NEW t \in Target, NEW b \in Browser, Execute(s, t, b)
        PROVE  /\ main.pc = "idle" /\ main'.pc = "distribute" /\ UNCHANGED closing
               /\ UNCHANGED <<browserVars, thread, failureVars, restartRequired, currVisit,
                              siteVisits, escaped, exceeded>>
    BY <1>3 DEF Execute, historyVars
  <1>4. ASSUME NEW b \in Browser, LookElsewhere(b)
        PROVE  /\ main.pc = "distribute" /\ main'.pc = "distribute" /\ UNCHANGED closing
               /\ UNCHANGED <<browserVars, thread, failureVars, restartRequired, currVisit,
                              siteVisits, escaped, exceeded>>
    BY <1>4, MainCases DEF LookElsewhere, ManagerState, Distributing, visitVars, historyVars
  <1>5. ASSUME NEW b \in Browser, CheckFails(b)
        PROVE  /\ main.pc = "distribute" /\ main'.pc = "join" /\ closing' = TRUE
               /\ UNCHANGED <<browserVars, thread, failureVars, restartRequired, currVisit,
                              siteVisits, escaped, exceeded>>
    BY <1>5, ShutdownType DEF CheckFails, ManagerState, visitVars, historyVars
  <1> QED
    BY <1>1, <1>2, <1>3, <1>4, <1>5 DEF ShutPC

LEMMA DistributedEffect ==
  ASSUME ManagerState, Distributed
  PROVE  /\ main.pc = "distribute" /\ main'.pc \in {"idle", "block"}
         /\ thread' \in [Browser -> Thread]
         /\ \A b \in Browser : \/ thread'[b] = thread[b]
                               \/ thread[b].pc = "wait" /\ thread'[b].pc = "next"
         /\ UNCHANGED <<browserVars, closing, failureVars, restartRequired, visitVars,
                        escaped, exceeded>>
  <1>1. ASSUME NEW b \in Browser, thread[b].pc = "wait"
        PROVE  /\ [thread[b] EXCEPT !.pc = "next"] \in Thread
               /\ [thread[b] EXCEPT !.pc = "next"].pc = "next"
    <2>1. PICK t \in LiveThread : t = thread[b]
      BY <1>1, LiveThreads DEF ManagerState
    <2>2. [t EXCEPT !.pc = "next"] \in LiveThread /\ [t EXCEPT !.pc = "next"].pc = "next"
      BY LiveThreadAt DEF LivePC
    <2> QED
      BY <2>1, <2>2, LiveThreads
  <1>2. /\ thread' \in [Browser -> Thread]
        /\ \A b \in Browser : \/ thread'[b] = thread[b]
                              \/ thread[b].pc = "wait" /\ thread'[b].pc = "next"
    BY <1>1 DEF Distributed, ManagerState
  <1> QED
    BY <1>2 DEF Distributed, historyVars

LEMMA StartThreadEffect ==
  ASSUME ManagerState, NEW b \in Browser, StartThread(b)
  PROVE  /\ main.pc = "distribute" /\ main'.pc = "distribute"
         /\ thread[b].pc = "dead" /\ thread'[b].pc = "start" /\ failureStatus = "none"
         /\ thread' \in [Browser -> Thread]
         /\ \A a \in Browser \ {b} : thread'[a] = thread[a]
         /\ \E id \in Nat : /\ siteVisits' = Append(siteVisits, [id |-> id, browser |-> b])
                            /\ currVisit' = [currVisit EXCEPT ![b] = id]
         /\ UNCHANGED <<browserVars, closing, failureVars, restartRequired, escaped,
                        exceeded>>
  <1>1. PICK id \in Nat : StartVisit(b, id) /\ SetVisit(b, id)
    <2>1. CASE StartWithCall(b)
      <3>1. main.visit \in Nat
        BY <2>1, MainCases DEF StartWithCall, StartVisit, ManagerState, Distributing
      <3> QED
        BY <2>1, <3>1 DEF StartWithCall
    <2>2. CASE StartWithOwn(b)
      BY <2>2 DEF StartWithOwn, ManagerState
    <2> QED
      BY <2>1, <2>2 DEF StartThread
  <1>2. /\ main'.pc = "distribute"
        /\ thread' = [thread EXCEPT ![b] = NewThread]
        /\ NewThread \in LiveThread /\ NewThread.pc = "start"
    BY <1>1, StartVisitMain
  <1>3. NewThread \in Thread
    BY <1>2, LiveThreads
  <1>4. /\ thread'[b].pc = "start" /\ thread' \in [Browser -> Thread]
        /\ \A a \in Browser \ {b} : thread'[a] = thread[a]
    BY <1>2, <1>3 DEF ManagerState
  <1>5. \E i \in Nat : /\ siteVisits' = Append(siteVisits, [id |-> i, browser |-> b])
                       /\ currVisit' = [currVisit EXCEPT ![b] = i]
    <2>1. /\ siteVisits' = Append(siteVisits, [id |-> id, browser |-> b])
          /\ currVisit' = [currVisit EXCEPT ![b] = id]
      BY <1>1 DEF StartVisit, SetVisit
    <2> QED
      BY <2>1
  <1>6. /\ main.pc = "distribute" /\ thread[b].pc = "dead" /\ failureStatus = "none"
        /\ UNCHANGED <<browserVars, closing, failureVars, restartRequired, escaped,
                       exceeded>>
    BY <1>1 DEF StartVisit, IsReady, historyVars
  <1> QED
    BY <1>2, <1>4, <1>5, <1>6

(* A step of a command thread: it leaves the main thread alone, and other  *)
(* threads; only Restart and its end touch the launch.                     *)
LEMMA ThreadEffect ==
  ASSUME BrowserState, ManagerState, NEW b \in Browser, ThreadStep(b)
  PROVE  /\ thread[b].pc # "dead"
         /\ UNCHANGED <<main, closing, gen, visitVars>>
         /\ \A a \in Browser \ {b} : /\ thread'[a] = thread[a] /\ launch'[a] = launch[a]
                                     /\ isFresh'[a] = isFresh[a]
         /\ \/ thread'[b].pc = "dead"
            \/ /\ thread'[b].pc = "launch" /\ thread[b].pc = "drain"
            \/ /\ launch'[b] = launch[b] /\ thread[b].pc # "launch"
               /\ thread[b].pc = "start" => ~isFresh'[b]
               /\ thread[b].pc # "start" => isFresh'[b] = isFresh[b]
         /\ thread'[b].pc = "dead" =>
              \/ thread[b].pc = "launch" /\ launch'[b].step = "none"
              \/ thread[b].pc # "launch" /\ launch'[b] = launch[b]
  <1> USE DEF LivePC
  <1>0. thread \in [Browser -> Thread] /\ launch \in [Browser -> Activation]
    BY DEF ManagerState, BrowserState
  <1>1. CASE StartSequence(b)
    BY <1>0, <1>1, ThreadAtType DEF StartSequence, BrowserState
  <1>2. CASE SendCommand(b)
    BY <1>0, <1>2, ThreadAtType DEF SendCommand, profileVars
  <1>3. CASE SequenceDone(b)
    BY <1>0, <1>3, ThreadAtType DEF SequenceDone, browserVars, profileVars
  <1>4. CASE CommandSucceeded(b)
    <2>1. PICK l \in LivePC : /\ l = (IF restartRequired[b] THEN "drain" ELSE "next")
                              /\ l \in {"drain", "next"}
      OBVIOUS
    <2>2. thread' = [thread EXCEPT ![b].pc = l, ![b].n = @ + 1] /\ thread[b].pc # "dead"
      BY <1>4, <2>1 DEF CommandSucceeded, Answer
    <2>3. thread'[b].pc = l /\ \A a \in Browser \ {b} : thread'[a] = thread[a]
      BY <1>0, <2>2, ThreadNextType, Zenon
    <2> QED
      BY <1>4, <2>1, <2>3 DEF CommandSucceeded, Answer, profileVars
  <1>5. CASE CommandCritical(b)
    BY <1>0, <1>5, ThreadEndsType DEF CommandCritical, Answer, profileVars
  <1>6. CASE CommandFailed(b)
    <2>1. thread[b].pc = "await"
      BY <1>6 DEF CommandFailed, NoSuccess, AnsweredFailed, Answer
    <2> QED
      BY <1>0, <1>6, <2>1, ThreadAtType DEF CommandFailed, profileVars
  <1>7. CASE CheckLimit(b)
    <2>1. CASE GiveUp(b)
      BY <1>0, <1>7, <2>1, ThreadEndsType DEF CheckLimit, GiveUp, browserVars, profileVars
    <2>2. CASE AskRestart(b)
      BY <1>0, <1>7, <2>2, ThreadAtType DEF CheckLimit, AskRestart, browserVars, profileVars
    <2> QED
      BY <1>7, <2>1, <2>2 DEF CheckLimit
  <1>8. CASE AfterSequence(b)
    <2>1. CASE ThreadEnds(b) /\ UNCHANGED launch
      BY <1>0, <1>8, <2>1, ThreadEndsType DEF AfterSequence
    <2>2. CASE ThreadAt(b, "launch") /\ Restart(b, thread[b].sequence.reset)
      <3>1. \A a \in Browser \ {b} : launch'[a] = launch[a]
        BY <1>0, <2>2 DEF Restart, LaunchAt, Launch
      <3> QED
        BY <1>0, <1>8, <2>2, <3>1, ThreadAtType DEF AfterSequence
    <2> QED
      BY <1>8, <2>1, <2>2 DEF AfterSequence
  <1>9. CASE Restarted(b)
    BY <1>0, <1>9, ThreadEndsType, LaunchAtType DEF Restarted, profileVars
  <1> QED
    BY <1>1, <1>2, <1>3, <1>4, <1>5, <1>6, <1>7, <1>8, <1>9 DEF ThreadStep

-----------------------------------------------------------------------------
(* Where the threads are.                                                  *)

LEMMA ControlInit == Init => Control
  BY BrowserAssumption
  DEF Init, BrowserInit, Control, ShutPC, NotLaunching, DeadThread, Browser

LEMMA ControlStep ==
  ASSUME BrowserState, ManagerState, Control, [Next]_vars
  PROVE  Control'
  <1> USE DEF Control, ShutPC
  <1>0. thread \in [Browser -> Thread] /\ launch \in [Browser -> Activation]
    BY DEF ManagerState, BrowserState
  <1>1. CASE UNCHANGED vars
    BY <1>1 DEF vars, managerVars, browserVars, profileVars
  <1>2. ASSUME NEW b \in Browser, LaunchNext(b)
        PROVE  Control'
    <2>1. /\ UNCHANGED <<main, thread, closing, isFresh>>
          /\ main.pc = "launch" /\ main.b = b
          /\ \A a \in Browser \ {b} : launch'[a] = launch[a]
      BY <1>0, <1>2 DEF LaunchNext, Launch, managerVars, profileVars
    <2> QED
      BY <2>1
  <1>3. ASSUME NEW b \in Browser, Launched(b)
        PROVE  Control'
    <2>1. UNCHANGED <<thread, isFresh>>
      BY <1>3 DEF Launched, profileVars
    <2>2. /\ launch'[b].step = "none" /\ \A a \in Browser \ {b} : launch'[a] = launch[a]
          /\ main.pc = "launch" /\ main.b = b
          /\ \/ UNCHANGED closing /\ main'.pc \in {"idle", "launch"}
             \/ closing' = TRUE /\ main'.pc \in ShutPC
      BY <1>3, LaunchedEffect
    <2> QED
      BY <2>1, <2>2
  <1>4. CASE ShutdownStep
    <2>1. /\ main.pc \in ShutPC /\ main'.pc \in ShutPC
          /\ UNCHANGED <<thread, closing, launch, isFresh>>
      BY <1>4, ShutdownEffect
    <2> QED
      BY <2>1
  <1>5. CASE \/ Close \/ Unblocked
             \/ \E s \in CommandSequence, t \in Target, b \in Browser : Execute(s, t, b)
             \/ \E b \in Browser : LookElsewhere(b) \/ CheckFails(b)
    <2>1. /\ main.pc \in Calling
          /\ \/ main'.pc \in Calling /\ UNCHANGED closing
             \/ main'.pc \in ShutPC /\ closing' = TRUE
          /\ UNCHANGED <<browserVars, thread>>
      BY <1>5, CallEffect
    <2> QED
      BY <2>1 DEF Calling, browserVars, profileVars
  <1>6. CASE Distributed
    <2>1. /\ main.pc = "distribute" /\ main'.pc \in {"idle", "block"}
          /\ \A b \in Browser : \/ thread'[b] = thread[b]
                                \/ thread[b].pc = "wait" /\ thread'[b].pc = "next"
          /\ UNCHANGED <<browserVars, closing>>
      BY <1>6, DistributedEffect
    <2> QED
      BY <2>1 DEF browserVars, profileVars
  <1>7. ASSUME NEW b \in Browser, StartThread(b)
        PROVE  Control'
    <2>1. /\ main.pc = "distribute" /\ main'.pc = "distribute"
          /\ thread[b].pc = "dead" /\ thread'[b].pc = "start"
          /\ \A a \in Browser \ {b} : thread'[a] = thread[a]
          /\ UNCHANGED <<browserVars, closing>>
      BY <1>7, StartThreadEffect
    <2> QED
      BY <2>1 DEF browserVars, profileVars
  <1>8. ASSUME NEW b \in Browser, ThreadStep(b)
        PROVE  Control'
    <2>1. main.pc # "launch" /\ UNCHANGED <<main, closing>> /\ thread[b].pc # "dead"
      BY <1>8, ThreadEffect
    <2>2. ASSUME NEW a \in Browser
          PROVE  /\ launch'[a].step # "none" => thread'[a].pc = "launch"
                 /\ thread'[a].pc \in {"wait", "next", "await", "limit", "drain"} =>
                      ~isFresh'[a]
      <3>1. CASE a # b
        <4>1. thread'[a] = thread[a] /\ launch'[a] = launch[a] /\ isFresh'[a] = isFresh[a]
          BY <1>8, <3>1, ThreadEffect
        <4> QED
          BY <2>1, <4>1
      <3>2. CASE a = b
        <4>1. thread[b].pc \in LivePC
          BY <1>0, <2>1, ThreadCases
        <4>2. CASE thread'[b].pc = "dead"
          <5>1. \/ launch'[b].step = "none"
                \/ thread[b].pc # "launch" /\ launch'[b] = launch[b]
            BY <1>8, <4>2, ThreadEffect
          <5> QED
            BY <2>1, <3>2, <4>2, <5>1
        <4>3. CASE thread'[b].pc = "launch"
          BY <3>2, <4>3
        <4>4. CASE thread'[b].pc \notin {"dead", "launch"}
          <5>1. /\ launch'[b] = launch[b] /\ thread[b].pc # "launch"
                /\ thread[b].pc = "start" => ~isFresh'[b]
                /\ thread[b].pc # "start" => isFresh'[b] = isFresh[b]
            BY <1>8, <4>4, ThreadEffect
          <5> QED
            BY <2>1, <3>2, <4>1, <5>1 DEF LivePC
        <4> QED
          BY <4>2, <4>3, <4>4
      <3> QED
        BY <3>1, <3>2
    <2> QED
      BY <2>1, <2>2
  <1>9. ASSUME NEW b \in Browser, BrowserStep(b)
        PROVE  Control'
    <2>1. UNCHANGED <<main, thread, closing>>
      BY <1>9 DEF BrowserStep, managerVars
    <2>2. CASE ChildStep(b)
      BY <2>1, <2>2, ChildEffect
    <2>3. CASE LaunchStep(b)
      <3>1. /\ launch[b].step # "none"
            /\ \A a \in Browser \ {b} : launch'[a] = launch[a] /\ isFresh'[a] = isFresh[a]
        BY <2>3, LaunchStepEffect DEF LiveStep
      <3> QED
        BY <2>1, <3>1
    <2> QED
      BY <1>9, <2>2, <2>3 DEF BrowserStep
  <1>10. CASE KillStrays
    BY <1>10 DEF KillStrays, managerVars, profileVars
  <1>11. ASSUME NEW b \in Browser, MemoryAlarm(b)
         PROVE  Control'
    BY <1>11 DEF MemoryAlarm, browserVars, profileVars
  <1> QED
    BY <1>1, <1>2, <1>3, <1>4, <1>5, <1>6, <1>7, <1>8, <1>9, <1>10, <1>11
    DEF Next, MainStep, DistributeStep

-----------------------------------------------------------------------------
(* The profile to recover from.                                            *)

LEMMA TailElements ==
  ASSUME NEW S, NEW q \in Seq(S), q # <<>>
  PROVE  /\ Tail(q) \in Seq(S) /\ Len(Tail(q)) = Len(q) - 1
         /\ 1 \in DOMAIN q /\ Head(q) = q[1]
         /\ \A i \in DOMAIN Tail(q) : i + 1 \in DOMAIN q /\ Tail(q)[i] = q[i + 1]
  <1>1. Len(q) \in Nat \ {0}
    OBVIOUS
  <1>2. Tail(q) \in Seq(S) /\ Len(Tail(q)) = Len(q) - 1
    OBVIOUS
  <1>3. \A i \in 1 .. Len(q) - 1 : Tail(q)[i] = q[i + 1]
    OBVIOUS
  <1> QED
    BY <1>1, <1>2, <1>3

LEMMA AppendElements ==
  ASSUME NEW S, NEW q \in Seq(S), NEW s \in S
  PROVE  \A i \in DOMAIN Append(q, s) :
           \/ i \in DOMAIN q /\ Append(q, s)[i] = q[i]
           \/ i = Len(q) + 1 /\ i = Len(Append(q, s)) /\ Append(q, s)[i] = s
  OBVIOUS

(* The child of b appends at most one status; what it announces is there.  *)
LEMMA ChildStatus ==
  ASSUME BrowserState, NEW b \in Browser, ChildStep(b)
  PROVE  /\ \A a \in Browser \ {b} : /\ statusQueue'[a] = statusQueue[a]
                                     /\ commandQueue'[a] = commandQueue[a]
                                     /\ manager'[a] = manager[a]
         /\ profiles \subseteq profiles'
         /\ \/ statusQueue'[b] = statusQueue[b]
            \/ \E s \in Status :
                 /\ statusQueue'[b] = Append(statusQueue[b], s)
                 /\ s.kind = "ProfileCreated" => <<b, gen[b]>> \in profiles'
  <1> USE DEF ManagerAt, Put, BrowserState
  <1>1. CASE CreateProfile(b)
    <2>1. [kind |-> "ProfileCreated"] \in Status
      BY DEF Status
    <2> QED
      BY <1>1, <2>1 DEF CreateProfile
  <1>2. CASE StartDisplay(b)
    <2>1. [kind |-> "Display"] \in Status /\ [kind |-> "Display"].kind # "ProfileCreated"
      BY DEF Status
    <2> QED
      BY <1>2, <2>1 DEF StartDisplay, profileVars
  <1>3. CASE StartFirefox(b)
    BY <1>3 DEF StartFirefox, queueVars, profileVars
  <1>4. CASE FirefoxLaunched(b)
    <2>1. /\ [kind |-> "BrowserLaunched"] \in Status
          /\ [kind |-> "BrowserLaunched"].kind # "ProfileCreated"
      BY DEF Status
    <2> QED
      BY <1>4, <2>1 DEF FirefoxLaunched, profileVars
  <1>5. CASE Ready(b)
    <2>1. /\ [kind |-> "BrowserReady"] \in Status
          /\ [kind |-> "BrowserReady"].kind # "ProfileCreated"
      BY DEF Status
    <2> QED
      BY <1>5, <2>1 DEF Ready, profileVars
  <1>6. CASE TakeCommand(b)
    BY <1>6 DEF TakeCommand, profileVars
  <1>7. CASE CommandDone(b)
    <2>1. manager[b].command \in Command
      BY <1>7, ManagerCommand DEF CommandDone
    <2>2. /\ [kind |-> "OK", command |-> manager[b].command] \in Status
          /\ [kind |-> "OK", command |-> manager[b].command].kind # "ProfileCreated"
      BY <2>1, DoneStatus
    <2> QED
      BY <1>7, <2>2 DEF CommandDone, profileVars
  <1>8. CASE ChildFails(b)
    <2>1. [kind |-> "FAILED"] \in Status /\ [kind |-> "FAILED"].kind # "ProfileCreated"
      BY DEF Status
    <2> QED
      BY <1>8, <2>1 DEF ChildFails, profileVars
  <1>9. CASE ChildCritical(b)
    <2>1. [kind |-> "CRITICAL"] \in Status /\ [kind |-> "CRITICAL"].kind # "ProfileCreated"
      BY DEF Status
    <2> QED
      BY <1>9, <2>1 DEF ChildCritical, profileVars
  <1> QED
    BY <1>1, <1>2, <1>3, <1>4, <1>5, <1>6, <1>7, <1>8, <1>9 DEF ChildStep

LEMMA AnnouncedTail ==
  ASSUME BrowserState, NEW b \in Browser, statusQueue[b] # <<>>,
         statusQueue' = [statusQueue EXCEPT ![b] = Tail(@)]
  PROVE  \A a \in Browser : Announced(a)' => Announced(a)
  <1>1. ASSUME NEW a \in Browser, Announced(a)'
        PROVE  Announced(a)
    <2>1. CASE a # b
      BY <1>1, <2>1 DEF Announced, BrowserState
    <2>2. CASE a = b
      <3>1. statusQueue'[b] = Tail(statusQueue[b]) /\ statusQueue[b] \in Seq(Status)
        BY DEF BrowserState
      <3>2. PICK i \in DOMAIN Tail(statusQueue[b]) :
              Tail(statusQueue[b])[i].kind = "ProfileCreated"
        BY <1>1, <2>2, <3>1 DEF Announced
      <3>3. i + 1 \in DOMAIN statusQueue[b] /\ Tail(statusQueue[b])[i] = statusQueue[b][i + 1]
        BY <3>1, TailElements
      <3> QED
        BY <2>2, <3>2, <3>3 DEF Announced
    <2> QED
      BY <2>1, <2>2
  <1> QED
    BY <1>1

(* The profile of one browser.                                             *)
ProfileOf(b) ==
  /\ ~closing => (currentProfile[b] # 0 => <<b, currentProfile[b]>> \in profiles)
  /\ currentProfile[b] <= gen[b]
  /\ launch[b].step = "dump" => currentProfile[b] # 0
  /\ launch[b].step = "status" =>
       /\ currentProfile[b] < gen[b]
       /\ launch[b].spawned \in {0, gen[b]}
       /\ Announced(b) \/ launch[b].spawned # 0 => <<b, gen[b]>> \in profiles

LEMMA ProfileEach == ProfileInv <=> \A b \in Browser : ProfileOf(b)
  BY DEF ProfileInv, ProfileKept, ProfileOf

LEMMA ProfileSame ==
  ASSUME BrowserState, NEW b \in Browser, ProfileOf(b), closing => closing',
         gen'[b] = gen[b], currentProfile'[b] = currentProfile[b], launch'[b] = launch[b],
         \A p \in Nat : <<b, p>> \in profiles \ profiles' => closing /\ p = currentProfile[b],
         Announced(b)' => Announced(b) \/ <<b, gen[b]>> \in profiles'
  PROVE  ProfileOf(b)'
  <1>1. gen[b] \in Nat /\ currentProfile[b] \in Nat
    BY DEF BrowserState
  <1> QED
    BY <1>1 DEF ProfileOf

LEMMA ProfileInit == Init => ProfileInv
  BY DEF Init, BrowserInit, ProfileInv, ProfileKept, NotLaunching

LEMMA ProfileChild ==
  ASSUME BrowserState, ProfileInv, NEW b \in Browser, ChildStep(b), UNCHANGED closing
  PROVE  ProfileInv'
  <1>1. UNCHANGED <<gen, currentProfile, launch>>
    BY ChildEffect
  <1>2. profiles \subseteq profiles'
    BY ChildStatus
  <1>3. ASSUME NEW a \in Browser, Announced(a)'
        PROVE  Announced(a) \/ <<a, gen[a]>> \in profiles'
    <2>1. CASE a # b
      BY <1>3, <2>1, ChildStatus DEF Announced
    <2>2. CASE a = b /\ statusQueue'[b] = statusQueue[b]
      BY <1>3, <2>2 DEF Announced
    <2>3. ASSUME a = b, NEW s \in Status, statusQueue'[b] = Append(statusQueue[b], s),
                 s.kind = "ProfileCreated" => <<b, gen[b]>> \in profiles'
          PROVE  Announced(a) \/ <<a, gen[a]>> \in profiles'
      <3>1. statusQueue[b] \in Seq(Status)
        BY DEF BrowserState
      <3>2. PICK i \in DOMAIN Append(statusQueue[b], s) :
              Append(statusQueue[b], s)[i].kind = "ProfileCreated"
        BY <1>3, <2>3 DEF Announced
      <3> QED
        BY <2>3, <3>1, <3>2, AppendElements DEF Announced
    <2> QED
      BY <2>1, <2>2, <2>3, ChildStatus
  <1>4. \A a \in Browser : ProfileOf(a)
    BY ProfileEach
  <1>5. ASSUME NEW a \in Browser
        PROVE  ProfileOf(a)'
    BY <1>1, <1>2, <1>3, <1>4, ProfileSame
  <1> QED
    BY <1>5, ProfileEach DEF ProfileInv, ProfileKept, ProfileOf

LEMMA ProfileOthers ==
  ASSUME BrowserState, ProfileInv, NEW b \in Browser, UNCHANGED closing,
         \A a \in Browser \ {b} : /\ gen'[a] = gen[a] /\ launch'[a] = launch[a]
                                  /\ currentProfile'[a] = currentProfile[a]
                                  /\ statusQueue'[a] = statusQueue[a],
         \A a \in Browser \ {b}, p \in Nat : <<a, p>> \in profiles => <<a, p>> \in profiles',
         ProfileOf(b)'
  PROVE  ProfileInv'
  <1>1. ASSUME NEW a \in Browser \ {b}
        PROVE  ProfileOf(a)'
    <2>1. ProfileOf(a) /\ (Announced(a)' => Announced(a))
      BY ProfileEach DEF Announced
    <2> QED
      BY <2>1, ProfileSame
  <1>2. \A a \in Browser : ProfileOf(a)'
    BY <1>1
  <1> QED
    BY <1>2 DEF ProfileInv, ProfileKept, ProfileOf

(* Where a launch step leaves the launch.                                  *)
LEMMA DumpGoesTo ==
  ASSUME launch \in [Browser -> Activation], NEW b \in Browser, DumpProfile(b)
  PROVE  launch'[b].step \in {"spawn", "raised"}
  <1>1. launch[b].step \in LiveStep
    BY DEF DumpProfile, LiveStep
  <1>2. CASE LaunchAt(b, "raised")
    BY <1>2, LaunchAtType
  <1>3. CASE launch' = [launch EXCEPT ![b].step = "spawn"]
    <2>1. launch' = [launch EXCEPT ![b] =
            [step |-> "spawn", failures |-> launch[b].failures,
             spawned |-> launch[b].spawned]]
      BY <1>1, <1>3, StepSet
    <2> QED
      BY <2>1
  <1> QED
    BY <1>2, <1>3 DEF DumpProfile

LEMMA SpawnGoesTo ==
  ASSUME BrowserState, NEW b \in Browser
  PROVE  Spawn(b) => launch'[b].step = "status" /\ launch'[b].spawned = 0
  <1>0. LaunchState /\ launch[b] \in Activation
    BY DEF BrowserState, LaunchState, LiveStep
  <1>1. CASE Spawn(b)
    <2>1. launch' = [launch EXCEPT ![b] =
            [step |-> "status", failures |-> launch[b].failures, spawned |-> 0]]
      BY <1>0, <1>1, StepSpawnedSet, Zenon DEF LaunchState, Spawn, LiveStep
    <2> QED
      BY <1>0, <2>1 DEF LaunchState
  <1> QED
    BY <1>1

LEMMA LearnGoesTo ==
  ASSUME launch \in [Browser -> Activation], NEW b \in Browser, LearnProfile(b)
  PROVE  launch'[b].step = "status" /\ launch'[b].spawned = gen[b]
  <1>1. launch[b].step = "status" /\ launch[b].step \in LiveStep
    BY DEF LearnProfile, Received, LiveStep
  <1>2. launch' = [launch EXCEPT ![b].spawned = gen[b]]
    BY DEF LearnProfile
  <1>3. launch' = [launch EXCEPT ![b] =
          [step |-> launch[b].step, failures |-> launch[b].failures, spawned |-> gen[b]]]
    BY <1>1, <1>2, SpawnedSet
  <1> QED
    BY <1>1, <1>3

LEMMA FailGoesTo ==
  ASSUME BrowserState, NEW b \in Browser
  PROVE  SpawnFails(b) => launch'[b].step = "spawn" /\ launch[b].step = "status"
  <1>0. LaunchState /\ launch[b] \in Activation
    BY DEF BrowserState, LaunchState, LiveStep
  <1>1. CASE SpawnFails(b)
    <2>1. launch[b].step = "status"
      BY <1>1 DEF SpawnFails, Received
    <2>2. launch' = [launch EXCEPT ![b] =
            [step |-> "spawn", failures |-> launch[b].failures + 1,
             spawned |-> launch[b].spawned]]
      BY <1>0, <1>1, <2>1, StepFailuresSet, Zenon DEF LaunchState, SpawnFails, LiveStep
    <2> QED
      BY <1>0, <2>1, <2>2 DEF LaunchState
  <1> QED
    BY <1>1

LEMMA EndGoesTo ==
  ASSUME launch \in [Browser -> Activation], NEW b \in Browser
  PROVE  /\ SpawnLimitReached(b) => launch'[b].step = "failed"
         /\ SpawnSucceeds(b) => launch'[b].step = "ok"
         /\ SpawnRaises(b) => launch'[b].step = "raised"
  BY LaunchAtType DEF SpawnLimitReached, SpawnSucceeds, SpawnRaises

LEMMA ProfileLaunch ==
  ASSUME BrowserState, BrowserState', ProfileInv, NEW b \in Browser, LaunchStep(b),
         UNCHANGED closing
  PROVE  ProfileInv'
  <1> USE DEF BrowserState
  <1>0. ProfileOf(b) /\ gen[b] \in Nat /\ currentProfile[b] \in Nat
    BY ProfileEach
  <1>a. launch[b] \in Activation
    OBVIOUS
  <1>1. CASE DumpProfile(b)
    <2>1. launch'[b].step \in {"spawn", "raised"}
      BY <1>1, DumpGoesTo
    <2>2. ProfileOf(b)'
      BY <1>0, <1>1, <2>1 DEF DumpProfile, ProfileOf, profileVars
    <2> QED
      BY <1>1, <2>2, ProfileOthers, LaunchStepEffect DEF DumpProfile, queueVars, profileVars
  <1>2. CASE Spawn(b)
    <2>2. launch'[b].step = "status" /\ launch'[b].spawned = 0
      BY <1>2, SpawnGoesTo
    <2>3. ~Announced(b)'
      BY <1>2 DEF Spawn, Announced
    <2>4. gen'[b] = gen[b] + 1 /\ UNCHANGED <<profiles, currentProfile>>
      BY <1>2 DEF Spawn
    <2>5. ProfileOf(b)'
      BY <1>0, <2>2, <2>3, <2>4 DEF ProfileOf
    <2> QED
      BY <1>2, <2>5, ProfileOthers, LaunchStepEffect DEF Spawn
  <1>3. CASE SpawnLimitReached(b)
    <2>1. launch'[b].step = "failed"
      BY <1>3, EndGoesTo
    <2>2. ProfileOf(b)'
      BY <1>0, <1>3, <2>1 DEF SpawnLimitReached, ProfileOf, profileVars
    <2> QED
      BY <1>3, <2>2, ProfileOthers, LaunchStepEffect DEF SpawnLimitReached, queueVars, profileVars
  <1>4. CASE LearnProfile(b)
    <2>2. launch'[b].step = "status" /\ launch'[b].spawned = gen[b] /\ launch[b].step = "status"
      BY <1>4, LearnGoesTo DEF LearnProfile, Received
    <2>3. Announced(b)
      <3>1. statusQueue[b] \in Seq(Status) /\ statusQueue[b] # <<>>
            /\ Head(statusQueue[b]).kind = "ProfileCreated"
        BY <1>4 DEF LearnProfile, Received
      <3> QED
        BY <3>1, TailElements DEF Announced
    <2>4. ProfileOf(b)'
      BY <1>0, <1>4, <2>2, <2>3 DEF LearnProfile, ProfileOf, profileVars
    <2> QED
      BY <1>4, <2>4, ProfileOthers, LaunchStepEffect DEF LearnProfile, Received, profileVars
  <1>5. CASE LearnDisplay(b) \/ LearnBrowser(b)
    <2>1. /\ UNCHANGED <<gen, profiles, currentProfile, launch>>
          /\ statusQueue[b] # <<>> /\ statusQueue' = [statusQueue EXCEPT ![b] = Tail(@)]
      BY <1>5 DEF LearnDisplay, LearnBrowser, Received, profileVars
    <2>2. Announced(b)' => Announced(b)
      BY <2>1, AnnouncedTail
    <2>3. ProfileOf(b)'
      BY <1>0, <2>1, <2>2, ProfileSame
    <2> QED
      BY <2>1, <2>3, ProfileOthers
  <1>6. CASE SpawnSucceeds(b)
    <2>1. launch'[b].step = "ok"
      BY <1>6, EndGoesTo
    <2>2. /\ currentProfile'[b] = launch[b].spawned /\ gen' = gen
          /\ profiles' = profiles \ {<<b, currentProfile[b]>>}
          /\ launch[b].step = "status"
      BY <1>6 DEF SpawnSucceeds, Received
    <2>3. ProfileOf(b)'
      <3>1. CASE launch[b].spawned = 0
        BY <1>0, <2>1, <2>2, <3>1 DEF ProfileOf
      <3>2. CASE launch[b].spawned = gen[b] /\ gen[b] # 0
        <4>1. <<b, gen[b]>> \in profiles /\ currentProfile[b] < gen[b]
          BY <1>0, <2>2, <3>2 DEF ProfileOf
        <4>2. <<b, gen[b]>> \in profiles'
          BY <1>0, <2>2, <4>1
        <4> QED
          BY <1>0, <2>1, <2>2, <3>2, <4>2 DEF ProfileOf
      <3> QED
        BY <1>0, <2>2, <3>1, <3>2 DEF ProfileOf
    <2> QED
      BY <1>6, <2>2, <2>3, ProfileOthers, LaunchStepEffect DEF SpawnSucceeds, Received
  <1>7. CASE SpawnFails(b)
    <2>2. launch'[b].step = "spawn" /\ launch[b].step = "status"
      BY <1>7, FailGoesTo
    <2>3. /\ UNCHANGED <<gen, currentProfile>>
          /\ profiles' = profiles \ {<<b, launch[b].spawned>>}
          /\ \A a \in Browser \ {b} : statusQueue'[a] = statusQueue[a]
      BY <1>7 DEF SpawnFails, Received
    <2>4. ProfileOf(b)'
      BY <1>0, <2>2, <2>3 DEF ProfileOf
    <2> QED
      BY <1>7, <2>3, <2>4, ProfileOthers, LaunchStepEffect
  <1>8. CASE SpawnRaises(b)
    <2>1. launch'[b].step = "raised"
      BY <1>8, EndGoesTo
    <2>2. ProfileOf(b)'
      BY <1>0, <1>8, <2>1 DEF SpawnRaises, ProfileOf, profileVars
    <2> QED
      BY <1>8, <2>2, ProfileOthers, LaunchStepEffect DEF SpawnRaises, Received, profileVars
  <1> QED
    BY <1>1, <1>2, <1>3, <1>4, <1>5, <1>6, <1>7, <1>8 DEF LaunchStep

LEMMA ProfileStill ==
  ASSUME BrowserState, ProfileInv, UNCHANGED <<gen, currentProfile, launch, statusQueue>>,
         closing => closing',
         \A b \in Browser, p \in Nat :
           <<b, p>> \in profiles \ profiles' => closing /\ p = currentProfile[b]
  PROVE  ProfileInv'
  <1>1. ASSUME NEW b \in Browser
        PROVE  ProfileOf(b)'
    <2>1. ProfileOf(b) /\ (Announced(b)' => Announced(b))
      BY ProfileEach DEF Announced
    <2> QED
      BY <2>1, ProfileSame
  <1> QED
    BY <1>1 DEF ProfileInv, ProfileKept, ProfileOf

LEMMA ProfileTaken ==
  ASSUME BrowserState, ProfileInv, NEW b \in Browser, statusQueue[b] # <<>>,
         statusQueue' = [statusQueue EXCEPT ![b] = Tail(@)],
         UNCHANGED <<gen, currentProfile, launch, profiles, closing>>
  PROVE  ProfileInv'
  <1>1. ASSUME NEW a \in Browser
        PROVE  ProfileOf(a)'
    <2>1. ProfileOf(a) /\ (Announced(a)' => Announced(a))
      BY ProfileEach, AnnouncedTail
    <2> QED
      BY <2>1, ProfileSame
  <1> QED
    BY <1>1 DEF ProfileInv, ProfileKept, ProfileOf

LEMMA NewLaunch ==
  ASSUME launch \in [Browser -> Activation], NEW b \in Browser, NEW p, Launch(b, p)
  PROVE  /\ launch'[b].step = IF p # 0 THEN "dump" ELSE "spawn"
         /\ \A a \in Browser \ {b} : launch'[a] = launch[a]
  BY DEF Launch

LEMMA ProfileThread ==
  ASSUME BrowserState, ManagerState, ProfileInv, NEW b \in Browser, ThreadStep(b)
  PROVE  ProfileInv'
  <1>0. ProfileOf(b)
    BY ProfileEach
  <1>1. CASE StartSequence(b) \/ SendCommand(b) \/ SequenceDone(b) \/ CheckLimit(b)
    BY <1>1, ProfileStill
    DEF StartSequence, SendCommand, SequenceDone, CheckLimit, browserVars, queueVars, profileVars
  <1>2. CASE CommandSucceeded(b) \/ CommandCritical(b)
    BY <1>2, ProfileTaken DEF CommandSucceeded, CommandCritical, Answer, profileVars
  <1>3. CASE CommandFailed(b)
    <2>1. UNCHANGED <<gen, currentProfile, launch, profiles, closing>>
      BY <1>3 DEF CommandFailed, profileVars
    <2>2. CASE AnsweredFailed(b)
      BY <2>1, <2>2, ProfileTaken DEF AnsweredFailed, Answer
    <2>3. CASE UNCHANGED statusQueue
      BY <2>1, <2>3, ProfileStill
    <2> QED
      BY <1>3, <2>2, <2>3 DEF CommandFailed, NoSuccess
  <1>4. CASE AfterSequence(b)
    <2>1. UNCHANGED <<gen, statusQueue, closing>>
      BY <1>4 DEF AfterSequence, queueVars
    <2>2. CASE UNCHANGED <<profiles, currentProfile, launch>>
      BY <2>1, <2>2, ProfileStill
    <2>3. CASE Restart(b, thread[b].sequence.reset)
      <3>1. ASSUME LaunchAt(b, "ok"), UNCHANGED <<profiles, currentProfile>>
            PROVE  ProfileInv'
        <4>1. launch'[b].step = "ok" /\ \A a \in Browser \ {b} : launch'[a] = launch[a]
          BY <3>1, LaunchAtType DEF BrowserState
        <4>2. ProfileOf(b)'
          BY <1>0, <2>1, <3>1, <4>1 DEF ProfileOf
        <4> QED
          BY <2>1, <3>1, <4>1, <4>2, ProfileOthers
      <3>2. ASSUME profiles' = profiles \ {<<b, currentProfile[b]>>},
                   currentProfile' = [currentProfile EXCEPT ![b] = 0],
                   Launch(b, currentProfile'[b])
            PROVE  ProfileInv'
        <4>1. /\ currentProfile'[b] = 0 /\ gen[b] \in Nat
              /\ \A a \in Browser \ {b} : currentProfile'[a] = currentProfile[a]
          BY <3>2 DEF BrowserState
        <4>2. launch'[b].step = "spawn" /\ \A a \in Browser \ {b} : launch'[a] = launch[a]
          BY <3>2, <4>1, NewLaunch DEF BrowserState
        <4>3. ProfileOf(b)'
          BY <2>1, <4>1, <4>2 DEF ProfileOf
        <4> QED
          BY <2>1, <3>2, <4>1, <4>2, <4>3, ProfileOthers
      <3>3. ASSUME UNCHANGED <<profiles, currentProfile>>, Launch(b, currentProfile'[b])
            PROVE  ProfileInv'
        <4>1. /\ launch'[b].step = (IF currentProfile'[b] # 0 THEN "dump" ELSE "spawn")
              /\ \A a \in Browser \ {b} : launch'[a] = launch[a]
          BY <3>3, NewLaunch DEF BrowserState
        <4>2. ProfileOf(b)'
          BY <1>0, <2>1, <3>3, <4>1 DEF ProfileOf
        <4> QED
          BY <2>1, <3>3, <4>1, <4>2, ProfileOthers
      <3> QED
        BY <2>3, <3>1, <3>2, <3>3 DEF Restart
    <2> QED
      BY <1>4, <2>2, <2>3 DEF AfterSequence
  <1>5. CASE Restarted(b)
    <2>1. UNCHANGED <<gen, statusQueue, profiles, currentProfile, closing>>
      BY <1>5 DEF Restarted, queueVars, profileVars
    <2>2. launch'[b].step = "none" /\ \A a \in Browser \ {b} : launch'[a] = launch[a]
      BY <1>5, LaunchAtType DEF Restarted, BrowserState
    <2>3. ProfileOf(b)'
      BY <1>0, <2>1, <2>2 DEF ProfileOf
    <2> QED
      BY <2>1, <2>2, <2>3, ProfileOthers
  <1> QED
    BY <1>1, <1>2, <1>3, <1>4, <1>5 DEF ThreadStep

LEMMA ProfileStep ==
  ASSUME BrowserState, BrowserState', ManagerState, Control, ProfileInv, [Next]_vars
  PROVE  ProfileInv'
  <1>1. ASSUME NEW b \in Browser, BrowserStep(b)
        PROVE  ProfileInv'
    <2>1. UNCHANGED closing
      BY <1>1 DEF BrowserStep, managerVars
    <2> QED
      BY <1>1, <2>1, ProfileChild, ProfileLaunch DEF BrowserStep
  <1>2. ASSUME NEW b \in Browser, ThreadStep(b)
        PROVE  ProfileInv'
    BY <1>2, ProfileThread
  <1>3. ASSUME NEW b \in Browser, LaunchNext(b)
        PROVE  ProfileInv'
    <2>1. UNCHANGED <<gen, statusQueue, profiles, currentProfile, closing>>
      BY <1>3 DEF LaunchNext, queueVars, profileVars, managerVars
    <2>2. /\ launch'[b].step = (IF currentProfile[b] # 0 THEN "dump" ELSE "spawn")
          /\ \A a \in Browser \ {b} : launch'[a] = launch[a]
      BY <1>3, NewLaunch DEF LaunchNext, BrowserState
    <2>3. ProfileOf(b)
      BY ProfileEach
    <2>4. ProfileOf(b)'
      BY <2>1, <2>2, <2>3 DEF ProfileOf
    <2> QED
      BY <2>1, <2>2, <2>4, ProfileOthers
  <1>4. ASSUME NEW b \in Browser, Launched(b)
        PROVE  ProfileInv'
    <2>1. UNCHANGED <<gen, statusQueue, profiles, currentProfile>>
      BY <1>4 DEF Launched, queueVars, profileVars
    <2>2. launch'[b].step = "none" /\ \A a \in Browser \ {b} : launch'[a] = launch[a]
      BY <1>4, LaunchedEffect
    <2>3. closing => closing'
      BY <1>4, LaunchedEffect
    <2>4. ASSUME NEW a \in Browser
          PROVE  ProfileOf(a)'
      <3>1. ProfileOf(a) /\ (Announced(a)' => Announced(a))
        BY <2>1, ProfileEach DEF Announced
      <3>2. CASE a = b
        BY <2>1, <2>2, <2>3, <3>1, <3>2 DEF ProfileOf
      <3>3. CASE a # b
        BY <2>1, <2>2, <2>3, <3>1, <3>3, ProfileSame
      <3> QED
        BY <3>2, <3>3
    <2> QED
      BY <2>4 DEF ProfileInv, ProfileKept, ProfileOf
  <1>5. CASE ShutdownStep
    BY <1>5, ShutdownEffect, ProfileStill DEF Control, queueVars
  <1>6. CASE \/ Close \/ Unblocked
             \/ \E s \in CommandSequence, t \in Target, b \in Browser : Execute(s, t, b)
             \/ \E b \in Browser : LookElsewhere(b) \/ CheckFails(b)
    BY <1>6, CallEffect, ProfileStill DEF Control, browserVars, queueVars, profileVars
  <1>7. CASE Distributed \/ \E b \in Browser : StartThread(b)
    BY <1>7, DistributedEffect, StartThreadEffect, ProfileStill
    DEF browserVars, queueVars, profileVars
  <1>8. CASE (\E b \in Browser : MemoryAlarm(b)) \/ KillStrays \/ UNCHANGED vars
    <2>1. UNCHANGED <<gen, currentProfile, launch, profiles, statusQueue, closing>>
      BY <1>8
      DEF MemoryAlarm, KillStrays, vars, managerVars, browserVars, queueVars, profileVars
    <2> QED
      BY <2>1, ProfileStill
  <1> QED
    BY <1>1, <1>2, <1>3, <1>4, <1>5, <1>6, <1>7, <1>8 DEF Next, MainStep, DistributeStep

(* The profile that a browser would recover from is on disk, until the     *)
(* shutdown (BrowserManager.py, launch_browser_manager).                   *)
THEOREM ProfileOnDisk == Spec => []ProfileKept
  <1> DEFINE Inv == BrowserState /\ ManagerState /\ Control /\ ProfileInv
  <1>1. Init => Inv
    BY StateInit, ControlInit, ProfileInit
  <1>2. Inv /\ [Next]_vars => Inv'
    <2> SUFFICES ASSUME Inv, [Next]_vars
                 PROVE  Inv'
      OBVIOUS
    <2>1. BrowserState' /\ ManagerState' /\ Control'
      BY StateStep, ControlStep
    <2> QED
      BY <2>1, ProfileStep
  <1>3. Inv => ProfileKept
    BY DEF ProfileInv
  <1> QED
    BY <1>1, <1>2, <1>3, PTL DEF Spec

-----------------------------------------------------------------------------
(* Commands and answers.                                                   *)

(* A step that does nothing to browser a but what its queues do not mind.  *)
Frame(a) ==
  /\ manager'[a] = manager[a] /\ commandQueue'[a] = commandQueue[a]
  /\ statusQueue'[a] = statusQueue[a] /\ launch'[a] = launch[a]
  /\ thread'[a] = thread[a] /\ currVisit'[a] = currVisit[a]
  /\ restartRequired[a] => restartRequired'[a]
  /\ closing => closing'
  /\ failureStatus # "none" => failureStatus' # "none"
  /\ escaped \subseteq escaped'
  /\ main.pc = "launch" <=> main'.pc = "launch"
  /\ main'.pc = "launch" => main'.b = main.b

LEMMA QueueFrame ==
  ASSUME NEW a \in Browser, QueueOf(a), Frame(a)
  PROVE  QueueOf(a)'
  <1> USE DEF Frame
  <1>1. NoAnswer(a) => NoAnswer(a)'
    BY DEF NoAnswer
  <1>2. Waiting(a) => Waiting(a)'
    BY <1>1 DEF Waiting
  <1>3. Sent(a)' = Sent(a) /\ Done(a)' = Done(a)
    BY DEF Sent, Done
  <1>4. Asked(a) => Asked(a)'
    BY <1>1, <1>3 DEF Asked
  <1>5. Spawning(a) => Spawning(a)'
    BY <1>1 DEF Spawning
  <1>6. Launching(a)'
    BY <1>1, <1>2, <1>5 DEF QueueOf, Launching
  <1>7. Usable(a)'
    BY <1>2, <1>4 DEF QueueOf, Usable
  <1> QED
    BY <1>6, <1>7 DEF QueueOf

LEMMA QueueOthers ==
  ASSUME QueueInv, NEW b \in Browser, \A a \in Browser \ {b} : Frame(a), QueueOf(b)'
  PROVE  QueueInv'
  <1>1. ASSUME NEW a \in Browser
        PROVE  QueueOf(a)'
    BY QueueFrame DEF QueueInv
  <1> QED
    BY <1>1 DEF QueueInv

(* While a browser is launched, nobody uses it.                            *)
LEMMA LaunchExcludes ==
  ASSUME Control, NEW b \in Browser, launch[b].step # "none"
  PROVE  Usable(b)
  BY DEF Control, Usable, Browser

LEMMA StillLaunching ==
  ASSUME Control', NEW b \in Browser, launch'[b].step # "none"
  PROVE  Usable(b)'
  BY DEF Control, Usable, Browser

LEMMA UserExcludes ==
  ASSUME Control, NEW b \in Browser, thread[b].pc \notin {"dead", "launch"}
  PROVE  launch[b].step = "none" /\ main.pc # "launch"
  BY DEF Control

(* A child that waits for a command does nothing before it has one.        *)
LEMMA WaitingChild ==
  ASSUME NEW b \in Browser, ChildStep(b)
  PROVE  ~Waiting(b) /\ manager[b].pc # "dead"
  BY DEF ChildStep, CreateProfile, StartDisplay, StartFirefox, FirefoxLaunched, Ready,
         TakeCommand, CommandDone, ChildFails, ChildCritical, Waiting

(* What a child does: it tells how far it got, takes a command, answers,   *)
(* or dies of one.                                                         *)
Tells(b) ==
  /\ manager[b].pc \in {"boot", "profile", "display", "firefox", "launched"}
  /\ manager'[b].pc # "busy" /\ commandQueue'[b] = commandQueue[b]
  /\ \/ statusQueue'[b] = statusQueue[b]
     \/ \E k \in PlainKind :
          /\ statusQueue'[b] = Append(statusQueue[b], [kind |-> k])
          /\ k = "BrowserReady" => manager'[b].pc = "loop"
          /\ k = "CRITICAL" => manager'[b].pc = "dead"

Takes(b) ==
  /\ manager[b].pc = "loop" /\ commandQueue[b] # <<>>
  /\ manager'[b] = [pc |-> "busy", command |-> Head(commandQueue[b])]
  /\ commandQueue'[b] = Tail(commandQueue[b]) /\ statusQueue'[b] = statusQueue[b]

Answers(b) ==
  /\ manager[b].pc = "busy" /\ manager'[b].pc = "loop"
  /\ commandQueue'[b] = commandQueue[b]
  /\ statusQueue'[b] = Append(statusQueue[b],
                              [kind |-> "OK", command |-> manager[b].command])

Dies(b) ==
  /\ manager[b].pc = "busy" /\ manager'[b].pc = "dead"
  /\ commandQueue'[b] = commandQueue[b]
  /\ \E k \in {"FAILED", "CRITICAL"} :
       statusQueue'[b] = Append(statusQueue[b], [kind |-> k])

LEMMA Told ==
  ASSUME BrowserState, NEW b \in Browser, NEW k \in PlainKind, NEW l \in BootPC,
         manager[b].pc \in {"boot", "profile", "display", "firefox", "launched"},
         Put(b, [kind |-> k]), ManagerAt(b, l), UNCHANGED commandQueue,
         k = "BrowserReady" => l = "loop", k = "CRITICAL" => l = "dead"
  PROVE  Tells(b)
  <1>1. statusQueue'[b] = Append(statusQueue[b], [kind |-> k]) /\ manager'[b].pc = l
    BY DEF Put, ManagerAt, BrowserState
  <1> QED
    BY <1>1 DEF Tells, BootPC

LEMMA ChildMove ==
  ASSUME BrowserState, NEW b \in Browser, ChildStep(b)
  PROVE  Tells(b) \/ Takes(b) \/ Answers(b) \/ Dies(b)
  <1>a. /\ {"dead", "profile", "display", "launched", "loop"} \subseteq BootPC
        /\ \A k \in {"ProfileCreated", "Display", "BrowserLaunched", "BrowserReady",
                     "FAILED", "CRITICAL"} : k \in PlainKind
    BY DEF BootPC, PlainKind
  <1>1. CASE CreateProfile(b)
    BY <1>1, <1>a, Told DEF CreateProfile
  <1>2. CASE StartDisplay(b)
    BY <1>2, <1>a, Told DEF StartDisplay
  <1>3. CASE StartFirefox(b)
    BY <1>3 DEF StartFirefox, Tells, ManagerAt, queueVars, BrowserState
  <1>4. CASE FirefoxLaunched(b)
    BY <1>4, <1>a, Told DEF FirefoxLaunched
  <1>5. CASE Ready(b)
    BY <1>5, <1>a, Told DEF Ready
  <1>6. CASE TakeCommand(b)
    BY <1>6 DEF TakeCommand, Takes, BrowserState
  <1>7. CASE CommandDone(b)
    BY <1>7 DEF CommandDone, Answers, Put, ManagerAt, BrowserState
  <1>8. CASE ChildFails(b)
    <2>1. CASE manager[b].pc = "busy"
      BY <1>8, <2>1 DEF ChildFails, Dies, Put, ManagerAt, BrowserState
    <2>2. CASE manager[b].pc # "busy"
      <3>1. manager[b].pc \in {"boot", "profile", "display", "firefox", "launched"}
        BY <1>8, <2>2 DEF ChildFails, BrowserState, Manager
      <3> QED
        BY <1>8, <1>a, <3>1, Told DEF ChildFails
    <2> QED
      BY <2>1, <2>2
  <1>9. CASE ChildCritical(b)
    <2>1. CASE manager[b].pc = "busy"
      BY <1>9, <2>1 DEF ChildCritical, Dies, Put, ManagerAt, BrowserState
    <2>2. CASE manager[b].pc # "busy"
      <3>1. manager[b].pc \in {"boot", "profile", "display", "firefox", "launched"}
        BY <1>9, <2>2 DEF ChildCritical
      <3> QED
        BY <1>9, <1>a, <3>1, Told DEF ChildCritical
    <2> QED
      BY <2>1, <2>2
  <1> QED
    BY <1>1, <1>2, <1>3, <1>4, <1>5, <1>6, <1>7, <1>8, <1>9 DEF ChildStep

LEMMA SpawningChild ==
  ASSUME BrowserState, NEW b \in Browser, Spawning(b), ChildStep(b), UNCHANGED closing
  PROVE  Spawning(b)'
  <1>1. /\ Tells(b) /\ NoAnswer(b) /\ commandQueue[b] = <<>>
        /\ statusQueue[b] \in Seq(Status)
    BY ChildMove DEF Spawning, Takes, Answers, Dies, BrowserState
  <1>2. commandQueue'[b] = <<>> /\ manager'[b].pc # "busy"
    BY <1>1 DEF Tells
  <1>3. \A i \in DOMAIN statusQueue[b] : statusQueue[b][i].kind \notin {"OK", "BrowserReady", "CRITICAL"}
    BY <1>1 DEF Spawning, NoAnswer, Tells
  <1>4. CASE statusQueue'[b] = statusQueue[b]
    BY <1>2, <1>3, <1>4 DEF Spawning, NoAnswer
  <1>5. ASSUME NEW k \in PlainKind, statusQueue'[b] = Append(statusQueue[b], [kind |-> k]),
               k = "BrowserReady" => manager'[b].pc = "loop",
               k = "CRITICAL" => manager'[b].pc = "dead"
        PROVE  Spawning(b)'
    <2>1. \A i \in DOMAIN statusQueue'[b] :
            \/ i \in DOMAIN statusQueue[b] /\ statusQueue'[b][i] = statusQueue[b][i]
            \/ i = Len(statusQueue'[b]) /\ statusQueue'[b][i] = [kind |-> k]
      BY <1>1, <1>5, PlainStatus, AppendElements
    <2>2. k # "OK"
      BY DEF PlainKind
    <2>3. \A i \in DOMAIN statusQueue'[b] :
            /\ statusQueue'[b][i].kind # "OK"
            /\ statusQueue'[b][i].kind = "BrowserReady" =>
                 i = Len(statusQueue'[b]) /\ manager'[b].pc = "loop"
            /\ statusQueue'[b][i].kind = "CRITICAL" => manager'[b].pc = "dead"
      BY <1>3, <1>5, <2>1, <2>2
    <2> QED
      BY <1>2, <2>3 DEF Spawning, NoAnswer
  <1> QED
    BY <1>1, <1>4, <1>5 DEF Tells

LEMMA AskedChild ==
  ASSUME BrowserState, NEW b \in Browser, Asked(b), ChildStep(b),
         UNCHANGED <<thread, currVisit>>
  PROVE  Asked(b)'
  <1>1. Sent(b)' = Sent(b) /\ Done(b)' = Done(b)
    BY DEF Sent, Done
  <1>2. CASE Tells(b)
    BY <1>2 DEF Asked, Tells
  <1>3. CASE Takes(b)
    <2>1. commandQueue[b] = <<Sent(b)>> /\ statusQueue[b] = <<>>
      BY <1>3 DEF Asked, Takes
    <2>2. /\ commandQueue'[b] = <<>> /\ statusQueue'[b] = <<>>
          /\ manager'[b] = [pc |-> "busy", command |-> Sent(b)]
      BY <1>3, <2>1 DEF Takes
    <2> QED
      BY <1>1, <2>2 DEF Asked
  <1>4. CASE Answers(b) \/ Dies(b)
    <2>1. /\ manager[b] = [pc |-> "busy", command |-> Sent(b)]
          /\ commandQueue[b] = <<>> /\ statusQueue[b] = <<>>
      BY <1>4 DEF Asked, Answers, Dies
    <2>2. CASE Answers(b)
      <3>1. statusQueue'[b] = <<Done(b)>>
        BY <2>1, <2>2 DEF Answers, Done
      <3> QED
        BY <1>1, <2>1, <2>2, <3>1 DEF Asked, Answers
    <2>3. CASE Dies(b)
      <3>1. PICK k \in {"FAILED", "CRITICAL"} :
              statusQueue'[b] = Append(statusQueue[b], [kind |-> k])
        BY <2>3 DEF Dies
      <3>2. statusQueue'[b] = <<[kind |-> k]>>
        BY <2>1, <3>1
      <3>3. NoAnswer(b)'
        BY <3>2 DEF NoAnswer
      <3> QED
        BY <2>3, <3>3 DEF Asked, Dies
    <2> QED
      BY <1>4, <2>2, <2>3
  <1> QED
    BY <1>2, <1>3, <1>4, ChildMove

LEMMA QueueChild ==
  ASSUME BrowserState, Control, Control', QueueInv, NEW b \in Browser, ChildStep(b),
         UNCHANGED managerVars
  PROVE  QueueInv'
  <1>1. UNCHANGED <<main, thread, closing, failureVars, restartRequired, currVisit, escaped>>
    BY DEF managerVars, visitVars, historyVars
  <1>2. \A a \in Browser \ {b} : Frame(a)
    BY <1>1, ChildStatus, ChildEffect DEF Frame, failureVars
  <1>3. QueueOf(b) /\ ~Waiting(b) /\ manager[b].pc # "dead" /\ launch' = launch
    BY WaitingChild, ChildEffect DEF QueueInv
  <1>4. Launching(b)'
    <2>1. launch[b].step = "status" => Spawning(b)'
      BY <1>1, <1>3, SpawningChild DEF QueueOf, Launching
    <2> QED
      BY <1>1, <1>3, <2>1 DEF QueueOf, Launching
  <1>5. Usable(b)'
    <2>1. CASE launch[b].step # "none"
      BY <1>3, <2>1, StillLaunching
    <2>2. Asked(b) => Asked(b)'
      BY <1>1, AskedChild
    <2>3. CASE launch[b].step = "none"
      BY <1>1, <1>3, <2>2, <2>3 DEF QueueOf, Usable, failureVars
    <2> QED
      BY <2>1, <2>3
  <1> QED
    BY <1>2, <1>4, <1>5, QueueOthers DEF QueueOf

LEMMA LaunchFrame ==
  ASSUME BrowserState, NEW b \in Browser, LaunchStep(b), UNCHANGED managerVars
  PROVE  \A a \in Browser \ {b} : Frame(a)
  <1>1. UNCHANGED <<main, thread, closing, failureStatus, restartRequired, currVisit, escaped>>
    BY DEF managerVars, failureVars, visitVars, historyVars
  <1>2. \A a \in Browser \ {b} : launch'[a] = launch[a]
    BY LaunchStepEffect
  <1>3. \A a \in Browser \ {b} : /\ manager'[a] = manager[a]
                                 /\ commandQueue'[a] = commandQueue[a]
                                 /\ statusQueue'[a] = statusQueue[a]
    <2> USE DEF BrowserState, queueVars
    <2>1. CASE DumpProfile(b) \/ SpawnLimitReached(b)
      BY <2>1 DEF DumpProfile, SpawnLimitReached
    <2>2. CASE Spawn(b)
      BY <2>2 DEF Spawn, ManagerAt
    <2>3. CASE LearnProfile(b) \/ LearnDisplay(b) \/ LearnBrowser(b)
      BY <2>3 DEF LearnProfile, LearnDisplay, LearnBrowser, Received
    <2>4. CASE SpawnSucceeds(b) \/ SpawnRaises(b)
      BY <2>4 DEF SpawnSucceeds, SpawnRaises, Received
    <2>5. CASE SpawnFails(b)
      BY <2>5 DEF SpawnFails, Received, Kill, ManagerAt
    <2> QED
      BY <2>1, <2>2, <2>3, <2>4, <2>5 DEF LaunchStep
  <1> QED
    BY <1>1, <1>2, <1>3 DEF Frame

LEMMA TailStatus ==
  ASSUME BrowserState, NEW b \in Browser, statusQueue[b] # <<>>,
         statusQueue' = [statusQueue EXCEPT ![b] = Tail(@)]
  PROVE  /\ statusQueue'[b] = Tail(statusQueue[b])
         /\ statusQueue'[b] \in Seq(Status) /\ Len(statusQueue'[b]) = Len(statusQueue[b]) - 1
         /\ 1 \in DOMAIN statusQueue[b] /\ Head(statusQueue[b]) = statusQueue[b][1]
         /\ \A i \in DOMAIN statusQueue'[b] :
              i + 1 \in DOMAIN statusQueue[b] /\ statusQueue'[b][i] = statusQueue[b][i + 1]
  <1>1. statusQueue'[b] = Tail(statusQueue[b]) /\ statusQueue[b] \in Seq(Status)
    BY DEF BrowserState
  <1> QED
    BY <1>1, TailElements

LEMMA SpawningReceived ==
  ASSUME BrowserState, NEW b \in Browser, Spawning(b), statusQueue[b] # <<>>,
         statusQueue' = [statusQueue EXCEPT ![b] = Tail(@)],
         UNCHANGED <<manager, commandQueue, closing>>
  PROVE  Spawning(b)'
  <1>1. \A i \in DOMAIN statusQueue'[b] :
          i + 1 \in DOMAIN statusQueue[b] /\ statusQueue'[b][i] = statusQueue[b][i + 1]
    BY TailStatus
  <1>2. /\ Len(statusQueue'[b]) = Len(statusQueue[b]) - 1
        /\ statusQueue'[b] \in Seq(Status) /\ statusQueue[b] \in Seq(Status)
    BY TailStatus DEF BrowserState
  <1> QED
    BY <1>1, <1>2 DEF Spawning, NoAnswer

LEMMA QueueLaunch ==
  ASSUME BrowserState, BrowserState', Control, Control', ProfileInv, QueueInv,
         NEW b \in Browser, LaunchStep(b), UNCHANGED managerVars
  PROVE  QueueInv'
  <1>0. QueueOf(b) /\ launch \in [Browser -> Activation]
    BY DEF QueueInv, BrowserState
  <1>a. UNCHANGED <<closing, escaped>>
    BY DEF managerVars, historyVars
  <1>1. ASSUME launch'[b].step # "none", Launching(b)'
        PROVE  QueueInv'
    BY <1>1, LaunchFrame, StillLaunching, QueueOthers DEF QueueOf
  <1>2. CASE DumpProfile(b)
    <2>1. CASE launch'[b].step = "spawn"
      BY <1>1, <2>1 DEF Launching
    <2>2. CASE launch'[b].step = "raised"
      <3>1. <<b, currentProfile[b]>> \notin profiles
        <4>1. launch' = [launch EXCEPT ![b].step = "spawn"] => launch'[b].step = "spawn"
          <5>1. ASSUME launch' = [launch EXCEPT ![b].step = "spawn"]
                PROVE  launch'[b].step = "spawn"
            <6>1. launch[b].step \in LiveStep
              BY <1>2 DEF DumpProfile, LiveStep
            <6>2. launch' = [launch EXCEPT ![b] =
                    [step |-> "spawn", failures |-> launch[b].failures,
                     spawned |-> launch[b].spawned]]
              BY <1>0, <5>1, <6>1, StepSet
            <6> QED
              BY <1>0, <6>2
          <5> QED
            BY <5>1
        <4> QED
          BY <1>2, <2>2, <4>1 DEF DumpProfile
      <3>2. closing
        BY <1>2, <3>1 DEF ProfileInv, ProfileKept, DumpProfile
      <3> QED
        BY <1>1, <1>a, <2>2, <3>2 DEF Launching
    <2> QED
      BY <1>0, <1>2, <2>1, <2>2, DumpGoesTo
  <1>3. CASE Spawn(b)
    <2>1. launch'[b].step = "status"
      BY <1>3, SpawnGoesTo
    <2>2. commandQueue'[b] = <<>> /\ statusQueue'[b] = <<>> /\ manager'[b].pc = "boot"
      BY <1>3 DEF Spawn, ManagerAt, BrowserState
    <2> QED
      BY <1>1, <2>1, <2>2 DEF Launching, Spawning, NoAnswer
  <1>4. CASE SpawnLimitReached(b)
    <2>1. launch'[b].step = "failed"
      BY <1>0, <1>4, EndGoesTo
    <2> QED
      BY <1>1, <2>1 DEF Launching
  <1>5. CASE LearnProfile(b) \/ LearnDisplay(b) \/ LearnBrowser(b)
    <2>1. /\ launch[b].step = "status" /\ statusQueue[b] # <<>>
          /\ statusQueue' = [statusQueue EXCEPT ![b] = Tail(@)]
          /\ UNCHANGED <<manager, commandQueue>>
      BY <1>5 DEF LearnProfile, LearnDisplay, LearnBrowser, Received
    <2>2. Spawning(b)'
      BY <1>0, <1>a, <2>1, SpawningReceived DEF QueueOf, Launching
    <2>3. launch'[b].step = "status"
      <3>1. CASE LearnProfile(b)
        BY <1>0, <3>1, LearnGoesTo
      <3>2. CASE LearnDisplay(b) \/ LearnBrowser(b)
        BY <2>1, <3>2 DEF LearnDisplay, LearnBrowser
      <3> QED
        BY <1>5, <3>1, <3>2
    <2> QED
      BY <1>1, <2>2, <2>3 DEF Launching
  <1>6. CASE SpawnSucceeds(b) \/ SpawnRaises(b)
    <2>1. /\ launch[b].step = "status" /\ statusQueue[b] # <<>>
          /\ statusQueue' = [statusQueue EXCEPT ![b] = Tail(@)]
          /\ UNCHANGED <<manager, commandQueue>>
      BY <1>6 DEF SpawnSucceeds, SpawnRaises, Received
    <2>2. Spawning(b) /\ Spawning(b)'
      BY <1>0, <1>a, <2>1, SpawningReceived DEF QueueOf, Launching
    <2>3. 1 \in DOMAIN statusQueue[b] /\ Head(statusQueue[b]) = statusQueue[b][1]
      BY <2>1, TailStatus
    <2>4. CASE SpawnSucceeds(b)
      <3>1. launch'[b].step = "ok"
        BY <1>0, <2>4, EndGoesTo
      <3>2. statusQueue[b][1].kind = "BrowserReady"
        BY <2>3, <2>4 DEF SpawnSucceeds, Received
      <3>3. /\ 1 = Len(statusQueue[b])
            /\ manager[b].pc = "loop" \/ (manager[b].pc = "dead" /\ closing)
        BY <2>2, <2>3, <3>2 DEF Spawning
      <3>4. statusQueue'[b] = <<>>
        <4>1. /\ statusQueue'[b] \in Seq(Status)
              /\ Len(statusQueue'[b]) = Len(statusQueue[b]) - 1
          BY <2>1, TailStatus
        <4>2. Len(statusQueue'[b]) = 0
          BY <3>3, <4>1
        <4> QED
          BY <4>1, <4>2, EmptySeq
      <3>5. Waiting(b)'
        BY <1>a, <2>1, <2>2, <3>3, <3>4 DEF Waiting, Spawning
      <3> QED
        BY <1>1, <3>1, <3>5 DEF Launching
    <2>5. CASE SpawnRaises(b)
      <3>1. launch'[b].step = "raised"
        BY <1>0, <2>5, EndGoesTo
      <3>2. statusQueue[b][1].kind = "CRITICAL"
        BY <2>3, <2>5 DEF SpawnRaises, Received
      <3>3. manager'[b].pc = "dead" /\ NoAnswer(b)'
        BY <2>1, <2>2, <2>3, <3>2 DEF Spawning
      <3> QED
        BY <1>1, <3>1, <3>3 DEF Launching
    <2> QED
      BY <1>6, <2>4, <2>5
  <1>7. CASE SpawnFails(b)
    <2>1. launch'[b].step = "spawn"
      BY <1>7, FailGoesTo
    <2> QED
      BY <1>1, <2>1 DEF Launching
  <1> QED
    BY <1>2, <1>3, <1>4, <1>5, <1>6, <1>7 DEF LaunchStep

LEMMA QueueStill ==
  ASSUME QueueInv, \A a \in Browser : Frame(a)
  PROVE  QueueInv'
  BY QueueFrame DEF QueueInv

LEMMA QueueKilled ==
  ASSUME NEW b \in Browser, QueueOf(b), closing, closing', manager'[b].pc = "dead",
         UNCHANGED <<queueVars, launch, thread, currVisit>>,
         main.pc # "launch", main'.pc # "launch"
  PROVE  QueueOf(b)'
  <1> USE DEF queueVars
  <1>1. NoAnswer(b)' = NoAnswer(b) /\ Sent(b)' = Sent(b) /\ Done(b)' = Done(b)
    BY DEF NoAnswer, Sent, Done
  <1>2. Waiting(b) => Waiting(b)'
    BY <1>1 DEF Waiting
  <1>3. Asked(b) => Asked(b)'
    <2>1. statusQueue[b] = <<>> => NoAnswer(b)
      BY DEF NoAnswer
    <2> QED
      BY <1>1, <2>1 DEF Asked
  <1>4. Spawning(b) => Spawning(b)'
    BY <1>1 DEF Spawning
  <1>5. Launching(b)'
    BY <1>1, <1>2, <1>4 DEF QueueOf, Launching
  <1>6. Usable(b)'
    BY <1>2, <1>3 DEF QueueOf, Usable
  <1> QED
    BY <1>5, <1>6 DEF QueueOf

LEMMA QueueShutdown ==
  ASSUME BrowserState, ManagerState, Control, QueueInv, ShutdownStep
  PROVE  QueueInv'
  <1>1. /\ closing /\ closing' /\ main.pc # "launch" /\ main'.pc # "launch"
        /\ UNCHANGED <<queueVars, launch, thread, currVisit, restartRequired, failureStatus,
                       escaped>>
    BY ShutdownEffect DEF Control, ShutPC, failureVars, visitVars
  <1>2. ASSUME NEW a \in Browser
        PROVE  QueueOf(a)'
    <2>1. CASE manager'[a] = manager[a]
      <3>1. Frame(a)
        BY <1>1, <2>1 DEF Frame, queueVars
      <3> QED
        BY <3>1, QueueFrame DEF QueueInv
    <2>2. CASE manager'[a].pc = "dead"
      BY <1>1, <2>2, QueueKilled DEF QueueInv
    <2> QED
      BY <2>1, <2>2, ShutdownEffect
  <1> QED
    BY <1>2 DEF QueueInv

LEMMA QueueLaunched ==
  ASSUME BrowserState, ManagerState, Control, QueueInv, NEW b \in Browser, Launched(b)
  PROVE  QueueInv'
  <1>1. UNCHANGED <<manager, queueVars, thread, currVisit, escaped>>
    BY DEF Launched, visitVars, historyVars
  <1>2. /\ launch'[b].step = "none" /\ main.pc = "launch" /\ main.b = b
        /\ \A a \in Browser \ {b} : launch'[a] = launch[a]
        /\ closing => closing'
    BY LaunchedEffect
  <1>3. ASSUME NEW a \in Browser
        PROVE  QueueOf(a)'
    <2>1. NoAnswer(a)' = NoAnswer(a)
      BY <1>1 DEF NoAnswer, queueVars
    <2>2. Waiting(a) => Waiting(a)'
      BY <1>1, <1>2, <2>1 DEF Waiting, queueVars
    <2>3. launch'[a].step = "none" /\ thread'[a].pc = "dead"
      BY <1>1, <1>2 DEF Control
    <2>4. Launching(a)'
      BY <2>3 DEF Launching
    <2>5. CASE closing' = TRUE /\ main'.pc \in ShutPC
      BY <2>3, <2>4, <2>5 DEF QueueOf, Usable, ShutPC
    <2>6. CASE launch[b].step = "ok" /\ main'.pc = "idle" /\ b = NumBrowsers
      <3>1. a < b \/ a = b
        BY <2>6, BrowserAssumption DEF Browser
      <3>2. Waiting(a)
        BY <1>2, <2>6, <3>1 DEF QueueInv, QueueOf, Launching, Usable
      <3> QED
        BY <2>2, <2>3, <2>4, <2>6, <3>2 DEF QueueOf, Usable
    <2>7. CASE launch[b].step = "ok" /\ main'.pc = "launch" /\ main'.b = b + 1
      <3>1. a < main'.b => a < b \/ a = b
        BY <2>7, BrowserAssumption DEF Browser
      <3>2. a < main'.b => Waiting(a)
        BY <1>2, <2>7, <3>1 DEF QueueInv, QueueOf, Launching, Usable
      <3> QED
        BY <2>2, <2>3, <2>4, <2>7, <3>2 DEF QueueOf, Usable
    <2> QED
      BY <2>4, <2>5, <2>6, <2>7, LaunchedEffect DEF QueueOf
  <1> QED
    BY <1>3 DEF QueueInv

LEMMA QueueCalls ==
  ASSUME BrowserState, ManagerState, Control, QueueInv,
         \/ Close \/ Unblocked
         \/ \E s \in CommandSequence, t \in Target, b \in Browser : Execute(s, t, b)
         \/ \E b \in Browser : LookElsewhere(b) \/ CheckFails(b)
  PROVE  QueueInv'
  <1>0. /\ main.pc \in Calling
        /\ \/ main'.pc \in Calling /\ UNCHANGED closing
           \/ main'.pc \in ShutPC /\ closing' = TRUE
        /\ UNCHANGED <<browserVars, thread, failureVars, restartRequired, currVisit,
                       siteVisits, escaped, exceeded>>
    BY CallEffect
  <1>1. /\ main.pc # "launch" /\ main'.pc # "launch"
        /\ closing => closing'
        /\ UNCHANGED <<browserVars, thread, failureVars, restartRequired, currVisit, escaped>>
    BY <1>0 DEF Calling, ShutPC
  <1>2. \A a \in Browser : Frame(a)
    BY <1>1 DEF Frame, browserVars, queueVars, failureVars
  <1> QED
    BY <1>2, QueueStill

LEMMA QueueDistributed ==
  ASSUME BrowserState, ManagerState, QueueInv, Distributed
  PROVE  QueueInv'
  <1>1. /\ main.pc # "launch" /\ main'.pc # "launch"
        /\ UNCHANGED <<browserVars, closing, failureVars, restartRequired, currVisit, escaped>>
    BY DistributedEffect DEF visitVars
  <1>2. ASSUME NEW a \in Browser
        PROVE  QueueOf(a)'
    <2>1. CASE thread'[a] = thread[a]
      <3>1. Frame(a)
        BY <1>1, <2>1 DEF Frame, browserVars, queueVars, failureVars
      <3> QED
        BY <3>1, QueueFrame DEF QueueInv
    <2>2. CASE thread[a].pc = "wait" /\ thread'[a].pc = "next"
      <3>1. QueueOf(a)
        BY DEF QueueInv
      <3>2. /\ NoAnswer(a)' = NoAnswer(a) /\ Waiting(a)' = Waiting(a)
            /\ Spawning(a)' = Spawning(a)
        BY <1>1 DEF NoAnswer, Waiting, Spawning, browserVars, queueVars
      <3>3. Launching(a)'
        BY <1>1, <3>1, <3>2 DEF QueueOf, Launching, browserVars
      <3>4. Waiting(a)'
        BY <2>2, <3>1, <3>2 DEF QueueOf, Usable
      <3>5. Usable(a)'
        BY <1>1, <2>2, <3>4 DEF Usable
      <3> QED
        BY <3>3, <3>5 DEF QueueOf
    <2> QED
      BY <2>1, <2>2, DistributedEffect
  <1> QED
    BY <1>2 DEF QueueInv

LEMMA QueueStart ==
  ASSUME BrowserState, ManagerState, Control, QueueInv, NEW b \in Browser, StartThread(b)
  PROVE  QueueInv'
  <1>1. /\ main.pc = "distribute" /\ main'.pc = "distribute" /\ failureStatus = "none"
        /\ thread[b].pc = "dead" /\ thread'[b].pc = "start"
        /\ \A a \in Browser \ {b} : thread'[a] = thread[a]
        /\ UNCHANGED <<browserVars, closing, failureVars, restartRequired, escaped>>
    BY StartThreadEffect
  <1>2. \A a \in Browser \ {b} : currVisit'[a] = currVisit[a]
    BY StartThreadEffect DEF ManagerState
  <1>3. \A a \in Browser \ {b} : Frame(a)
    BY <1>1, <1>2 DEF Frame, browserVars, queueVars, failureVars
  <1>4. QueueOf(b) /\ ~closing
    BY <1>1 DEF QueueInv, Control, ShutPC
  <1>5. /\ NoAnswer(b)' = NoAnswer(b) /\ Waiting(b)' = Waiting(b)
        /\ Spawning(b)' = Spawning(b)
    BY <1>1 DEF NoAnswer, Waiting, Spawning, browserVars, queueVars
  <1>6. Launching(b)'
    BY <1>1, <1>4, <1>5 DEF QueueOf, Launching, browserVars
  <1>7. Waiting(b)'
    BY <1>1, <1>4, <1>5 DEF QueueOf, Usable
  <1>8. Usable(b)'
    BY <1>1, <1>7 DEF Usable
  <1> QED
    BY <1>3, <1>6, <1>8, QueueOthers DEF QueueOf

LEMMA ThreadFrame ==
  ASSUME BrowserState, ManagerState, NEW b \in Browser, ThreadStep(b)
  PROVE  \A a \in Browser \ {b} : Frame(a)
  <1>1. /\ UNCHANGED <<main, closing, currVisit>>
        /\ \A a \in Browser \ {b} : thread'[a] = thread[a] /\ launch'[a] = launch[a]
    BY ThreadEffect DEF visitVars
  <1> USE DEF BrowserState, ManagerState
  <1>2. CASE StartSequence(b) \/ SendCommand(b) \/ SequenceDone(b) \/ CommandSucceeded(b)
    <2>1. \A a \in Browser \ {b} : /\ manager'[a] = manager[a]
                                   /\ commandQueue'[a] = commandQueue[a]
                                   /\ statusQueue'[a] = statusQueue[a]
      BY <1>2 DEF StartSequence, SendCommand, SequenceDone, CommandSucceeded, Answer,
                  browserVars, queueVars
    <2>2. UNCHANGED <<failureStatus, restartRequired, escaped>>
      BY <1>2 DEF StartSequence, SendCommand, SequenceDone, CommandSucceeded,
                  failureVars, historyVars
    <2> QED
      BY <1>1, <2>1, <2>2 DEF Frame
  <1>3. CASE CommandCritical(b) \/ CommandFailed(b)
    <2>1. \A a \in Browser \ {b} : /\ manager'[a] = manager[a]
                                   /\ commandQueue'[a] = commandQueue[a]
                                   /\ statusQueue'[a] = statusQueue[a]
      BY <1>3 DEF CommandCritical, CommandFailed, NoSuccess, AnsweredFailed, Answer
    <2>2. /\ UNCHANGED <<restartRequired, escaped>>
          /\ failureStatus # "none" => failureStatus' # "none"
      BY <1>3 DEF CommandCritical, CommandFailed, historyVars
    <2> QED
      BY <1>1, <2>1, <2>2 DEF Frame
  <1>4. CASE CheckLimit(b)
    <2>1. /\ UNCHANGED <<manager, queueVars, escaped>>
          /\ \A a \in Browser : restartRequired[a] => restartRequired'[a]
          /\ failureStatus # "none" => failureStatus' # "none"
      BY <1>4 DEF CheckLimit, GiveUp, AskRestart, browserVars, historyVars
    <2> QED
      BY <1>1, <2>1 DEF Frame, queueVars
  <1>5. CASE AfterSequence(b)
    <2>1. /\ UNCHANGED <<queueVars, restartRequired, failureStatus, escaped>>
          /\ \A a \in Browser \ {b} : manager'[a] = manager[a]
      BY <1>5 DEF AfterSequence, Restart, Kill, ManagerAt, failureVars, historyVars
    <2> QED
      BY <1>1, <2>1 DEF Frame, queueVars
  <1>6. CASE Restarted(b)
    <2>1. /\ UNCHANGED <<manager, queueVars>> /\ escaped \subseteq escaped'
          /\ \A a \in Browser \ {b} : restartRequired'[a] = restartRequired[a]
          /\ failureStatus # "none" => failureStatus' # "none"
      BY <1>6 DEF Restarted
    <2> QED
      BY <1>1, <2>1 DEF Frame, queueVars
  <1> QED
    BY <1>2, <1>3, <1>4, <1>5, <1>6 DEF ThreadStep

LEMMA QueueThread ==
  ASSUME BrowserState, ManagerState, Control, Control', QueueInv, NEW b \in Browser,
         ThreadStep(b)
  PROVE  QueueInv'
  <1> USE DEF LivePC
  <1>0. /\ thread \in [Browser -> Thread] /\ launch \in [Browser -> Activation]
        /\ QueueOf(b)
    BY DEF ManagerState, BrowserState, QueueInv
  <1>a. UNCHANGED <<main, closing, currVisit>>
    BY ThreadEffect DEF visitVars
  <1>b. ASSUME Launching(b)', Usable(b)'
        PROVE  QueueInv'
    BY <1>b, ThreadFrame, QueueOthers DEF QueueOf
  <1>c. ASSUME UNCHANGED launch, thread[b].pc \notin {"dead", "launch"}, Usable(b)'
        PROVE  QueueInv'
    <2>1. launch[b].step = "none"
      BY <1>c, UserExcludes
    <2>2. Launching(b)'
      BY <1>c, <2>1 DEF Launching
    <2> QED
      BY <1>b, <1>c, <2>2
  <1>d. ASSUME UNCHANGED <<manager, queueVars>>, escaped \subseteq escaped'
        PROVE  /\ Waiting(b) => Waiting(b)'
               /\ NoAnswer(b)' = NoAnswer(b)
    BY <1>a, <1>d DEF Waiting, NoAnswer, queueVars
  <1>1. CASE StartSequence(b)
    <2>1. /\ thread[b].pc = "start" /\ thread'[b].pc \in {"wait", "next"}
          /\ UNCHANGED <<manager, queueVars, launch, escaped>>
      BY <1>0, <1>1, ThreadAtType DEF StartSequence, historyVars
    <2>2. Waiting(b)'
      BY <1>0, <1>d, <2>1 DEF QueueOf, Usable
    <2>3. main.pc # "launch"
      BY <2>1, UserExcludes
    <2>4. Usable(b)'
      BY <1>a, <2>1, <2>2, <2>3 DEF Usable
    <2> QED
      BY <1>c, <2>1, <2>4
  <1>2. CASE SendCommand(b)
    <2>1. /\ thread[b].pc = "next" /\ thread'[b].pc = "await" /\ thread'[b].n = thread[b].n
          /\ UNCHANGED <<manager, statusQueue, launch>>
      BY <1>0, <1>2, ThreadAtType DEF SendCommand
    <2>2. commandQueue'[b] = Append(commandQueue[b], Sent(b)) /\ Sent(b)' = Sent(b)
      BY <1>2, <1>a, <2>1 DEF SendCommand, Sent, BrowserState
    <2>3. Waiting(b) /\ NoAnswer(b)' = NoAnswer(b)
      BY <1>0, <2>1 DEF QueueOf, Usable, NoAnswer
    <2>4. Asked(b)'
      <3>1. CASE manager[b].pc = "dead"
        BY <2>1, <2>3, <3>1 DEF Asked, Waiting
      <3>2. CASE manager[b].pc = "loop" /\ commandQueue[b] = <<>> /\ statusQueue[b] = <<>>
        <4>1. commandQueue'[b] = <<Sent(b)>>
          BY <2>2, <3>2
        <4> QED
          BY <2>1, <2>2, <3>2, <4>1 DEF Asked
      <3> QED
        BY <2>3, <3>1, <3>2 DEF Waiting
    <2>5. main.pc # "launch"
      BY <2>1, UserExcludes
    <2>6. Usable(b)'
      BY <1>a, <2>1, <2>4, <2>5 DEF Usable
    <2> QED
      BY <1>c, <2>1, <2>6
  <1>3. CASE SequenceDone(b)
    <2>1. /\ thread[b].pc = "next" /\ thread'[b].pc = "drain"
          /\ UNCHANGED <<manager, queueVars, launch, escaped>>
      BY <1>0, <1>3, ThreadAtType DEF SequenceDone, browserVars, historyVars
    <2>2. Waiting(b)'
      BY <1>0, <1>d, <2>1 DEF QueueOf, Usable
    <2>3. main.pc # "launch"
      BY <2>1, UserExcludes
    <2>4. Usable(b)'
      BY <1>a, <2>1, <2>2, <2>3 DEF Usable
    <2> QED
      BY <1>c, <2>1, <2>4
  <1>4. CASE CommandSucceeded(b)
    <2>1. PICK l \in LivePC : /\ l = (IF restartRequired[b] THEN "drain" ELSE "next")
                              /\ l \in {"drain", "next"}
      OBVIOUS
    <2>2. thread' = [thread EXCEPT ![b].pc = l, ![b].n = @ + 1] /\ thread[b].pc = "await"
      BY <1>4, <2>1 DEF CommandSucceeded, Answer
    <2>3. thread'[b].pc \in {"drain", "next"}
      <3>1. thread'[b].pc = l
        BY <1>0, <2>2, ThreadNextType, Zenon
      <3> QED
        BY <2>1, <3>1
    <2>4. /\ statusQueue[b] # <<>> /\ Head(statusQueue[b]).kind = "OK"
          /\ statusQueue' = [statusQueue EXCEPT ![b] = Tail(@)]
          /\ UNCHANGED <<manager, commandQueue, launch, escaped>>
      BY <1>4 DEF CommandSucceeded, Answer
    <2>5. Asked(b) /\ ~NoAnswer(b)
      <3>1. 1 \in DOMAIN statusQueue[b] /\ statusQueue[b][1].kind = "OK"
        BY <2>4, TailStatus
      <3> QED
        BY <1>0, <2>2, <3>1 DEF QueueOf, Usable, NoAnswer
    <2>6. statusQueue[b] = <<Done(b)>> /\ statusQueue'[b] = <<>>
      <3>1. statusQueue[b] = <<Done(b)>>
        BY <2>4, <2>5 DEF Asked
      <3>2. statusQueue'[b] = Tail(statusQueue[b])
        BY <2>4, TailStatus
      <3> QED
        BY <3>1, <3>2
    <2>7. Waiting(b)'
      BY <1>a, <2>4, <2>5, <2>6 DEF Asked, Waiting, NoAnswer
    <2>8. main.pc # "launch"
      BY <2>2, UserExcludes
    <2>9. Usable(b)'
      BY <1>a, <2>3, <2>7, <2>8 DEF Usable
    <2> QED
      BY <1>c, <2>2, <2>4, <2>9
  <1>5. CASE CommandCritical(b)
    <2>1. /\ thread[b].pc = "await" /\ thread'[b].pc = "dead" /\ UNCHANGED launch
          /\ failureStatus' # "none"
      BY <1>0, <1>5, ThreadEndsType DEF CommandCritical, Answer
    <2>2. main.pc # "launch"
      BY <2>1, UserExcludes
    <2>3. Usable(b)'
      BY <1>a, <2>1, <2>2 DEF Usable
    <2> QED
      BY <1>c, <2>1, <2>3
  <1>6. CASE CommandFailed(b)
    <2>1. thread[b].pc = "await"
      BY <1>6 DEF CommandFailed, NoSuccess, AnsweredFailed, Answer
    <2>2. thread'[b].pc = "limit" /\ UNCHANGED launch
      BY <1>0, <1>6, <2>1, ThreadAtType DEF CommandFailed
    <2>3. main.pc # "launch"
      BY <2>1, UserExcludes
    <2>4. Usable(b)'
      BY <1>a, <2>2, <2>3 DEF Usable
    <2> QED
      BY <1>c, <2>1, <2>2, <2>4
  <1>7. CASE CheckLimit(b)
    <2>1. thread[b].pc = "limit" /\ UNCHANGED launch
      BY <1>7 DEF CheckLimit, browserVars
    <2>2. main.pc # "launch"
      BY <2>1, UserExcludes
    <2>3. CASE GiveUp(b)
      <3>1. thread'[b].pc = "dead" /\ failureStatus' # "none"
        BY <1>0, <2>3, ThreadEndsType DEF GiveUp
      <3>2. Usable(b)'
        BY <1>a, <2>2, <3>1 DEF Usable
      <3> QED
        BY <1>c, <2>1, <3>2
    <2>4. CASE AskRestart(b)
      <3>1. thread'[b].pc = "drain" /\ restartRequired'[b]
        BY <1>0, <2>1, <2>4, ThreadAtType DEF AskRestart, ManagerState
      <3>2. Usable(b)'
        BY <1>a, <2>2, <3>1 DEF Usable
      <3> QED
        BY <1>c, <2>1, <3>2
    <2> QED
      BY <1>7, <2>3, <2>4 DEF CheckLimit
  <1>8. CASE AfterSequence(b)
    <2>1. /\ thread[b].pc = "drain" /\ UNCHANGED <<queueVars, failureStatus, escaped>>
      BY <1>8 DEF AfterSequence, failureVars, historyVars
    <2>2. main.pc # "launch" /\ launch[b].step = "none" /\ ~isFresh[b]
      BY <2>1, UserExcludes DEF Control
    <2>3. CASE closing \/ ~(restartRequired[b] \/ thread[b].sequence.reset)
      <3>1. thread'[b].pc = "dead" /\ UNCHANGED <<manager, launch>>
        BY <1>0, <1>8, <2>3, ThreadEndsType DEF AfterSequence
      <3>2. closing \/ Waiting(b)'
        BY <1>0, <1>d, <2>1, <2>3, <3>1 DEF QueueOf, Usable
      <3>3. Usable(b)'
        BY <1>a, <2>2, <3>1, <3>2 DEF Usable
      <3> QED
        BY <1>c, <2>1, <3>1, <3>3
    <2>4. CASE ~(closing \/ ~(restartRequired[b] \/ thread[b].sequence.reset))
      <3>1. ThreadAt(b, "launch") /\ Restart(b, thread[b].sequence.reset)
        BY <1>8, <2>4 DEF AfterSequence
      <3>2. thread'[b].pc = "launch"
        BY <1>0, <2>1, <3>1, ThreadAtType
      <3>3. Launch(b, currentProfile'[b])
        BY <2>2, <3>1 DEF Restart
      <3>4. launch'[b].step \in {"dump", "spawn"}
        BY <1>0, <3>3, NewLaunch
      <3>5. Launching(b)' /\ Usable(b)'
        BY <1>a, <2>2, <3>2, <3>4 DEF Launching, Usable
      <3> QED
        BY <1>b, <3>5
    <2> QED
      BY <2>3, <2>4
  <1>9. CASE Restarted(b)
    <2>1. /\ thread[b].pc = "launch" /\ thread'[b].pc = "dead" /\ launch'[b].step = "none"
          /\ launch[b].step \in {"ok", "failed", "raised"}
          /\ UNCHANGED <<manager, queueVars>> /\ escaped \subseteq escaped'
      BY <1>0, <1>9, ThreadEndsType, LaunchAtType DEF Restarted
    <2>2. CASE launch[b].step = "ok"
      <3>1. Waiting(b)'
        BY <1>0, <1>d, <2>1, <2>2 DEF QueueOf, Launching
      <3> QED
        BY <1>b, <2>1, <3>1 DEF Launching, Usable, Control
    <2>3. CASE launch[b].step = "failed"
      <3>1. failureStatus' # "none"
        BY <1>9, <2>3 DEF Restarted, LaunchFailure
      <3> QED
        BY <1>a, <1>b, <2>1, <3>1 DEF Launching, Usable, Control
    <2>4. CASE launch[b].step = "raised"
      <3>1. b \in escaped'
        BY <1>9, <2>4 DEF Restarted
      <3>2. closing \/ (manager[b].pc = "dead" /\ NoAnswer(b))
        BY <1>0, <2>4 DEF QueueOf, Launching
      <3>3. closing \/ Waiting(b)'
        BY <1>d, <2>1, <3>1, <3>2 DEF Waiting
      <3>4. main.pc # "launch"
        BY <2>1 DEF Control
      <3>5. Launching(b)' /\ Usable(b)'
        BY <1>a, <2>1, <3>3, <3>4 DEF Launching, Usable
      <3> QED
        BY <1>b, <3>5
    <2> QED
      BY <2>1, <2>2, <2>3, <2>4
  <1> QED
    BY <1>1, <1>2, <1>3, <1>4, <1>5, <1>6, <1>7, <1>8, <1>9 DEF ThreadStep

LEMMA QueueInit == Init => QueueInv
  BY BrowserAssumption
  DEF Init, BrowserInit, QueueInv, QueueOf, Launching, Usable, NotLaunching, DeadThread, Browser

LEMMA QueueNext ==
  ASSUME BrowserState, Control', QueueInv, NEW b \in Browser, LaunchNext(b)
  PROVE  QueueInv'
  <1>1. /\ launch'[b].step \in {"dump", "spawn"}
        /\ \A a \in Browser \ {b} : launch'[a] = launch[a]
    BY NewLaunch DEF LaunchNext, BrowserState
  <1>2. UNCHANGED <<manager, queueVars, main, thread, closing, failureStatus, restartRequired,
                    currVisit, escaped>>
    BY DEF LaunchNext, managerVars, failureVars, visitVars, historyVars
  <1>3. \A a \in Browser \ {b} : Frame(a)
    BY <1>1, <1>2 DEF Frame, queueVars
  <1>4. Launching(b)' /\ Usable(b)'
    BY <1>1, StillLaunching DEF Launching
  <1> QED
    BY <1>3, <1>4, QueueOthers DEF QueueOf

LEMMA QueueStep ==
  ASSUME BrowserState, BrowserState', ManagerState, Control, Control', ProfileInv, QueueInv,
         [Next]_vars
  PROVE  QueueInv'
  <1>1. ASSUME NEW b \in Browser, BrowserStep(b)
        PROVE  QueueInv'
    BY <1>1, QueueChild, QueueLaunch DEF BrowserStep
  <1>2. ASSUME NEW b \in Browser, ThreadStep(b)
        PROVE  QueueInv'
    BY <1>2, QueueThread
  <1>3. ASSUME NEW b \in Browser, LaunchNext(b) \/ Launched(b)
        PROVE  QueueInv'
    BY <1>3, QueueNext, QueueLaunched
  <1>4. CASE ShutdownStep
    BY <1>4, QueueShutdown
  <1>5. CASE \/ Close \/ Unblocked
             \/ \E s \in CommandSequence, t \in Target, b \in Browser : Execute(s, t, b)
             \/ \E b \in Browser : LookElsewhere(b) \/ CheckFails(b)
    BY <1>5, QueueCalls
  <1>6. CASE Distributed \/ \E b \in Browser : StartThread(b)
    BY <1>6, QueueDistributed, QueueStart
  <1>7. CASE (\E b \in Browser : MemoryAlarm(b)) \/ KillStrays \/ UNCHANGED vars
    <2>1. UNCHANGED <<manager, queueVars, launch, main, thread, closing, failureStatus,
                      currVisit, escaped>>
      BY <1>7 DEF MemoryAlarm, KillStrays, vars, managerVars, browserVars, failureVars,
                  visitVars, historyVars
    <2>2. \A a \in Browser : restartRequired[a] => restartRequired'[a]
      BY <1>7 DEF MemoryAlarm, KillStrays, vars, managerVars, ManagerState
    <2>3. \A a \in Browser : Frame(a)
      BY <2>1, <2>2 DEF Frame, queueVars
    <2> QED
      BY <2>3, QueueStill
  <1> QED
    BY <1>1, <1>2, <1>3, <1>4, <1>5, <1>6, <1>7 DEF Next, MainStep, DistributeStep

(* Everything that is known of the queues, as one inductive invariant.     *)
CrawlInv == BrowserState /\ ManagerState /\ Control /\ ProfileInv /\ QueueInv

LEMMA CrawlInit == Init => CrawlInv
  BY StateInit, ControlInit, ProfileInit, QueueInit DEF CrawlInv

LEMMA CrawlStep ==
  ASSUME CrawlInv, [Next]_vars
  PROVE  CrawlInv'
  <1>1. BrowserState' /\ ManagerState' /\ Control'
    BY StateStep, ControlStep DEF CrawlInv
  <1>2. ProfileInv' /\ QueueInv'
    BY <1>1, ProfileStep, QueueStep DEF CrawlInv
  <1> QED
    BY <1>1, <1>2 DEF CrawlInv

LEMMA QueueAnswers == QueueInv => AnswersMatch
  <1> SUFFICES ASSUME QueueInv, NEW b \in Browser, thread[b].pc = "await"
               PROVE  /\ \A i \in DOMAIN statusQueue[b] :
                           statusQueue[b][i].kind = "OK" => statusQueue[b][i].command = Sent(b)
                      /\ manager[b].pc = "busy" => manager[b].command = Sent(b)
    BY DEF AnswersMatch, Sent
  <1>1. Asked(b)
    BY DEF QueueInv, QueueOf, Usable
  <1>2. CASE manager[b].pc = "dead" /\ NoAnswer(b)
    BY <1>2 DEF NoAnswer
  <1>3. CASE manager[b].pc \in {"dead", "loop"} /\ statusQueue[b] = <<Done(b)>>
    <2>1. \A i \in DOMAIN statusQueue[b] : statusQueue[b][i] = Done(b)
      BY <1>3
    <2> QED
      BY <1>3, <2>1 DEF Done
  <1>4. CASE manager[b].pc = "loop" /\ statusQueue[b] = <<>>
    BY <1>4
  <1>5. CASE manager[b] = [pc |-> "busy", command |-> Sent(b)] /\ statusQueue[b] = <<>>
    BY <1>5
  <1> QED
    BY <1>1, <1>2, <1>3, <1>4, <1>5 DEF Asked

LEMMA QueueReports == Control /\ QueueInv => UnusableIsReported
  <1> SUFFICES ASSUME Control, QueueInv, NEW b \in Browser, Serving, IsReady(b)
               PROVE  \/ manager[b].pc = "loop" \/ failureStatus # "none" \/ b \in escaped
    BY DEF UnusableIsReported
  <1>1. ~closing /\ main.pc # "launch" /\ thread[b].pc = "dead"
    BY DEF Control, ShutPC, Serving, IsReady
  <1>2. failureStatus # "none" \/ Waiting(b)
    BY <1>1 DEF QueueInv, QueueOf, Usable
  <1> QED
    BY <1>1, <1>2 DEF Waiting

(* An answer that a command thread takes is the answer to the command it   *)
(* sent, and what the browser executes is that command (TaskManager.py,    *)
(* _issue_command).                                                        *)
THEOREM AnswersOfCommands == Spec => []AnswersMatch
  <1>1. CrawlInv /\ [Next]_vars => CrawlInv'
    BY CrawlStep
  <1>2. CrawlInv => AnswersMatch
    BY QueueAnswers DEF CrawlInv
  <1> QED
    BY CrawlInit, <1>1, <1>2, PTL DEF Spec

(* A browser that has no command thread takes commands, or its failure is  *)
(* known to the crawl, or its launch raised in its thread                  *)
(* (TaskManager.py, _issue_command; BrowserManager.py, ready).             *)
THEOREM UsableOrReported == Spec => []UnusableIsReported
  <1>1. CrawlInv /\ [Next]_vars => CrawlInv'
    BY CrawlStep
  <1>2. CrawlInv => UnusableIsReported
    BY QueueReports DEF CrawlInv
  <1> QED
    BY CrawlInit, <1>1, <1>2, PTL DEF Spec

-----------------------------------------------------------------------------
(* Commands and visits.                                                    *)

LEMMA VisitSame ==
  ASSUME NEW b \in Browser, VisitOf(b), siteVisits' = siteVisits,
         currVisit'[b] = currVisit[b], commandQueue'[b] = commandQueue[b],
         manager'[b] = manager[b] \/ manager'[b].pc = "dead",
         thread'[b].pc # "dead" => thread[b].pc # "dead"
  PROVE  VisitOf(b)'
  <1>1. Recorded(b)' = Recorded(b)
    BY DEF Recorded
  <1> QED
    BY <1>1 DEF VisitOf

LEMMA VisitOthers ==
  ASSUME VisitInv, siteVisits' = siteVisits, NEW b \in Browser,
         \A a \in Browser \ {b} : Frame(a), VisitOf(b)'
  PROVE  VisitInv'
  <1>1. ASSUME NEW a \in Browser \ {b}
        PROVE  VisitOf(a)'
    BY VisitSame DEF Frame, VisitInv
  <1> QED
    BY <1>1 DEF VisitInv

LEMMA VisitInit == Init => VisitInv
  BY DEF Init, BrowserInit, VisitInv, VisitOf, DeadThread

LEMMA VisitChild ==
  ASSUME BrowserState, VisitInv, NEW b \in Browser, ChildStep(b), UNCHANGED managerVars
  PROVE  VisitInv'
  <1>1. UNCHANGED <<main, thread, closing, failureStatus, restartRequired, currVisit,
                    siteVisits, escaped>>
    BY DEF managerVars, failureVars, visitVars, historyVars
  <1>2. \A a \in Browser \ {b} : Frame(a)
    BY <1>1, ChildStatus, ChildEffect DEF Frame
  <1>3. VisitOf(b) /\ manager[b].pc # "dead" /\ Recorded(b)' = Recorded(b)
    BY <1>1, WaitingChild DEF VisitInv, Recorded
  <1>4. CASE Tells(b) \/ Answers(b) \/ Dies(b)
    <2>1. commandQueue'[b] = commandQueue[b] /\ manager'[b].pc # "busy"
      BY <1>4 DEF Tells, Answers, Dies
    <2>2. VisitOf(b)'
      BY <1>1, <1>3, <2>1 DEF VisitOf
    <2> QED
      BY <1>1, <1>2, <2>2, VisitOthers
  <1>5. CASE Takes(b)
    <2>1. commandQueue[b] \in Seq(Command) /\ commandQueue[b] # <<>>
      BY <1>5 DEF Takes, BrowserState
    <2>2. /\ 1 \in DOMAIN commandQueue[b] /\ Head(commandQueue[b]) = commandQueue[b][1]
          /\ \A i \in DOMAIN Tail(commandQueue[b]) :
               /\ i + 1 \in DOMAIN commandQueue[b]
               /\ Tail(commandQueue[b])[i] = commandQueue[b][i + 1]
      BY <2>1, TailElements
    <2>3. /\ manager'[b].command = commandQueue[b][1]
          /\ commandQueue'[b] = Tail(commandQueue[b])
      BY <1>5, <2>2 DEF Takes
    <2>4. \A i \in DOMAIN commandQueue[b] :
            commandQueue[b][i].visit = currVisit[b] /\ Recorded(b)
      BY <1>3 DEF VisitOf
    <2>5. VisitOf(b)'
      BY <1>1, <1>3, <2>2, <2>3, <2>4 DEF VisitOf
    <2> QED
      BY <1>1, <1>2, <2>5, VisitOthers
  <1> QED
    BY <1>4, <1>5, ChildMove

LEMMA VisitLaunch ==
  ASSUME BrowserState, VisitInv, NEW b \in Browser, LaunchStep(b), UNCHANGED managerVars
  PROVE  VisitInv'
  <1>1. UNCHANGED <<thread, currVisit, siteVisits>>
    BY DEF managerVars, visitVars
  <1>2. VisitOf(b)
    BY DEF VisitInv
  <1>3. VisitOf(b)'
    <2>1. CASE Spawn(b)
      <3>1. commandQueue'[b] = <<>> /\ manager'[b].pc = "boot"
        BY <2>1 DEF Spawn, ManagerAt, BrowserState
      <3>2. Recorded(b)' = Recorded(b)
        BY <1>1 DEF Recorded
      <3> QED
        BY <1>1, <1>2, <3>1, <3>2 DEF VisitOf
    <2>2. CASE ~Spawn(b)
      <3>1. commandQueue' = commandQueue
        BY <2>2 DEF LaunchStep, DumpProfile, SpawnLimitReached, LearnProfile, LearnDisplay,
                    LearnBrowser, SpawnSucceeds, SpawnFails, SpawnRaises, queueVars
      <3>2. manager'[b] = manager[b] \/ manager'[b].pc = "dead"
        BY <2>2 DEF LaunchStep, DumpProfile, SpawnLimitReached, LearnProfile, LearnDisplay,
                    LearnBrowser, SpawnSucceeds, SpawnFails, SpawnRaises, Kill, ManagerAt,
                    BrowserState
      <3> QED
        BY <1>1, <1>2, <3>1, <3>2, VisitSame
    <2> QED
      BY <2>1, <2>2
  <1> QED
    BY <1>1, <1>3, LaunchFrame, VisitOthers

LEMMA VisitThread ==
  ASSUME BrowserState, ManagerState, VisitInv, NEW b \in Browser, ThreadStep(b)
  PROVE  VisitInv'
  <1>1. UNCHANGED <<currVisit, siteVisits>> /\ thread[b].pc # "dead"
    BY ThreadEffect DEF visitVars
  <1>2. VisitOf(b) /\ Recorded(b)' = Recorded(b)
    BY <1>1 DEF VisitInv, Recorded
  <1>3. VisitOf(b)'
    <2>1. CASE SendCommand(b)
      <3>1. /\ manager' = manager
            /\ commandQueue'[b] = Append(commandQueue[b],
                                         [visit |-> currVisit[b], n |-> thread[b].n])
        BY <2>1 DEF SendCommand, BrowserState
      <3>2. commandQueue[b] \in Seq(Command) /\ Recorded(b)
        BY <1>1, <1>2 DEF BrowserState, VisitOf
      <3>3. [visit |-> currVisit[b], n |-> thread[b].n] \in Command
        <4>1. currVisit[b] \in Nat /\ thread[b] \in LiveThread
          BY <1>1, LiveThreads DEF ManagerState
        <4>2. thread[b].n \in Nat \ {0}
          BY <4>1, LiveThreadCount
        <4> QED
          BY <4>1, <4>2 DEF Command
      <3>4. \A i \in DOMAIN commandQueue'[b] :
              \/ i \in DOMAIN commandQueue[b] /\ commandQueue'[b][i] = commandQueue[b][i]
              \/ commandQueue'[b][i] = [visit |-> currVisit[b], n |-> thread[b].n]
        BY <3>1, <3>2, <3>3, AppendElements
      <3> QED
        BY <1>1, <1>2, <3>1, <3>2, <3>4 DEF VisitOf
    <2>2. CASE ~SendCommand(b)
      <3>1. commandQueue' = commandQueue
        BY <2>2 DEF ThreadStep, StartSequence, SequenceDone, CommandSucceeded,
                    CommandCritical, CommandFailed, CheckLimit, AfterSequence, Restarted,
                    browserVars, queueVars
      <3>2. manager'[b] = manager[b] \/ manager'[b].pc = "dead"
        BY <2>2 DEF ThreadStep, StartSequence, SequenceDone, CommandSucceeded,
                    CommandCritical, CommandFailed, CheckLimit, AfterSequence, Restarted,
                    Restart, Kill, ManagerAt, browserVars, BrowserState
      <3> QED
        BY <1>1, <1>2, <3>1, <3>2, VisitSame
    <2> QED
      BY <2>1, <2>2
  <1> QED
    BY <1>1, <1>3, ThreadFrame, VisitOthers

(* The new row of site_visits is the last one of its browser, and of no    *)
(* other.                                                                  *)
LEMMA VisitStart ==
  ASSUME BrowserState, ManagerState, Control, QueueInv, VisitInv, NEW b \in Browser,
         StartThread(b)
  PROVE  VisitInv'
  <1>1. /\ thread[b].pc = "dead" /\ main.pc = "distribute" /\ failureStatus = "none"
        /\ UNCHANGED browserVars
        /\ \A a \in Browser \ {b} : thread'[a] = thread[a]
    BY StartThreadEffect
  <1>2. PICK id \in Nat : /\ siteVisits' = Append(siteVisits, [id |-> id, browser |-> b])
                          /\ currVisit' = [currVisit EXCEPT ![b] = id]
    BY StartThreadEffect
  <1>3. siteVisits \in Seq([id : Nat, browser : Browser]) /\ currVisit \in [Browser -> Nat]
    BY DEF ManagerState
  <1>4. /\ Len(siteVisits') = Len(siteVisits) + 1 /\ Len(siteVisits) \in Nat
        /\ DOMAIN siteVisits' = 1 .. Len(siteVisits) + 1
        /\ DOMAIN siteVisits = 1 .. Len(siteVisits)
        /\ siteVisits'[Len(siteVisits) + 1] = [id |-> id, browser |-> b]
        /\ \A i \in 1 .. Len(siteVisits) : siteVisits'[i] = siteVisits[i]
    BY <1>2, <1>3
  <1>5. Recorded(b)'
    <2>1. PICK i \in DOMAIN siteVisits' : i = Len(siteVisits) + 1
      BY <1>4
    <2>2. siteVisits'[i] = [id |-> currVisit'[b], browser |-> b]
      BY <1>2, <1>3, <1>4, <2>1
    <2>3. \A j \in DOMAIN siteVisits' : j <= i
      BY <1>4, <2>1
    <2> QED
      BY <2>2, <2>3 DEF Recorded
  <1>6. ASSUME NEW a \in Browser \ {b}, Recorded(a)
        PROVE  Recorded(a)'
    <2>1. PICK i \in DOMAIN siteVisits :
            /\ siteVisits[i] = [id |-> currVisit[a], browser |-> a]
            /\ \A j \in DOMAIN siteVisits : siteVisits[j].browser = a => j <= i
      BY <1>6 DEF Recorded
    <2>2. i \in DOMAIN siteVisits' /\ siteVisits'[i] = [id |-> currVisit'[a], browser |-> a]
      BY <1>2, <1>3, <1>4, <2>1
    <2>3. \A j \in DOMAIN siteVisits' : siteVisits'[j].browser = a => j <= i
      <3>1. ASSUME NEW j \in DOMAIN siteVisits', siteVisits'[j].browser = a
            PROVE  j <= i
        <4>1. j # Len(siteVisits) + 1
          BY <1>4, <3>1
        <4>2. j \in DOMAIN siteVisits /\ siteVisits[j].browser = a
          BY <1>4, <3>1, <4>1
        <4> QED
          BY <2>1, <4>2
      <3> QED
        BY <3>1
    <2> QED
      BY <2>2, <2>3 DEF Recorded
  <1>7. ASSUME NEW a \in Browser \ {b}
        PROVE  VisitOf(a)'
    <2>1. currVisit'[a] = currVisit[a] /\ VisitOf(a)
      BY <1>2, <1>3 DEF VisitInv
    <2> QED
      BY <1>1, <1>6, <2>1 DEF VisitOf, browserVars, queueVars
  <1>8. Waiting(b)
    BY <1>1 DEF Control, ShutPC, QueueInv, QueueOf, Usable
  <1>9. VisitOf(b)'
    BY <1>1, <1>5, <1>8 DEF VisitOf, Waiting, browserVars, queueVars
  <1> QED
    BY <1>7, <1>9 DEF VisitInv

LEMMA VisitStep ==
  ASSUME BrowserState, ManagerState, Control, QueueInv, VisitInv, [Next]_vars
  PROVE  VisitInv'
  <1>a. ASSUME UNCHANGED <<commandQueue, thread, currVisit, siteVisits>>,
               \A b \in Browser : manager'[b] = manager[b] \/ manager'[b].pc = "dead"
        PROVE  VisitInv'
    BY <1>a, VisitSame DEF VisitInv
  <1>1. ASSUME NEW b \in Browser, BrowserStep(b)
        PROVE  VisitInv'
    BY <1>1, VisitChild, VisitLaunch DEF BrowserStep
  <1>2. ASSUME NEW b \in Browser, ThreadStep(b)
        PROVE  VisitInv'
    BY <1>2, VisitThread
  <1>3. ASSUME NEW b \in Browser, LaunchNext(b) \/ Launched(b)
        PROVE  VisitInv'
    BY <1>3, <1>a DEF LaunchNext, Launched, queueVars, managerVars, visitVars
  <1>4. CASE ShutdownStep
    <2>1. /\ UNCHANGED <<thread, queueVars, visitVars>>
          /\ \A b \in Browser : manager'[b] = manager[b] \/ manager'[b].pc = "dead"
      BY <1>4, ShutdownEffect
    <2> QED
      BY <2>1, <1>a DEF queueVars, visitVars
  <1>5. CASE \/ Close \/ Unblocked
             \/ \E s \in CommandSequence, t \in Target, b \in Browser : Execute(s, t, b)
             \/ \E b \in Browser : LookElsewhere(b) \/ CheckFails(b)
    <2>1. UNCHANGED <<browserVars, thread, currVisit, siteVisits>>
      BY <1>5, CallEffect
    <2> QED
      BY <2>1, <1>a DEF browserVars, queueVars
  <1>6. CASE Distributed
    <2>1. /\ UNCHANGED <<browserVars, visitVars>>
          /\ \A b \in Browser : \/ thread'[b] = thread[b]
                                \/ thread[b].pc = "wait" /\ thread'[b].pc = "next"
      BY <1>6, DistributedEffect
    <2>2. ASSUME NEW b \in Browser
          PROVE  VisitOf(b)'
      BY <2>1, VisitSame DEF VisitInv, browserVars, queueVars, visitVars
    <2> QED
      BY <2>2 DEF VisitInv
  <1>7. ASSUME NEW b \in Browser, StartThread(b)
        PROVE  VisitInv'
    BY <1>7, VisitStart
  <1>8. CASE (\E b \in Browser : MemoryAlarm(b)) \/ KillStrays \/ UNCHANGED vars
    <2>1. UNCHANGED <<manager, commandQueue, thread, currVisit, siteVisits>>
      BY <1>8 DEF MemoryAlarm, KillStrays, vars, managerVars, browserVars, queueVars, visitVars
    <2> QED
      BY <2>1, <1>a
  <1> QED
    BY <1>1, <1>2, <1>3, <1>4, <1>5, <1>6, <1>7, <1>8 DEF Next, MainStep, DistributeStep

(* What a browser executes belongs to the last visit that was recorded for *)
(* it in site_visits (TaskManager.py, _start_thread).                      *)
THEOREM CommandsOfVisits == Spec => []CommandsBelongToVisits
  <1>1. Init => CrawlInv /\ VisitInv
    BY CrawlInit, VisitInit
  <1>2. CrawlInv /\ VisitInv /\ [Next]_vars => CrawlInv' /\ VisitInv'
    BY CrawlStep, VisitStep DEF CrawlInv
  <1>3. VisitInv => CommandsBelongToVisits
    BY DEF VisitInv, VisitOf, CommandsBelongToVisits, Recorded
  <1> QED
    BY <1>1, <1>2, <1>3, PTL DEF Spec

-----------------------------------------------------------------------------
(* Visit ids.                                                              *)

LEMMA IdInit == Init => IdInv
  <1>1. Init => main.pc = "launch" /\ DOMAIN siteVisits = {}
    BY DEF Init
  <1> QED
    BY <1>1 DEF IdInv, VisitIdsUnique

LEMMA IdSame ==
  ASSUME IdInv, UNCHANGED <<siteVisits, nextVisit>>,
         main'.pc = "distribute" => /\ main.pc = "distribute"
                                    /\ main'.visit = main.visit /\ main'.left = main.left
  PROVE  IdInv'
  <1>1. VisitIdsUnique'
    BY DEF IdInv, VisitIdsUnique
  <1>2. \A i \in DOMAIN siteVisits' : siteVisits'[i].id < nextVisit'
    BY DEF IdInv
  <1>3. ASSUME main'.pc = "distribute", VisitPerCall
        PROVE  /\ main'.visit < nextVisit'
               /\ \E b \in {0} \cup Browser : main'.left \subseteq {b}
               /\ main'.left # {} =>
                    \A i \in DOMAIN siteVisits' : siteVisits'[i].id # main'.visit
    BY <1>3 DEF IdInv
  <1> QED
    BY <1>1, <1>2, <1>3 DEF IdInv

LEMMA VisitIdType ==
  ASSUME ManagerState
  PROVE  \A i \in DOMAIN siteVisits : siteVisits[i].id \in Nat
  <1>1. siteVisits \in Seq([id : Nat, browser : Browser])
    BY DEF ManagerState
  <1>2. \A i \in DOMAIN siteVisits : siteVisits[i] \in [id : Nat, browser : Browser]
    BY <1>1, ElementOfSeq, LenProperties
  <1> QED
    BY <1>2

LEMMA IdExecute ==
  ASSUME ManagerState, IdInv, OneThreadPerVisit, NEW s \in CommandSequence,
         NEW t \in Target, NEW b \in Browser, Execute(s, t, b)
  PROVE  IdInv'
  <1>1. /\ siteVisits' = siteVisits /\ main'.visit = nextVisit /\ nextVisit \in Nat
        /\ main'.left = (CASE t = "any" -> {0} [] t = "one" -> {b}
                           [] t \in {"all", "sync"} -> Browser)
        /\ nextVisit' = IF VisitPerCall THEN nextVisit + 1 ELSE nextVisit
    BY DEF Execute, ManagerState
  <1>2. \A i \in DOMAIN siteVisits : siteVisits[i].id \in Nat /\ siteVisits[i].id < nextVisit
    BY VisitIdType DEF IdInv
  <1>3. VisitIdsUnique'
    BY <1>1 DEF IdInv, VisitIdsUnique
  <1>4. \A i \in DOMAIN siteVisits' : siteVisits'[i].id < nextVisit'
    BY <1>1, <1>2
  <1>5. ASSUME VisitPerCall
        PROVE  /\ main'.visit < nextVisit'
               /\ \E c \in {0} \cup Browser : main'.left \subseteq {c}
               /\ \A i \in DOMAIN siteVisits' : siteVisits'[i].id # main'.visit
    <2>1. main'.visit < nextVisit'
      BY <1>1, <1>5
    <2>2. \A i \in DOMAIN siteVisits' : siteVisits'[i].id # main'.visit
      BY <1>1, <1>2
    <2>3. \E c \in {0} \cup Browser : main'.left \subseteq {c}
      <3>1. CASE Target \subseteq {"any", "one"}
        <4>1. t = "any" \/ t = "one"
          BY <3>1
        <4> QED
          BY <1>1, <4>1
      <3>2. CASE NumBrowsers = 1
        <4>1. Browser = {1} /\ b = 1
          BY <3>2 DEF Browser
        <4>2. t \in {"any", "one", "all", "sync"}
          BY TaskManagerAssumption
        <4> QED
          BY <1>1, <4>1, <4>2
      <3> QED
        BY <1>5, <3>1, <3>2 DEF OneThreadPerVisit
    <2> QED
      BY <2>1, <2>2, <2>3
  <1> QED
    BY <1>3, <1>4, <1>5 DEF IdInv

(* One visit more, with an id that no visit has.                           *)
LEMMA IdStart ==
  ASSUME ManagerState, IdInv, NEW b \in Browser, StartThread(b)
  PROVE  IdInv'
  <1>0. siteVisits \in Seq([id : Nat, browser : Browser]) /\ nextVisit \in Nat
    BY DEF ManagerState
  <1>1. PICK id \in Nat :
          /\ StartVisit(b, id) /\ id < nextVisit' /\ nextVisit <= nextVisit'
          /\ \A i \in DOMAIN siteVisits : siteVisits[i].id # id
          /\ nextVisit' \in Nat
          /\ VisitPerCall => id = main.visit /\ nextVisit' = nextVisit
    <2>1. CASE StartWithCall(b)
      <3>1. main \in Distributing /\ main.pc = "distribute" /\ main.left # {}
        BY <2>1, MainCases DEF StartWithCall, StartVisit, Wanted, ManagerState
      <3>2. main.visit \in Nat /\ VisitPerCall
        BY <2>1, <3>1 DEF StartWithCall, Distributing
      <3>3. main.visit < nextVisit /\ \A i \in DOMAIN siteVisits : siteVisits[i].id # main.visit
        BY <3>1, <3>2 DEF IdInv
      <3> QED
        BY <1>0, <2>1, <3>2, <3>3 DEF StartWithCall
    <2>2. CASE StartWithOwn(b)
      <3>1. \A i \in DOMAIN siteVisits : siteVisits[i].id < nextVisit /\ siteVisits[i].id \in Nat
        BY VisitIdType DEF IdInv
      <3>2. \A i \in DOMAIN siteVisits : siteVisits[i].id # nextVisit
        BY <1>0, <3>1
      <3> QED
        BY <1>0, <2>2, <3>2 DEF StartWithOwn
    <2> QED
      BY <2>1, <2>2 DEF StartThread
  <1>2. /\ siteVisits' = Append(siteVisits, [id |-> id, browser |-> b])
        /\ main'.visit = main.visit
        /\ main'.left = (IF main.left = {0} THEN {} ELSE main.left \ {b})
    BY <1>1, StartVisitMain
  <1>3. \A i \in DOMAIN siteVisits' :
          \/ i \in DOMAIN siteVisits /\ siteVisits'[i] = siteVisits[i]
          \/ i = Len(siteVisits) + 1 /\ siteVisits'[i].id = id
    BY <1>0, <1>2, AppendElements
  <1>4. VisitIdsUnique'
    <2>1. ASSUME NEW i \in DOMAIN siteVisits', NEW j \in DOMAIN siteVisits',
                 siteVisits'[i].id = siteVisits'[j].id
          PROVE  i = j
      BY <1>1, <1>3, <2>1 DEF IdInv, VisitIdsUnique
    <2> QED
      BY <2>1 DEF VisitIdsUnique
  <1>5. \A i \in DOMAIN siteVisits' : siteVisits'[i].id < nextVisit'
    <2>1. \A i \in DOMAIN siteVisits : siteVisits[i].id \in Nat /\ siteVisits[i].id < nextVisit
      BY VisitIdType DEF IdInv
    <2>2. \A i \in DOMAIN siteVisits : siteVisits[i].id < nextVisit'
      BY <1>0, <1>1, <2>1
    <2> QED
      BY <1>1, <1>3, <2>2
  <1>6. ASSUME VisitPerCall
        PROVE  /\ main'.visit < nextVisit'
               /\ main'.left = {} /\ \E c \in {0} \cup Browser : main'.left \subseteq {c}
    <2>1. main.pc = "distribute" /\ Wanted(b)
      BY <1>1 DEF StartVisit
    <2>2. PICK c \in {0} \cup Browser : main.left \subseteq {c}
      BY <1>6, <2>1 DEF IdInv
    <2>3. main'.left = {}
      BY <1>2, <2>1, <2>2 DEF Wanted
    <2> QED
      BY <1>1, <1>2, <1>6, <2>3
  <1> QED
    BY <1>4, <1>5, <1>6 DEF IdInv

LEMMA IdStep ==
  ASSUME BrowserState, ManagerState, IdInv, OneThreadPerVisit, [Next]_vars
  PROVE  IdInv'
  <1>a. ASSUME UNCHANGED <<main, siteVisits, nextVisit>>
        PROVE  IdInv'
    BY <1>a, IdSame
  <1>b. ASSUME UNCHANGED <<siteVisits, nextVisit>>, main'.pc # "distribute"
        PROVE  IdInv'
    BY <1>b, IdSame
  <1>1. ASSUME NEW b \in Browser, BrowserStep(b) \/ ThreadStep(b) \/ LaunchNext(b)
        PROVE  IdInv'
    BY <1>1, <1>a, ThreadEffect DEF BrowserStep, LaunchNext, managerVars, visitVars
  <1>2. ASSUME NEW b \in Browser, Launched(b)
        PROVE  IdInv'
    <2>1. main'.pc # "distribute"
      BY <1>2, LaunchedEffect DEF ShutPC
    <2> QED
      BY <1>2, <1>b, <2>1 DEF Launched, visitVars
  <1>3. CASE ShutdownStep
    <2>1. main'.pc \in ShutPC /\ UNCHANGED visitVars
      BY <1>3, ShutdownEffect
    <2> QED
      BY <1>b, <2>1 DEF ShutPC, visitVars
  <1>4. ASSUME NEW b \in Browser, CheckFails(b) \/ Close \/ Unblocked
        PROVE  IdInv'
    <2>1. main'.pc \in {"idle", "join"}
      <3>1. CASE CheckFails(b) \/ Close
        BY <3>1, ShutdownType DEF CheckFails, Close, ManagerState
      <3>2. CASE Unblocked
        <4>1. CASE failureStatus = "none"
          BY <3>2, <4>1 DEF Unblocked
        <4>2. CASE failureStatus # "none"
          <5>1. Shutdown(-1, FALSE) /\ thread \in [Browser -> Thread]
            BY <3>2, <4>2 DEF Unblocked, ManagerState
          <5> QED
            BY <5>1, ShutdownType
        <4> QED
          BY <4>1, <4>2
      <3> QED
        BY <1>4, <3>1, <3>2
    <2> QED
      BY <1>4, <1>b, <2>1 DEF CheckFails, Close, Unblocked, visitVars
  <1>5. ASSUME NEW b \in Browser, LookElsewhere(b)
        PROVE  IdInv'
    <2>1. PICK m \in Distributing : m = main /\ m.pc = "distribute"
      BY <1>5, MainCases DEF LookElsewhere, ManagerState
    <2>2. PICK c \in Browser : c = NextBrowser(b)
      BY NextInRange, BrowserAssumption DEF NextBrowser, Browser
    <2>3. main' = [m EXCEPT !.at = c]
      BY <1>5, <2>1, <2>2 DEF LookElsewhere
    <2>4. main'.visit = m.visit /\ main'.left = m.left
      BY <2>3, DistributingAt
    <2> QED
      BY <1>5, <2>1, <2>4, IdSame DEF LookElsewhere, visitVars
  <1>6. ASSUME NEW b \in Browser, StartThread(b)
        PROVE  IdInv'
    BY <1>6, IdStart
  <1>7. CASE Distributed
    <2>1. main'.pc \in {"idle", "block"} /\ UNCHANGED visitVars
      BY <1>7, DistributedEffect
    <2> QED
      BY <1>b, <2>1 DEF visitVars
  <1>8. ASSUME NEW s \in CommandSequence, NEW t \in Target, NEW b \in Browser, Execute(s, t, b)
        PROVE  IdInv'
    BY <1>8, IdExecute
  <1>9. CASE (\E b \in Browser : MemoryAlarm(b)) \/ KillStrays \/ UNCHANGED vars
    BY <1>9, <1>a DEF MemoryAlarm, KillStrays, vars, managerVars, visitVars
  <1>10. 1 \in Browser
    BY BrowserAssumption DEF Browser
  <1> QED
    BY <1>1, <1>2, <1>3, <1>4, <1>5, <1>6, <1>7, <1>8, <1>9, <1>10
    DEF Next, MainStep, DistributeStep

(* A site visit is "keyed by a visit id" (CommandSequence.py:6): no two    *)
(* rows of site_visits have the same, if each id is used by one thread:    *)
(* crawler_mailinglists takes one for each thread, crawler_emails for each *)
(* call, which starts one thread unless the call is for all browsers.      *)
THEOREM VisitsKeyed ==
  ASSUME OneThreadPerVisit
  PROVE  Spec => []VisitIdsUnique
  <1>1. Init => BrowserState /\ ManagerState /\ IdInv
    BY StateInit, IdInit
  <1>2. BrowserState /\ ManagerState /\ IdInv /\ [Next]_vars =>
          BrowserState' /\ ManagerState' /\ IdInv'
    BY StateStep, IdStep
  <1>3. IdInv => VisitIdsUnique
    BY DEF IdInv
  <1> QED
    BY <1>1, <1>2, <1>3, PTL DEF Spec
-----------------------------------------------------------------------------
(* Processes and profiles.  The theorem is about runs without faults; what *)
(* a fault leaves behind is nobody's.                                      *)

LEMMA FaultsStay ==
  ASSUME BrowserState, [Next]_vars, childFaults' = 0
  PROVE  childFaults = 0
  <1>1. childFaults \in Nat /\ ~Fault
    BY DEF BrowserState, Fault
  <1>2. ASSUME NEW b \in Browser, ChildStep(b) PROVE childFaults = 0
    BY <1>1, <1>2 DEF ChildStep, CreateProfile, StartDisplay, StartFirefox, FirefoxLaunched,
         Ready, TakeCommand, CommandDone, ChildFails, ChildCritical
  <1>3. ASSUME NEW b \in Browser, LaunchStep(b) PROVE childFaults = 0
    BY <1>1, <1>3 DEF LaunchStep, DumpProfile, Spawn, SpawnLimitReached, LearnProfile,
         LearnDisplay, LearnBrowser, SpawnSucceeds, SpawnFails, SpawnRaises
  <1>4. ASSUME NEW b \in Browser, ThreadStep(b) PROVE childFaults = 0
    <2>1. CASE CommandFailed(b)
      BY <1>1, <2>1 DEF CommandFailed, NoSuccess, AnsweredFailed
    <2> QED
      BY <1>4, <2>1 DEF ThreadStep, StartSequence, SendCommand, SequenceDone,
           CommandSucceeded, CommandCritical, CheckLimit, AfterSequence, Restarted, browserVars
  <1>5. CASE MainStep
    BY <1>5 DEF MainStep, LaunchNext, Launched, DistributeStep, LookElsewhere, CheckFails,
         StartThread, StartWithCall, StartWithOwn, StartVisit, Distributed, Unblocked,
         ShutdownStep, JoinEnds, KillAtShutdown, FinishBrowser, browserVars
  <1>6. CASE \/ \E s \in CommandSequence, t \in Target, b \in Browser : Execute(s, t, b)
             \/ Close \/ \E b \in Browser : MemoryAlarm(b)
    BY <1>6 DEF Execute, Close, MemoryAlarm, browserVars
  <1>7. KillStrays => childFaults = 0
    BY <1>1 DEF KillStrays
  <1>8. UNCHANGED vars => childFaults = 0
    BY DEF vars, browserVars
  <1> QED
    BY <1>2, <1>3, <1>4, <1>5, <1>6, <1>7, <1>8 DEF Next, BrowserStep

(* What TidyOf says of a browser stays when its processes and profiles get *)
(* fewer, those of an attempt under way excepted, and the rest of it stays.*)
Keeps(a) ==
  /\ gen'[a] = gen[a] /\ statusQueue'[a] = statusQueue[a] /\ manager'[a] = manager[a]
  /\ displayPid'[a] = displayPid[a] /\ browserPid'[a] = browserPid[a]
  /\ currentProfile'[a] = currentProfile[a]
  /\ \/ launch'[a] = launch[a]
     \/ launch[a].step # "status" /\ launch'[a].step # "status"

Fewer(a) ==
  \A g \in Nat : /\ <<a, g>> \in displays' => <<a, g>> \in displays
                 /\ <<a, g>> \in firefoxes' => <<a, g>> \in firefoxes
                 /\ <<a, g>> \in profiles' => <<a, g>> \in profiles

Spared(a) ==
  /\ <<a, gen[a]>> \in displays => <<a, gen[a]>> \in displays'
  /\ <<a, gen[a]>> \in firefoxes => <<a, gen[a]>> \in firefoxes'

LEMMA TidyKeeps ==
  ASSUME NEW a \in Browser, TidyOf(a), Keeps(a), Fewer(a),
         launch[a].step = "status" => Spared(a),
         Killed(a)' => Killed(a), Passed(a)' => Passed(a),
         Ended(a)' => thread'[a].pc = "dead"
  PROVE  TidyOf(a)'
  <1>1. launch'[a].step # "status" => Known(a)' /\ manager'[a].pc \in {"dead", "loop", "busy"}
    BY DEF TidyOf, Known, Keeps, Fewer
  <1>2. ASSUME launch'[a].step = "status" PROVE Attempt(a)'
    <2>1. \A k : InQueue(a, k)' <=> InQueue(a, k)
      BY DEF InQueue, Keeps
    <2>2. Intact(a) => Intact(a)'
      BY <1>2 DEF Intact, Spared, Keeps
    <2>3. launch'[a] = launch[a] /\ Attempt(a)
      BY <1>2 DEF Keeps, TidyOf
    <2>4. \A g \in Nat : AttemptKnown(a, g)'
      BY <2>1, <2>3 DEF Attempt, AttemptKnown, Keeps, Fewer
    <2> QED
      BY <2>1, <2>2, <2>3, <2>4 DEF Attempt, Keeps
  <1>3. Killed(a)' => manager'[a].pc = "dead" /\ NoProcess(a)'
    BY DEF TidyOf, NoProcess, Fewer, Keeps
  <1>4. Passed(a)' => NoProfile(a)'
    BY DEF TidyOf, NoProfile, Fewer
  <1> QED
    BY <1>1, <1>2, <1>3, <1>4 DEF TidyOf

(* A step of one browser leaves the others alone.                          *)
Same(S, T, a) == \A g \in Nat : <<a, g>> \in S <=> <<a, g>> \in T

Apart(a) ==
  /\ gen'[a] = gen[a] /\ statusQueue'[a] = statusQueue[a] /\ manager'[a] = manager[a]
  /\ displayPid'[a] = displayPid[a] /\ browserPid'[a] = browserPid[a]
  /\ currentProfile'[a] = currentProfile[a] /\ launch'[a] = launch[a]
  /\ Same(displays, displays', a) /\ Same(firefoxes, firefoxes', a)
  /\ Same(profiles, profiles', a)

LEMMA ApartKeeps ==
  ASSUME BrowserState, NEW a \in Browser, Apart(a)
  PROVE  Keeps(a) /\ Fewer(a) /\ Spared(a)
  <1>1. gen[a] \in Nat
    BY DEF BrowserState
  <1> QED
    BY <1>1 DEF Apart, Same, Keeps, Fewer, Spared

LEMMA TidyApart ==
  ASSUME BrowserState, NEW a \in Browser, TidyOf(a), Apart(a), UNCHANGED main,
         thread'[a] = thread[a]
  PROVE  TidyOf(a)'
  <1>1. /\ Killed(a)' => Killed(a)
        /\ Passed(a)' => Passed(a)
        /\ Ended(a)' => thread'[a].pc = "dead"
    BY DEF Killed, Passed, Apart, Ended, TidyOf
  <1> QED
    BY <1>1, ApartKeeps, TidyKeeps

LEMMA ChildApart ==
  ASSUME BrowserState, NEW b \in Browser, ChildStep(b), NEW a \in Browser \ {b}
  PROVE  Apart(a)
  <1>1. /\ statusQueue'[a] = statusQueue[a] /\ manager'[a] = manager[a]
        /\ UNCHANGED <<gen, currentProfile, launch, displayPid, browserPid>>
    BY ChildStatus, ChildEffect
  <1>2. /\ displays' = displays \/ displays' = displays \cup {<<b, gen[b]>>}
        /\ firefoxes' = firefoxes \/ firefoxes' = firefoxes \cup {<<b, gen[b]>>}
        /\ profiles' = profiles \/ profiles' = profiles \cup {<<b, gen[b]>>}
    BY DEF ChildStep, CreateProfile, StartDisplay, StartFirefox, FirefoxLaunched, Ready,
           TakeCommand, CommandDone, ChildFails, ChildCritical, processVars, profileVars
  <1> QED
    BY <1>1, <1>2 DEF Apart, Same

LEMMA KillApart ==
  ASSUME BrowserState, NEW b \in Browser, Kill(b), NEW a \in Browser \ {b}
  PROVE  /\ manager'[a] = manager[a]
         /\ Same(displays, displays', a) /\ Same(firefoxes, firefoxes', a)
  BY DEF BrowserState, Kill, ManagerAt, Same

LEMMA LaunchApart ==
  ASSUME BrowserState, NEW b \in Browser, LaunchStep(b), NEW a \in Browser \ {b}
  PROVE  Apart(a)
  <1>1. launch'[a] = launch[a]
    BY LaunchStepEffect
  <1> USE DEF BrowserState, Apart, Same
  <1>2. CASE DumpProfile(b) \/ SpawnLimitReached(b)
    BY <1>1, <1>2 DEF DumpProfile, SpawnLimitReached, queueVars, processVars, pidVars, profileVars
  <1>3. CASE Spawn(b)
    BY <1>1, <1>3 DEF Spawn, ManagerAt, processVars, pidVars
  <1>4. CASE LearnProfile(b) \/ LearnDisplay(b) \/ LearnBrowser(b) \/ SpawnRaises(b)
    BY <1>1, <1>4 DEF LearnProfile, LearnDisplay, LearnBrowser, SpawnRaises, Received,
                      processVars, pidVars, profileVars
  <1>5. CASE SpawnSucceeds(b)
    BY <1>1, <1>5 DEF SpawnSucceeds, Received, processVars, pidVars
  <1>6. CASE SpawnFails(b)
    <2>1. /\ manager'[a] = manager[a]
          /\ Same(displays, displays', a) /\ Same(firefoxes, firefoxes', a)
      BY <1>6, KillApart DEF SpawnFails
    <2> QED
      BY <1>1, <1>6, <2>1 DEF SpawnFails, Received, pidVars
  <1> QED
    BY <1>2, <1>3, <1>4, <1>5, <1>6 DEF LaunchStep

LEMMA ThreadApart ==
  ASSUME BrowserState, ManagerState, NEW b \in Browser, ThreadStep(b), NEW a \in Browser \ {b}
  PROVE  Apart(a)
  <1>1. launch'[a] = launch[a] /\ gen'[a] = gen[a]
    BY ThreadEffect
  <1> USE DEF BrowserState, Apart, Same
  <1>2. CASE StartSequence(b) \/ SendCommand(b) \/ SequenceDone(b) \/ CheckLimit(b) \/ Restarted(b)
    BY <1>1, <1>2 DEF StartSequence, SendCommand, SequenceDone, CheckLimit, Restarted,
         browserVars, queueVars, processVars, pidVars, profileVars
  <1>3. CASE CommandSucceeded(b) \/ CommandCritical(b) \/ CommandFailed(b)
    BY <1>1, <1>3 DEF CommandSucceeded, CommandCritical, CommandFailed, NoSuccess,
         AnsweredFailed, Answer, processVars, pidVars, profileVars
  <1>4. CASE AfterSequence(b)
    <2>1. UNCHANGED <<queueVars, pidVars>>
      BY <1>4 DEF AfterSequence
    <2>2. CASE UNCHANGED <<manager, processVars, profiles, currentProfile>>
      BY <1>1, <2>1, <2>2 DEF queueVars, pidVars, processVars
    <2>3. CASE Kill(b) /\ UNCHANGED <<profiles, currentProfile>>
      BY <1>1, <2>1, <2>3, KillApart DEF queueVars, pidVars
    <2>4. CASE /\ Kill(b) /\ profiles' = profiles \ {<<b, currentProfile[b]>>}
               /\ currentProfile' = [currentProfile EXCEPT ![b] = 0]
      <3>1. /\ manager'[a] = manager[a] /\ currentProfile'[a] = currentProfile[a]
            /\ Same(displays, displays', a) /\ Same(firefoxes, firefoxes', a)
        BY <2>4, KillApart
      <3> QED
        BY <1>1, <2>1, <2>4, <3>1 DEF queueVars, pidVars
    <2> QED
      BY <1>4, <2>2, <2>3, <2>4 DEF AfterSequence, Restart
  <1> QED
    BY <1>2, <1>3, <1>4 DEF ThreadStep

(* A status that is put in the queue, and one that is taken from it.       *)
LEMMA QueueGrows ==
  ASSUME BrowserState, NEW b \in Browser, NEW s \in Status,
         statusQueue'[b] = Append(statusQueue[b], s)
  PROVE  \A k : InQueue(b, k)' <=> InQueue(b, k) \/ s.kind = k
  <1>1. statusQueue[b] \in Seq(Status)
    BY DEF BrowserState
  <1>2. \A i \in DOMAIN statusQueue[b] :
          i \in DOMAIN statusQueue'[b] /\ statusQueue'[b][i] = statusQueue[b][i]
    BY <1>1
  <1>3. /\ Len(statusQueue[b]) + 1 \in DOMAIN statusQueue'[b]
        /\ statusQueue'[b][Len(statusQueue[b]) + 1] = s
    BY <1>1
  <1>4. \A i \in DOMAIN statusQueue'[b] :
          \/ i \in DOMAIN statusQueue[b] /\ statusQueue'[b][i] = statusQueue[b][i]
          \/ statusQueue'[b][i] = s
    BY <1>1, AppendElements
  <1> QED
    BY <1>2, <1>3, <1>4 DEF InQueue

LEMMA QueueShrinks ==
  ASSUME BrowserState, NEW b \in Browser, statusQueue[b] # <<>>,
         statusQueue' = [statusQueue EXCEPT ![b] = Tail(@)]
  PROVE  /\ \A k : InQueue(b, k) => InQueue(b, k)' \/ Head(statusQueue[b]).kind = k
         /\ \A k : InQueue(b, k)' => InQueue(b, k)
         /\ InQueue(b, Head(statusQueue[b]).kind)
  <1>1. /\ statusQueue[b] \in Seq(Status) /\ statusQueue'[b] = Tail(statusQueue[b])
        /\ 1 \in DOMAIN statusQueue[b] /\ Head(statusQueue[b]) = statusQueue[b][1]
        /\ \A i \in DOMAIN statusQueue'[b] :
             i + 1 \in DOMAIN statusQueue[b] /\ statusQueue'[b][i] = statusQueue[b][i + 1]
    BY TailStatus DEF BrowserState
  <1>2. \A i \in DOMAIN statusQueue[b] : i # 1 =>
          i - 1 \in DOMAIN statusQueue'[b] /\ statusQueue'[b][i - 1] = statusQueue[b][i]
    BY <1>1
  <1>3. ASSUME NEW k, InQueue(b, k) PROVE InQueue(b, k)' \/ Head(statusQueue[b]).kind = k
    BY <1>1, <1>2, <1>3 DEF InQueue
  <1>4. ASSUME NEW k, InQueue(b, k)' PROVE InQueue(b, k)
    BY <1>1, <1>4 DEF InQueue
  <1>5. InQueue(b, Head(statusQueue[b]).kind)
    BY <1>1 DEF InQueue
  <1> QED
    BY <1>3, <1>4, <1>5

(* The child of b: during a spawn attempt each thing it starts has its     *)
(* status put in the queue, and afterwards it starts nothing.              *)
LEMMA AttemptChild ==
  ASSUME BrowserState, NEW b \in Browser, Attempt(b), Spawning(b), ChildStep(b),
         childFaults = 0, childFaults' = 0
  PROVE  Attempt(b)'
  <1>0. /\ UNCHANGED <<gen, currentProfile, launch, displayPid, browserPid>>
        /\ manager[b].pc # "dead" /\ manager[b].pc # "busy" /\ commandQueue[b] = <<>>
        /\ \A g \in Nat : AttemptKnown(b, g)
        /\ Intact(b) /\ ~Fault /\ gen[b] \in Nat
    BY ChildEffect, WaitingChild DEF Attempt, Spawning, Fault, BrowserState
  <1>a. ASSUME NEW s \in Status, Put(b, s)
        PROVE  /\ statusQueue'[b] = Append(statusQueue[b], s)
               /\ \A k : InQueue(b, k)' <=> InQueue(b, k) \/ s.kind = k
    <2>1. statusQueue'[b] = Append(statusQueue[b], s)
      BY <1>a DEF Put, BrowserState
    <2> QED
      BY <2>1, QueueGrows
  <1>b. \A l \in BootPC : ManagerAt(b, l) => manager'[b].pc = l
    BY DEF ManagerAt, BrowserState
  <1>1. CASE CreateProfile(b)
    <2>1. [kind |-> "ProfileCreated"] \in Status
      BY DEF Status
    <2>2. \A k : InQueue(b, k)' <=> InQueue(b, k) \/ "ProfileCreated" = k
      BY <1>1, <1>a, <2>1 DEF CreateProfile
    <2>3. manager'[b].pc = "profile" /\ manager[b].pc = "boot"
      BY <1>1, <1>b DEF CreateProfile, BootPC
    <2>4. ASSUME NEW g \in Nat PROVE AttemptKnown(b, g)'
      BY <1>0, <1>1, <2>2, <2>3 DEF CreateProfile, processVars, AttemptKnown
    <2> QED
      BY <2>2, <2>3, <2>4 DEF Attempt, Intact
  <1>2. CASE StartDisplay(b)
    <2>1. [kind |-> "Display"] \in Status
      BY DEF Status
    <2>2. \A k : InQueue(b, k)' <=> InQueue(b, k) \/ "Display" = k
      BY <1>2, <1>a, <2>1 DEF StartDisplay
    <2>3. manager'[b].pc = "display" /\ manager[b].pc = "profile"
      BY <1>2, <1>b DEF StartDisplay, BootPC
    <2>4. ASSUME NEW g \in Nat PROVE AttemptKnown(b, g)'
      BY <1>0, <1>2, <2>2, <2>3 DEF StartDisplay, profileVars, AttemptKnown
    <2>5. Intact(b)'
      BY <1>0, <1>2, <2>3 DEF StartDisplay, Intact
    <2> QED
      BY <2>2, <2>3, <2>4, <2>5 DEF Attempt
  <1>3. CASE StartFirefox(b)
    <2>1. \A k : InQueue(b, k)' <=> InQueue(b, k)
      BY <1>3 DEF StartFirefox, queueVars, InQueue
    <2>2. manager'[b].pc = "firefox" /\ manager[b].pc = "display"
      BY <1>3, <1>b DEF StartFirefox, BootPC
    <2>3. ASSUME NEW g \in Nat PROVE AttemptKnown(b, g)'
      BY <1>0, <1>3, <2>1, <2>2 DEF StartFirefox, profileVars, AttemptKnown
    <2>4. Intact(b)'
      BY <1>0, <1>3, <2>2 DEF StartFirefox, Intact
    <2> QED
      BY <2>1, <2>2, <2>3, <2>4 DEF Attempt
  <1>4. CASE FirefoxLaunched(b)
    <2>1. [kind |-> "BrowserLaunched"] \in Status
      BY DEF Status
    <2>2. \A k : InQueue(b, k)' <=> InQueue(b, k) \/ "BrowserLaunched" = k
      BY <1>4, <1>a, <2>1 DEF FirefoxLaunched
    <2>3. manager'[b].pc = "launched" /\ manager[b].pc = "firefox"
      BY <1>4, <1>b DEF FirefoxLaunched, BootPC
    <2>4. ASSUME NEW g \in Nat PROVE AttemptKnown(b, g)'
      BY <1>0, <1>4, <2>2, <2>3 DEF FirefoxLaunched, processVars, profileVars, AttemptKnown
    <2>5. Intact(b)'
      BY <1>0, <1>4, <2>3 DEF FirefoxLaunched, processVars, Intact
    <2> QED
      BY <2>2, <2>3, <2>4, <2>5 DEF Attempt
  <1>5. CASE Ready(b)
    <2>1. [kind |-> "BrowserReady"] \in Status
      BY DEF Status
    <2>2. \A k : InQueue(b, k)' <=> InQueue(b, k) \/ "BrowserReady" = k
      BY <1>5, <1>a, <2>1 DEF Ready
    <2>3. manager'[b].pc = "loop" /\ manager[b].pc = "launched"
      BY <1>5, <1>b DEF Ready, BootPC
    <2>4. ASSUME NEW g \in Nat PROVE AttemptKnown(b, g)'
      BY <1>0, <1>5, <2>2, <2>3 DEF Ready, processVars, profileVars, AttemptKnown
    <2>5. Intact(b)'
      BY <1>0, <1>5, <2>3 DEF Ready, processVars, Intact
    <2> QED
      BY <2>2, <2>3, <2>4, <2>5, <1>0 DEF Attempt
  <1>6. ~(TakeCommand(b) \/ CommandDone(b) \/ ChildFails(b) \/ ChildCritical(b))
    BY <1>0 DEF TakeCommand, CommandDone, ChildFails, ChildCritical
  <1> QED
    BY <1>1, <1>2, <1>3, <1>4, <1>5, <1>6 DEF ChildStep

LEMMA TidyChild ==
  ASSUME BrowserState, QueueInv, NEW b \in Browser, TidyOf(b), ChildStep(b),
         UNCHANGED managerVars, childFaults = 0, childFaults' = 0
  PROVE  TidyOf(b)'
  <1>0. /\ UNCHANGED <<gen, currentProfile, launch, displayPid, browserPid, main, thread>>
        /\ manager[b].pc # "dead"
    BY ChildEffect, WaitingChild DEF managerVars
  <1>1. ~Killed(b) /\ ~Passed(b)
    BY <1>0 DEF TidyOf, Killed
  <1>2. ~Killed(b)' /\ ~Passed(b)' /\ (Ended(b)' <=> Ended(b))
    BY <1>0, <1>1 DEF Killed, Passed, Ended
  <1>3. CASE launch[b].step = "status"
    <2>1. Attempt(b)'
      BY <1>3, AttemptChild DEF TidyOf, QueueInv, QueueOf, Launching
    <2> QED
      BY <1>0, <1>2, <1>3, <2>1 DEF TidyOf
  <1>4. CASE launch[b].step # "status"
    <2>1. manager[b].pc \in {"loop", "busy"}
      BY <1>0, <1>4 DEF TidyOf
    <2>2. /\ UNCHANGED <<displays, firefoxes, profiles>>
          /\ manager'[b].pc \in {"dead", "loop", "busy"}
      BY <2>1 DEF ChildStep, CreateProfile, StartDisplay, StartFirefox, FirefoxLaunched,
           Ready, TakeCommand, CommandDone, ChildFails, ChildCritical, ManagerAt,
           BrowserState, processVars, profileVars
    <2>3. Known(b)'
      BY <1>0, <1>4, <2>2 DEF TidyOf, Known
    <2> QED
      BY <1>0, <1>2, <1>4, <2>2, <2>3 DEF TidyOf
  <1> QED
    BY <1>3, <1>4

(* A launch: it begins with nothing left, its attempt is known, and when   *)
(* it succeeds every status has been read.                                 *)
LEMMA NotEnded ==
  ASSUME Control, NEW b \in Browser, TidyOf(b), launch[b].step # "none"
  PROVE  ~Ended(b)
  BY DEF Control, TidyOf, Ended, Passed

LEMMA SpawnTidy ==
  ASSUME BrowserState, NEW b \in Browser, TidyOf(b), Spawn(b)
  PROVE  Attempt(b)'
  <1>1. /\ Known(b) /\ NoProcess(b)
        /\ UNCHANGED <<displays, firefoxes, displayPid, browserPid, profiles, currentProfile>>
    BY DEF Spawn, TidyOf, Killed, processVars, pidVars
  <1>2. manager'[b].pc = "boot" /\ statusQueue'[b] = <<>>
    BY DEF Spawn, ManagerAt, BrowserState
  <1>3. \A k : ~InQueue(b, k)'
    BY <1>2 DEF InQueue
  <1>4. ASSUME NEW g \in Nat PROVE AttemptKnown(b, g)'
    BY <1>1 DEF Known, NoProcess, AttemptKnown
  <1> QED
    BY <1>2, <1>3, <1>4 DEF Attempt, Intact

LEMMA LearnTidy ==
  ASSUME BrowserState, NEW b \in Browser, TidyOf(b),
         LearnProfile(b) \/ LearnDisplay(b) \/ LearnBrowser(b)
  PROVE  Attempt(b)' /\ launch'[b].step = "status"
  <1>1. /\ launch[b].step = "status" /\ statusQueue[b] # <<>>
        /\ statusQueue' = [statusQueue EXCEPT ![b] = Tail(@)]
        /\ UNCHANGED <<gen, manager, displays, firefoxes, profiles, currentProfile>>
    BY DEF LearnProfile, LearnDisplay, LearnBrowser, Received, processVars, profileVars
  <1>2. Attempt(b)
    BY <1>1 DEF TidyOf
  <1>3. /\ \A k : InQueue(b, k) => InQueue(b, k)' \/ Head(statusQueue[b]).kind = k
        /\ \A k : InQueue(b, k)' => InQueue(b, k)
    BY <1>1, QueueShrinks
  <1>4. Intact(b)' = Intact(b)
    BY <1>1 DEF Intact
  <1>5. CASE LearnProfile(b)
    <2>1. launch'[b].step = "status" /\ launch'[b].spawned = gen[b]
      BY <1>5, LearnGoesTo DEF BrowserState
    <2>2. ASSUME NEW g \in Nat PROVE AttemptKnown(b, g)'
      BY <1>1, <1>2, <1>3, <1>5, <2>1 DEF LearnProfile, Received, pidVars, Attempt, AttemptKnown
    <2> QED
      BY <1>1, <1>2, <1>3, <1>4, <2>1, <2>2 DEF Attempt
  <1>6. CASE LearnDisplay(b)
    <2>1. displayPid'[b] = gen[b] /\ UNCHANGED <<browserPid, launch>>
      BY <1>6 DEF LearnDisplay, BrowserState
    <2>2. ASSUME NEW g \in Nat PROVE AttemptKnown(b, g)'
      BY <1>1, <1>2, <1>3, <1>6, <2>1 DEF LearnDisplay, Received, Attempt, AttemptKnown
    <2> QED
      BY <1>1, <1>2, <1>3, <1>4, <2>1, <2>2 DEF Attempt
  <1>7. CASE LearnBrowser(b)
    <2>1. browserPid'[b] = gen[b] /\ UNCHANGED <<displayPid, launch>>
      BY <1>7 DEF LearnBrowser, BrowserState
    <2>2. ASSUME NEW g \in Nat PROVE AttemptKnown(b, g)'
      BY <1>1, <1>2, <1>3, <1>7, <2>1 DEF LearnBrowser, Received, Attempt, AttemptKnown
    <2> QED
      BY <1>1, <1>2, <1>3, <1>4, <2>1, <2>2 DEF Attempt
  <1> QED
    BY <1>5, <1>6, <1>7

LEMMA SuccessTidy ==
  ASSUME BrowserState, QueueInv, NEW b \in Browser, TidyOf(b), SpawnSucceeds(b)
  PROVE  Known(b)' /\ manager'[b].pc \in {"dead", "loop"}
  <1>1. /\ launch[b].step = "status" /\ statusQueue[b] # <<>>
        /\ Head(statusQueue[b]).kind = "BrowserReady"
        /\ statusQueue' = [statusQueue EXCEPT ![b] = Tail(@)]
        /\ currentProfile'[b] = launch[b].spawned
        /\ profiles' = profiles \ {<<b, currentProfile[b]>>}
        /\ UNCHANGED <<manager, displays, firefoxes, displayPid, browserPid>>
    BY DEF SpawnSucceeds, Received, processVars, pidVars, BrowserState
  <1>2. Attempt(b) /\ Spawning(b)
    BY <1>1 DEF TidyOf, QueueInv, QueueOf, Launching
  <1>3. 1 \in DOMAIN statusQueue[b] /\ statusQueue[b][1].kind = "BrowserReady"
    BY <1>1, TailStatus
  <1>4. 1 = Len(statusQueue[b]) /\ manager[b].pc \in {"dead", "loop"}
    BY <1>2, <1>3 DEF Spawning
  <1>5. \A i \in DOMAIN statusQueue[b] : i = 1
    BY <1>4 DEF BrowserState
  <1>6. \A k : InQueue(b, k) => k = "BrowserReady"
    BY <1>3, <1>5 DEF InQueue
  <1>7. ASSUME NEW g \in Nat, AttemptKnown(b, g)
        PROVE  /\ <<b, g>> \in displays => g = displayPid[b]
               /\ <<b, g>> \in firefoxes => g = browserPid[b]
               /\ <<b, g>> \in profiles => g = currentProfile[b] \/ g = launch[b].spawned
    <2>1. ~InQueue(b, "Display") /\ ~InQueue(b, "BrowserLaunched") /\ ~InQueue(b, "ProfileCreated")
      BY <1>6
    <2> QED
      BY <1>4, <1>7, <2>1 DEF AttemptKnown
  <1>8. Known(b)'
    BY <1>1, <1>2, <1>7 DEF Attempt, Known
  <1> QED
    BY <1>1, <1>4, <1>8

LEMMA TidyLaunch ==
  ASSUME BrowserState, Control, QueueInv, NEW b \in Browser, TidyOf(b), LaunchStep(b),
         UNCHANGED managerVars, childFaults = 0, childFaults' = 0
  PROVE  TidyOf(b)'
  <1>0. launch \in [Browser -> Activation] /\ ~Fault
    BY DEF BrowserState, Fault
  <1>1. ~Ended(b) /\ UNCHANGED <<main, thread>>
    <2>1. launch[b].step # "none"
      BY LaunchStepEffect DEF LiveStep
    <2> QED
      BY <2>1, NotEnded DEF managerVars
  <1>2. /\ ~Ended(b)' /\ ~Passed(b)'
        /\ Killed(b)' => launch'[b].step \in {"none", "dump", "spawn"}
    BY <1>1 DEF Ended, Passed, Killed
  <1>3. CASE DumpProfile(b) \/ SpawnLimitReached(b)
    <2>1. launch'[b].step \in {"spawn", "raised", "failed"}
      BY <1>0, <1>3, DumpGoesTo, EndGoesTo
    <2>2. /\ launch[b].step \in {"dump", "spawn"}
          /\ UNCHANGED <<manager, displays, firefoxes, displayPid, browserPid, profiles,
                         currentProfile>>
      BY <1>3 DEF DumpProfile, SpawnLimitReached, processVars, pidVars, profileVars
    <2>3. Known(b)' /\ NoProcess(b)' /\ manager'[b].pc = "dead"
      BY <2>2 DEF TidyOf, Killed, Known, NoProcess
    <2> QED
      BY <1>2, <2>1, <2>3 DEF TidyOf
  <1>4. CASE Spawn(b)
    <2>1. launch'[b].step = "status" /\ Attempt(b)'
      BY <1>4, SpawnGoesTo, SpawnTidy
    <2> QED
      BY <1>2, <2>1 DEF TidyOf
  <1>5. CASE LearnProfile(b) \/ LearnDisplay(b) \/ LearnBrowser(b)
    BY <1>2, <1>5, LearnTidy DEF TidyOf
  <1>6. CASE SpawnSucceeds(b)
    <2>1. launch'[b].step = "ok"
      BY <1>0, <1>6, EndGoesTo
    <2>2. Known(b)' /\ manager'[b].pc \in {"dead", "loop"}
      BY <1>6, SuccessTidy
    <2> QED
      BY <1>2, <2>1, <2>2 DEF TidyOf
  <1>7. ~SpawnFails(b) /\ ~SpawnRaises(b)
    <2>1. ASSUME NEW k \in {"FAILED", "CRITICAL"}, Received(b, k) PROVE FALSE
      <3>1. InQueue(b, k)
        BY <2>1, QueueShrinks DEF Received
      <3> QED
        BY <2>1, <3>1 DEF Received, TidyOf, Attempt
    <2> QED
      BY <1>0, <2>1 DEF SpawnFails, SpawnRaises
  <1> QED
    BY <1>3, <1>4, <1>5, <1>6, <1>7 DEF LaunchStep

(* A command thread: a browser that is restarted is killed by what it      *)
(* knows, and nothing else touches its processes.                          *)
LEMMA TidyThread ==
  ASSUME BrowserState, ManagerState, Control, NEW b \in Browser, TidyOf(b), ThreadStep(b)
  PROVE  TidyOf(b)'
  <1>0. launch \in [Browser -> Activation]
    BY DEF BrowserState
  <1>1. /\ ~Ended(b) /\ UNCHANGED main /\ main.pc # "launch"
        /\ thread[b].pc # "launch" => launch[b].step = "none"
    BY ThreadEffect DEF TidyOf, Control
  <1>2. /\ ~Ended(b)' /\ ~Passed(b)'
        /\ Killed(b)' => launch'[b].step \in {"dump", "spawn"}
    BY <1>1 DEF Ended, Passed, Killed
  <1>3. CASE thread[b].pc # "launch" /\ launch'[b] = launch[b]
             /\ UNCHANGED <<manager, processVars, pidVars, profiles, currentProfile>>
    <2>1. Known(b)' /\ manager'[b].pc \in {"dead", "loop", "busy"}
      BY <1>1, <1>3 DEF TidyOf, Known, processVars, pidVars
    <2> QED
      BY <1>1, <1>2, <1>3, <2>1 DEF TidyOf
  <1>4. CASE StartSequence(b) \/ SendCommand(b) \/ SequenceDone(b) \/ CheckLimit(b)
    BY <1>3, <1>4 DEF StartSequence, SendCommand, SequenceDone, CheckLimit, browserVars, profileVars
  <1>5. CASE CommandSucceeded(b) \/ CommandCritical(b) \/ CommandFailed(b)
    BY <1>3, <1>5 DEF CommandSucceeded, CommandCritical, CommandFailed, NoSuccess,
         AnsweredFailed, Answer, profileVars
  <1>6. CASE Restarted(b)
    <2>1. /\ launch[b].step # "status" /\ launch'[b].step = "none"
          /\ UNCHANGED <<manager, processVars, pidVars, profiles, currentProfile>>
      BY <1>0, <1>6, LaunchAtType DEF Restarted, profileVars
    <2>2. Known(b)' /\ manager'[b].pc \in {"dead", "loop", "busy"}
      BY <2>1 DEF TidyOf, Known, processVars, pidVars
    <2> QED
      BY <1>2, <2>1, <2>2 DEF TidyOf
  <1>7. CASE AfterSequence(b)
    <2>0. /\ thread[b].pc = "drain" /\ launch[b].step = "none" /\ UNCHANGED pidVars
          /\ Known(b) /\ manager[b].pc \in {"dead", "loop", "busy"}
      BY <1>1, <1>7 DEF AfterSequence, TidyOf
    <2>1. CASE UNCHANGED <<manager, processVars, profiles, currentProfile, launch>>
      BY <1>3, <2>0, <2>1
    <2>2. CASE LaunchAt(b, "ok") /\ UNCHANGED <<manager, processVars, profiles, currentProfile>>
      <3>1. launch'[b].step = "ok"
        BY <1>0, <2>2, LaunchAtType
      <3>2. Known(b)' /\ manager'[b].pc \in {"dead", "loop", "busy"}
        BY <2>0, <2>2 DEF Known, processVars, pidVars
      <3> QED
        BY <1>2, <3>1, <3>2 DEF TidyOf
    <2>3. CASE /\ Kill(b) /\ Launch(b, currentProfile'[b])
               /\ \/ /\ profiles' = profiles \ {<<b, currentProfile[b]>>}
                     /\ currentProfile' = [currentProfile EXCEPT ![b] = 0]
                  \/ UNCHANGED <<profiles, currentProfile>>
      <3>1. launch'[b].step # "status"
        BY <1>0, <2>3, NewLaunch
      <3>2. NoProcess(b)' /\ manager'[b].pc = "dead"
        BY <2>0, <2>3 DEF Kill, ManagerAt, BrowserState, Known, NoProcess
      <3>3. ASSUME NEW g \in Nat, <<b, g>> \in profiles' PROVE g = currentProfile'[b]
        BY <2>0, <2>3, <3>3 DEF Known
      <3>4. Known(b)'
        BY <3>2, <3>3 DEF Known, NoProcess
      <3> QED
        BY <1>2, <3>1, <3>2, <3>4 DEF TidyOf
    <2> QED
      BY <1>7, <2>1, <2>2, <2>3 DEF AfterSequence, Restart
  <1> QED
    BY <1>4, <1>5, <1>6, <1>7 DEF ThreadStep

(* The first launches.                                                     *)
LEMMA TidyNext ==
  ASSUME BrowserState, NEW b \in Browser, LaunchNext(b), NEW a \in Browser, TidyOf(a)
  PROVE  TidyOf(a)'
  <1>1. /\ launch'[b].step \in {"dump", "spawn"}
        /\ \A c \in Browser \ {b} : launch'[c] = launch[c]
    BY NewLaunch DEF LaunchNext, BrowserState
  <1>2. /\ UNCHANGED <<gen, manager, queueVars, processVars, pidVars, profileVars, main, thread>>
        /\ main.pc = "launch" /\ main.b = b /\ launch[b].step = "none"
    BY DEF LaunchNext, managerVars
  <1>3. Keeps(a) /\ Fewer(a) /\ Spared(a)
    BY <1>1, <1>2 DEF Keeps, Fewer, Spared, queueVars, processVars, pidVars, profileVars
  <1>4. /\ Killed(a)' => Killed(a)
        /\ Passed(a)' => Passed(a)
        /\ Ended(a)' => thread'[a].pc = "dead"
    BY <1>1, <1>2 DEF Killed, Passed, Ended, Browser
  <1> QED
    BY <1>3, <1>4, TidyKeeps

LEMMA ShutdownBegins ==
  ASSUME NEW r, NEW d, Shutdown(r, d)
  PROVE  main'.pc = "join" /\ main'.b = 1
  BY DEF Shutdown

(* Nobody is killed, and the shutdown is through with nobody.              *)
LEMMA TidyMain ==
  ASSUME BrowserState, NEW a \in Browser, TidyOf(a), Keeps(a),
         UNCHANGED <<processVars, profiles>>,
         main'.pc \in {"idle", "distribute", "block"} \/ (main'.pc = "join" /\ main'.b = 1),
         launch'[a].step \in {"dump", "spawn"} => launch'[a] = launch[a]
  PROVE  TidyOf(a)'
  <1>1. /\ Killed(a)' => Killed(a)
        /\ Passed(a)' => Passed(a)
        /\ Ended(a)' => thread'[a].pc = "dead"
    BY DEF Killed, Passed, Ended, Browser
  <1>2. Fewer(a) /\ Spared(a)
    BY DEF Fewer, Spared, processVars
  <1> QED
    BY <1>1, <1>2, TidyKeeps

LEMMA TidyLaunched ==
  ASSUME BrowserState, ManagerState, Control, NEW b \in Browser, Launched(b),
         NEW a \in Browser, TidyOf(a)
  PROVE  TidyOf(a)'
  <1>1. /\ UNCHANGED <<gen, manager, queueVars, processVars, pidVars, profileVars, thread>>
        /\ launch[b].step \in {"ok", "failed", "raised"}
        /\ main.pc = "launch" /\ main.b = b
    BY DEF Launched
  <1>2. /\ launch'[b].step = "none" /\ \A c \in Browser \ {b} : launch'[c] = launch[c]
        /\ \/ launch[b].step = "ok"
           \/ main'.pc = "join" /\ main'.b = 1
    <2>1. launch[b].step # "ok" => main'.pc = "join" /\ main'.b = 1
      BY <1>1, ShutdownBegins DEF Launched
    <2> QED
      BY <2>1, LaunchedEffect
  <1>3. Keeps(a)
    BY <1>1, <1>2 DEF Keeps, queueVars, pidVars, profileVars
  <1>4. CASE main'.pc \in {"idle", "distribute", "block"} \/ (main'.pc = "join" /\ main'.b = 1)
    BY <1>1, <1>2, <1>3, <1>4, TidyMain DEF profileVars
  <1>5. CASE main'.pc = "launch" /\ main'.b = b + 1
    <2>1. /\ Killed(a)' => Killed(a)
          /\ Passed(a)' => Passed(a)
          /\ Ended(a)' => thread'[a].pc = "dead"
      BY <1>1, <1>2, <1>5 DEF Killed, Passed, Ended, Browser
    <2>2. Fewer(a) /\ Spared(a)
      BY <1>1 DEF Fewer, Spared, processVars, profileVars
    <2> QED
      BY <1>3, <2>1, <2>2, TidyKeeps
  <1>6. \/ main'.pc \in {"idle", "distribute", "block"}
        \/ main'.pc = "join" /\ main'.b = 1
        \/ main'.pc = "launch" /\ main'.b = b + 1
    <2>1. \/ launch[b].step = "ok" /\ (main'.pc = "idle" \/ (main'.pc = "launch" /\ main'.b = b + 1))
          \/ main'.pc \in ShutPC
      BY LaunchedEffect
    <2>2. launch[b].step = "ok" => main'.pc \notin ShutPC
      BY <1>1, LaunchedEffect DEF Launched, Control, ShutPC
    <2> QED
      BY <1>2, <2>1, <2>2
  <1> QED
    BY <1>4, <1>5, <1>6

(* The shutdown: the thread of a browser has ended, or the browser is      *)
(* abandoned; then it is killed and its profile removed.                   *)
LEMMA TidyJoin ==
  ASSUME BrowserState, ManagerState, NEW b \in Browser, JoinEnds(b),
         NEW a \in Browser \ abandoned', TidyOf(a)
  PROVE  TidyOf(a)'
  <1>1. /\ UNCHANGED <<browserVars, thread>> /\ main.pc = "join" /\ main.b = b
        /\ main' = [main EXCEPT !.pc = "kill"]
        /\ thread[b].pc = "dead" \/ b \in abandoned'
    BY DEF JoinEnds, JoinOver, ThreadJoined, IsReady, MainAt
  <1>2. main \in Closing
    BY <1>1, MainCases DEF ManagerState
  <1>3. main'.pc = "kill" /\ main'.b = b
    BY <1>1, <1>2 DEF Closing
  <1>4. /\ Killed(a)' => Killed(a)
        /\ Passed(a)' => Passed(a)
        /\ Ended(a)' => thread'[a].pc = "dead"
    BY <1>1, <1>3 DEF Killed, Passed, Ended, TidyOf, browserVars
  <1>5. Keeps(a) /\ Fewer(a) /\ Spared(a)
    BY <1>1 DEF Keeps, Fewer, Spared, browserVars, queueVars, processVars, pidVars, profileVars
  <1> QED
    BY <1>4, <1>5, TidyKeeps

LEMMA TidyKill ==
  ASSUME BrowserState, ManagerState, Control, NEW b \in Browser, KillAtShutdown(b),
         NEW a \in Browser, TidyOf(a)
  PROVE  TidyOf(a)'
  <1>1. /\ Kill(b) /\ UNCHANGED <<gen, queueVars, pidVars, profileVars, launch, thread>>
        /\ main.pc = "kill" /\ main.b = b /\ main' = [main EXCEPT !.pc = "archive"]
    BY DEF KillAtShutdown, MainAt
  <1>2. main \in Closing
    BY <1>1, MainCases DEF ManagerState
  <1>3. main'.pc = "archive" /\ main'.b = b
    BY <1>1, <1>2 DEF Closing
  <1>4. /\ Passed(a)' <=> Passed(a)
        /\ Ended(a)' <=> Ended(a)
        /\ Killed(a)' => Killed(a) \/ a = b
    BY <1>1, <1>3 DEF Killed, Passed, Ended
  <1>5. CASE a # b
    <2>1. /\ manager'[a] = manager[a]
          /\ Same(displays, displays', a) /\ Same(firefoxes, firefoxes', a)
      BY <1>1, <1>5, KillApart
    <2>2. Keeps(a) /\ Fewer(a) /\ Spared(a)
      <3>1. Apart(a)
        BY <1>1, <2>1 DEF Apart, Same, queueVars, pidVars, profileVars
      <3> QED
        BY <3>1, ApartKeeps
    <2>3. Ended(a)' => thread'[a].pc = "dead"
      BY <1>1, <1>4 DEF TidyOf
    <2> QED
      BY <1>4, <1>5, <2>2, <2>3, TidyKeeps
  <1>6. CASE a = b
    <2>1. thread[b].pc = "dead" /\ launch[b].step = "none" /\ Known(b)
      BY <1>1, <1>6 DEF TidyOf, Ended, Control
    <2>2. NoProcess(b)' /\ manager'[b].pc = "dead"
      BY <1>1, <2>1 DEF Kill, ManagerAt, BrowserState, Known, NoProcess
    <2>3. Known(b)' /\ (Passed(b)' => NoProfile(b)')
      BY <1>1, <1>4, <1>6, <2>1, <2>2 DEF Known, NoProcess, profileVars, TidyOf, NoProfile
    <2> QED
      BY <1>1, <1>6, <2>1, <2>2, <2>3 DEF TidyOf
  <1> QED
    BY <1>5, <1>6

LEMMA TidyFinish ==
  ASSUME BrowserState, ManagerState, Control, NEW b \in Browser, FinishBrowser(b),
         NEW a \in Browser, TidyOf(a)
  PROVE  TidyOf(a)'
  <1>1. /\ UNCHANGED <<gen, manager, queueVars, processVars, pidVars, currentProfile, launch, thread>>
        /\ main.pc = "archive" /\ main.b = b
        /\ profiles' \subseteq profiles
    BY DEF FinishBrowser
  <1>2. main \in Closing
    BY <1>1, MainCases DEF ManagerState
  <1>3. Keeps(a) /\ Fewer(a) /\ Spared(a)
    BY <1>1 DEF Keeps, Fewer, Spared, queueVars, processVars, pidVars
  <1>4. CASE ArchiveRaises(b)
    <2>1. main'.pc = "aborted"
      BY <1>4 DEF FinishBrowser
    <2>2. /\ Killed(a)' => Killed(a)
          /\ Passed(a)' => Passed(a)
          /\ Ended(a)' => thread'[a].pc = "dead"
      BY <1>1, <2>1 DEF Killed, Passed, Ended
    <2> QED
      BY <1>3, <2>2, TidyKeeps
  <1>5. CASE ~ArchiveRaises(b)
    <2>1. /\ profiles' = profiles \ {<<b, currentProfile[b]>>}
          /\ \/ b = NumBrowsers /\ main'.pc = "closed"
             \/ main'.pc = "join" /\ main'.b = b + 1
      <3>1. /\ profiles' = profiles \ {<<b, currentProfile[b]>>}
            /\ b = NumBrowsers => main'.pc = "closed"
            /\ b # NumBrowsers =>
                 main' = [main EXCEPT !.pc = "join", !.b = b + 1, !.seen = thread[b + 1]]
        BY <1>5 DEF FinishBrowser
      <3>2. b # NumBrowsers => main'.pc = "join" /\ main'.b = b + 1
        BY <1>2, <3>1 DEF Closing
      <3> QED
        BY <3>1, <3>2
    <2>2. /\ Passed(a)' => a = b \/ Passed(a)
          /\ Ended(a)' => a = b \/ Passed(a)
          /\ Killed(a)' => a = b \/ Killed(a)
      BY <1>1, <2>1, BrowserAssumption DEF Killed, Passed, Ended, Browser
    <2>3. CASE a # b
      <3>1. Passed(a)' => Passed(a)
        BY <2>2, <2>3
      <3>2. Ended(a)' => thread'[a].pc = "dead"
        BY <1>1, <2>2, <2>3 DEF TidyOf, Ended
      <3>3. Killed(a)' => Killed(a)
        BY <2>2, <2>3
      <3> QED
        BY <1>3, <3>1, <3>2, <3>3, TidyKeeps
    <2>4. CASE a = b
      <3>1. /\ thread[b].pc = "dead" /\ Known(b) /\ launch[b].step = "none"
            /\ NoProcess(b) /\ manager[b].pc = "dead"
        BY <1>1, <2>4 DEF TidyOf, Ended, Killed, Control
      <3>2. NoProfile(b)'
        BY <2>1, <3>1 DEF Known, NoProfile
      <3>3. NoProcess(b)'
        BY <1>1, <3>1 DEF NoProcess, processVars
      <3>4. Known(b)'
        BY <3>2, <3>3 DEF Known, NoProcess, NoProfile
      <3> QED
        BY <1>1, <2>4, <3>1, <3>2, <3>3, <3>4 DEF TidyOf
    <2> QED
      BY <2>3, <2>4
  <1> QED
    BY <1>4, <1>5

(* Calls and sequences.                                                    *)
LEMMA CallsGoTo ==
  ASSUME BrowserState, ManagerState,
         \/ Close \/ Unblocked \/ Distributed
         \/ \E s \in CommandSequence, t \in Target, b \in Browser : Execute(s, t, b)
         \/ \E b \in Browser : LookElsewhere(b) \/ CheckFails(b) \/ StartThread(b)
  PROVE  /\ \/ main'.pc \in {"idle", "distribute", "block"}
            \/ main'.pc = "join" /\ main'.b = 1
         /\ UNCHANGED <<browserVars, abandoned>>
  <1>1. CASE Close
    BY <1>1, ShutdownBegins DEF Close, historyVars
  <1>2. CASE Unblocked
    <2>1. CASE failureStatus = "none"
      BY <1>2, <2>1 DEF Unblocked, historyVars
    <2>2. CASE failureStatus # "none"
      <3>1. Shutdown(-1, FALSE)
        BY <1>2, <2>2 DEF Unblocked
      <3>2. main'.pc = "join" /\ main'.b = 1
        BY <3>1, ShutdownBegins
      <3> QED
        BY <1>2, <3>2 DEF Unblocked, historyVars
    <2> QED
      BY <2>1, <2>2
  <1>3. CASE Distributed
    BY <1>3 DEF Distributed, historyVars
  <1>4. ASSUME NEW s \in CommandSequence, NEW t \in Target, NEW b \in Browser, Execute(s, t, b)
        PROVE  main'.pc = "distribute" /\ UNCHANGED <<browserVars, abandoned>>
    BY <1>4 DEF Execute, historyVars
  <1>5. ASSUME NEW b \in Browser, LookElsewhere(b)
        PROVE  main'.pc = "distribute" /\ UNCHANGED <<browserVars, abandoned>>
    BY <1>5, MainCases DEF LookElsewhere, ManagerState, Distributing, historyVars
  <1>6. ASSUME NEW b \in Browser, CheckFails(b)
        PROVE  main'.pc = "join" /\ main'.b = 1 /\ UNCHANGED <<browserVars, abandoned>>
    BY <1>6, ShutdownBegins DEF CheckFails, historyVars
  <1>7. ASSUME NEW b \in Browser, StartThread(b)
        PROVE  main'.pc = "distribute" /\ UNCHANGED <<browserVars, abandoned>>
    <2>1. UNCHANGED abandoned
      BY <1>7 DEF StartThread, StartWithCall, StartWithOwn, StartVisit, historyVars
    <2> QED
      BY <1>7, <2>1, StartThreadEffect
  <1> QED
    BY <1>1, <1>2, <1>3, <1>4, <1>5, <1>6, <1>7

(* The watchdog kills strays, and one of an attempt under way is a fault.  *)
LEMMA TidyStrays ==
  ASSUME BrowserState, KillStrays, childFaults = 0, childFaults' = 0,
         NEW a \in Browser, TidyOf(a)
  PROVE  TidyOf(a)'
  <1>0. ~Fault /\ gen[a] \in Nat
    BY DEF Fault, BrowserState
  <1>1. /\ UNCHANGED <<gen, manager, queueVars, pidVars, profileVars, launch, main, thread>>
    BY DEF KillStrays, managerVars
  <1>2. PICK old \in SUBSET Stray :
          /\ \A p \in old : ~UnderWay(p)
          /\ displays' = {p \in displays : ~(p \in old /\ p[2] # displayPid[p[1]])}
          /\ firefoxes' = {p \in firefoxes : ~(p \in old /\ p[2] # browserPid[p[1]])}
    BY <1>0 DEF KillStrays
  <1>3. launch[a].step = "status" => <<a, gen[a]>> \notin old
    BY <1>2 DEF UnderWay
  <1>4. Keeps(a) /\ Fewer(a) /\ (launch[a].step = "status" => Spared(a))
    BY <1>1, <1>2, <1>3 DEF Keeps, Fewer, Spared, queueVars, pidVars, profileVars
  <1>5. /\ Killed(a)' => Killed(a)
        /\ Passed(a)' => Passed(a)
        /\ Ended(a)' => thread'[a].pc = "dead"
    BY <1>1 DEF Killed, Passed, Ended, TidyOf
  <1> QED
    BY <1>4, <1>5, TidyKeeps

LEMMA TidyStep ==
  ASSUME CrawlInv, TidyInv, [Next]_vars
  PROVE  TidyInv'
  <1> SUFFICES ASSUME childFaults' = 0, NEW a \in Browser, a \notin abandoned'
               PROVE  TidyOf(a)'
    BY DEF TidyInv
  <1>0. /\ BrowserState /\ ManagerState /\ Control /\ QueueInv
        /\ childFaults = 0
    BY FaultsStay DEF CrawlInv
  <1>a. a \notin abandoned => TidyOf(a)
    BY <1>0 DEF TidyInv
  <1>1. ASSUME NEW b \in Browser, BrowserStep(b) PROVE TidyOf(a)'
    <2>1. UNCHANGED managerVars /\ UNCHANGED <<main, thread, abandoned>>
      BY <1>1 DEF BrowserStep, managerVars, historyVars
    <2>2. TidyOf(a)
      BY <1>a, <2>1
    <2>3. CASE a # b
      <3>1. Apart(a)
        BY <1>0, <1>1, <2>3, ChildApart, LaunchApart DEF BrowserStep
      <3> QED
        BY <1>0, <2>1, <2>2, <3>1, TidyApart
    <2>4. CASE a = b
      BY <1>0, <1>1, <2>1, <2>2, <2>4, TidyChild, TidyLaunch DEF BrowserStep
    <2> QED
      BY <2>3, <2>4
  <1>2. ASSUME NEW b \in Browser, ThreadStep(b) PROVE TidyOf(a)'
    <2>1. UNCHANGED abandoned
      BY <1>2 DEF ThreadStep, StartSequence, SendCommand, SequenceDone, CommandSucceeded,
           CommandCritical, CommandFailed, CheckLimit, AfterSequence, Restarted, historyVars
    <2>2. TidyOf(a)
      BY <1>a, <2>1
    <2>3. CASE a # b
      <3>1. Apart(a) /\ UNCHANGED main /\ thread'[a] = thread[a]
        BY <1>0, <1>2, <2>3, ThreadApart, ThreadEffect
      <3> QED
        BY <1>0, <2>2, <3>1, TidyApart
    <2>4. CASE a = b
      BY <1>0, <1>2, <2>2, <2>4, TidyThread
    <2> QED
      BY <2>3, <2>4
  <1>3. ASSUME NEW b \in Browser, LaunchNext(b) PROVE TidyOf(a)'
    <2>1. UNCHANGED abandoned
      BY <1>3 DEF LaunchNext, managerVars, historyVars
    <2> QED
      BY <1>0, <1>a, <1>3, <2>1, TidyNext
  <1>4. ASSUME NEW b \in Browser, Launched(b) PROVE TidyOf(a)'
    <2>1. UNCHANGED abandoned
      BY <1>4 DEF Launched, historyVars
    <2> QED
      BY <1>0, <1>a, <1>4, <2>1, TidyLaunched
  <1>5. ASSUME NEW b \in Browser, JoinEnds(b) PROVE TidyOf(a)'
    <2>1. abandoned \subseteq abandoned'
      BY <1>5 DEF JoinEnds, JoinOver, ThreadJoined
    <2> QED
      BY <1>0, <1>a, <1>5, <2>1, TidyJoin
  <1>6. ASSUME NEW b \in Browser, KillAtShutdown(b) \/ FinishBrowser(b) PROVE TidyOf(a)'
    <2>1. UNCHANGED abandoned
      BY <1>6 DEF KillAtShutdown, FinishBrowser, historyVars
    <2> QED
      BY <1>0, <1>a, <1>6, <2>1, TidyKill, TidyFinish
  <1>7. CASE \/ Close \/ Unblocked \/ Distributed
             \/ \E s \in CommandSequence, t \in Target, b \in Browser : Execute(s, t, b)
             \/ \E b \in Browser : LookElsewhere(b) \/ CheckFails(b) \/ StartThread(b)
    <2>1. /\ \/ main'.pc \in {"idle", "distribute", "block"}
             \/ main'.pc = "join" /\ main'.b = 1
          /\ UNCHANGED <<browserVars, abandoned>>
      BY <1>0, <1>7, CallsGoTo
    <2>2. Keeps(a) /\ UNCHANGED <<processVars, profiles, launch>>
      BY <2>1 DEF Keeps, browserVars, queueVars, processVars, pidVars, profileVars
    <2> QED
      BY <1>0, <1>a, <2>1, <2>2, TidyMain
  <1>8. CASE KillStrays
    <2>1. UNCHANGED abandoned
      BY <1>8 DEF KillStrays, managerVars, historyVars
    <2> QED
      BY <1>0, <1>a, <1>8, <2>1, TidyStrays
  <1>9. CASE (\E b \in Browser : MemoryAlarm(b)) \/ UNCHANGED vars
    <2>1. UNCHANGED <<browserVars, main, thread, abandoned>>
      BY <1>9 DEF MemoryAlarm, vars, managerVars, historyVars
    <2>2. Apart(a)
      BY <2>1 DEF Apart, Same, browserVars, queueVars, processVars, pidVars, profileVars
    <2> QED
      BY <1>0, <1>a, <2>1, <2>2, TidyApart
  <1> QED
    BY <1>1, <1>2, <1>3, <1>4, <1>5, <1>6, <1>7, <1>8, <1>9
    DEF Next, MainStep, DistributeStep, ShutdownStep

LEMMA TidyInit == Init => TidyInv
  <1> SUFFICES ASSUME Init, NEW b \in Browser PROVE TidyOf(b)
    BY DEF TidyInv
  <1>1. /\ displays = {} /\ firefoxes = {} /\ profiles = {} /\ main.pc = "launch"
        /\ launch[b].step = "none" /\ manager[b].pc = "dead"
    BY DEF Init, BrowserInit, NotLaunching
  <1> QED
    BY <1>1 DEF TidyOf, Known, Ended, Passed, NoProcess

(* When no child failed or was too slow, a shutdown that ends has killed   *)
(* every child, display and Firefox and removed every profile, of all      *)
(* browsers whose thread ended within its join, for any number of browsers *)
(* and sequences, any limits and any order of the steps (TaskManager.py,   *)
(* _shutdown_manager; BrowserManager.py, kill_browser_manager).            *)
THEOREM ShutdownIsClean == Spec => []NothingLeftBehind
  <1>1. Init => CrawlInv /\ TidyInv
    BY CrawlInit, TidyInit
  <1>2. CrawlInv /\ TidyInv /\ [Next]_vars => CrawlInv' /\ TidyInv'
    BY CrawlStep, TidyStep
  <1>3. CrawlInv /\ TidyInv => NothingLeftBehind
    <2> SUFFICES ASSUME CrawlInv, TidyInv, main.pc = "closed", childFaults = 0,
                        NEW b \in Browser \ abandoned
                 PROVE  ~Running(b) /\ \A p \in profiles : p[1] # b
      BY DEF NothingLeftBehind
    <2>1. manager[b].pc = "dead" /\ NoProcess(b) /\ NoProfile(b)
      BY DEF TidyInv, TidyOf, Killed, Passed
    <2>2. \A p \in displays \cup firefoxes \cup profiles : p[2] \in Nat /\ p = <<p[1], p[2]>>
      BY DEF CrawlInv, BrowserState
    <2> QED
      BY <2>1, <2>2 DEF Running, NoProcess, NoProfile
  <1> QED
    BY <1>1, <1>2, <1>3, PTL DEF Spec
=============================================================================
