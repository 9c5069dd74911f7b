------------------------------- MODULE Browser -------------------------------
(***************************************************************************)
(* One browser of a crawl (BrowserManager.py): the object Browser, whose   *)
(* methods launch, restart and kill, and the child process BrowserManager  *)
(* it controls through two queues.  The child starts a virtual display and *)
(* Firefox, which outlive it when it is killed; the object kills them by   *)
(* the pids it was told.                                                   *)
(*                                                                         *)
(* A spawn attempt has a number, gen[b]; it names the child, the display,  *)
(* the Firefox and the profile directory of that attempt, and stands for   *)
(* their pids and paths.  Of the seven statuses of a launch the four that  *)
(* carry something are modelled.  A child may be slow for ever.            *)
(***************************************************************************)
EXTENDS Integers, Sequences, FiniteSets

CONSTANTS
  NumBrowsers,   \* manager_params['num_browsers']
  SpawnLimit,    \* _UNSUCCESSFUL_SPAWN_LIMIT (4 in the code)
  MaxFaults      \* bound: failures and time-outs of children

Browser == 1 .. NumBrowsers

ASSUME BrowserAssumption ==
  NumBrowsers \in Nat \ {0} /\ SpawnLimit \in Nat \ {0} /\ MaxFaults \in Nat

VARIABLES
  gen,            \* spawn attempts so far
  manager,        \* the last child: where it is, and the command it executes
  commandQueue,   \* commands for it
  statusQueue,    \* its answers
  displays,       \* running Xvfb processes <<b, g>>
  firefoxes,      \* running Firefox processes <<b, g>>
  profiles,       \* profile directories on disk <<b, g>>
  displayPid,     \* display_pid, 0 for None
  browserPid,     \* browser_pid, 0 for None
  currentProfile, \* current_profile_path, 0 for None
  isFresh,        \* is_fresh
  launch,         \* the activation of launch_browser_manager
  childFaults     \* bounded by MaxFaults

queueVars   == <<commandQueue, statusQueue>>
processVars == <<displays, firefoxes>>
pidVars     == <<displayPid, browserPid>>
profileVars == <<profiles, currentProfile, isFresh>>
browserVars == <<gen, manager, queueVars, processVars, pidVars, profileVars,
                 launch, childFaults>>

NotLaunching == [step |-> "none"]

Fault == childFaults < MaxFaults /\ childFaults' = childFaults + 1

(* The child puts status s and goes to l.                                  *)
Put(b, s) == statusQueue' = [statusQueue EXCEPT ![b] = Append(@, s)]
ManagerAt(b, l) == manager' = [manager EXCEPT ![b] = [pc |-> l]]

-----------------------------------------------------------------------------
(* The child process BrowserManager *)

(* deploy_firefox creates a profile ...                                    *)
CreateProfile(b) ==
  /\ manager[b].pc = "boot"
  /\ profiles' = profiles \cup {<<b, gen[b]>>}
  /\ Put(b, [kind |-> "ProfileCreated"]) /\ ManagerAt(b, "profile")
  /\ UNCHANGED <<gen, commandQueue, processVars, pidVars, currentProfile, isFresh,
                 launch, childFaults>>

(* ... starts a display ...                                                *)
StartDisplay(b) ==
  /\ manager[b].pc = "profile"
  /\ displays' = displays \cup {<<b, gen[b]>>}
  /\ Put(b, [kind |-> "Display"]) /\ ManagerAt(b, "display")
  /\ UNCHANGED <<gen, commandQueue, firefoxes, pidVars, profileVars, launch, childFaults>>

(* The processes the child has started are still there.                    *)
Intact(b) ==
  /\ manager[b].pc \notin {"boot", "profile"} => <<b, gen[b]>> \in displays
  /\ manager[b].pc \notin {"boot", "profile", "display"} => <<b, gen[b]>> \in firefoxes

(* ... and Firefox, whose pid it tells only once the driver is connected.  *)
StartFirefox(b) ==
  /\ manager[b].pc = "display" /\ Intact(b)
  /\ firefoxes' = firefoxes \cup {<<b, gen[b]>>}
  /\ ManagerAt(b, "firefox")
  /\ UNCHANGED <<gen, queueVars, displays, pidVars, profileVars, launch, childFaults>>

FirefoxLaunched(b) ==
  /\ manager[b].pc = "firefox" /\ Intact(b)
  /\ Put(b, [kind |-> "BrowserLaunched"]) /\ ManagerAt(b, "launched")
  /\ UNCHANGED <<gen, commandQueue, processVars, pidVars, profileVars, launch, childFaults>>

(* The extension has written its port; from now on it takes commands.      *)
Ready(b) ==
  /\ manager[b].pc = "launched"
  /\ Put(b, [kind |-> "BrowserReady"]) /\ ManagerAt(b, "loop")
  /\ UNCHANGED <<gen, commandQueue, processVars, pidVars, profileVars, launch, childFaults>>

TakeCommand(b) ==
  /\ manager[b].pc = "loop" /\ commandQueue[b] # <<>>
  /\ manager' = [manager EXCEPT ![b] = [pc |-> "busy", command |-> Head(commandQueue[b])]]
  /\ commandQueue' = [commandQueue EXCEPT ![b] = Tail(@)]
  /\ UNCHANGED <<gen, statusQueue, processVars, pidVars, profileVars, launch, childFaults>>

CommandDone(b) ==
  /\ manager[b].pc = "busy" /\ Intact(b)
  /\ Put(b, [kind |-> "OK", command |-> manager[b].command]) /\ ManagerAt(b, "loop")
  /\ UNCHANGED <<gen, commandQueue, processVars, pidVars, profileVars, launch, childFaults>>

(* An exception anywhere ends the child: it is critical when a profile     *)
(* cannot be loaded, a configuration is wrong or a command asserts.        *)
ChildFails(b) ==
  /\ manager[b].pc \notin {"dead", "loop"}
  /\ IF Intact(b) THEN Fault ELSE UNCHANGED childFaults
  /\ Put(b, [kind |-> "FAILED"]) /\ ManagerAt(b, "dead")
  /\ UNCHANGED <<gen, commandQueue, processVars, pidVars, profileVars, launch>>

ChildCritical(b) ==
  /\ manager[b].pc \in {"boot", "profile", "display", "busy"} /\ Fault
  /\ Put(b, [kind |-> "CRITICAL"]) /\ ManagerAt(b, "dead")
  /\ UNCHANGED <<gen, commandQueue, processVars, pidVars, profileVars, launch>>

ChildStep(b) ==
  \/ CreateProfile(b) \/ StartDisplay(b) \/ StartFirefox(b) \/ FirefoxLaunched(b)
  \/ Ready(b) \/ TakeCommand(b) \/ CommandDone(b)
  \/ ChildFails(b) \/ ChildCritical(b)

-----------------------------------------------------------------------------
(* A mutant: the display is forgotten.                                     *)
KillKeepsDisplay(b) ==
  /\ ManagerAt(b, "dead")
  /\ firefoxes' = firefoxes \ {<<b, browserPid[b]>>}
  /\ UNCHANGED displays

(* kill_browser_manager: the child, and the display and browser whose pids *)
(* are known.                                                              *)
Kill(b) ==
  /\ ManagerAt(b, "dead")
  /\ displays' = displays \ {<<b, displayPid[b]>>}
  /\ firefoxes' = firefoxes \ {<<b, browserPid[b]>>}

-----------------------------------------------------------------------------
(* launch_browser_manager.  launch[b] is its activation: the statement it  *)
(* is at, the unsuccessful spawns and the profile of the current spawn     *)
(* (0: not created).                                                       *)

Launch(b, p) ==
  launch' = [launch EXCEPT ![b] =
    [step |-> IF p # 0 THEN "dump" ELSE "spawn", failures |-> 0, spawned |-> 0]]

LaunchAt(b, l) == launch' = [launch EXCEPT ![b] = [step |-> l]]

(* The profile of a browser that crashed is saved, for the new one to      *)
(* load; a profile that is gone is an exception.                           *)
DumpProfile(b) ==
  /\ launch[b].step = "dump"
  /\ IF <<b, currentProfile[b]>> \in profiles
     THEN launch' = [launch EXCEPT ![b].step = "spawn"]
     ELSE LaunchAt(b, "raised")
  /\ UNCHANGED <<gen, manager, queueVars, processVars, pidVars, profileVars, childFaults>>

(* A mutant: no limit of spawn attempts.                                   *)
SpawnUnlimited(b) ==
  /\ launch[b].step = "spawn"
  /\ gen' = [gen EXCEPT ![b] = @ + 1]
  /\ commandQueue' = [commandQueue EXCEPT ![b] = <<>>]
  /\ statusQueue' = [statusQueue EXCEPT ![b] = <<>>]
  /\ ManagerAt(b, "boot")
  /\ isFresh' = [isFresh EXCEPT ![b] = currentProfile[b] = 0]
  /\ launch' = [launch EXCEPT ![b].step = "status", ![b].spawned = 0]
  /\ UNCHANGED <<processVars, pidVars, profiles, currentProfile, childFaults>>

(* A spawn attempt: new queues, a new child.                               *)
Spawn(b) ==
  /\ launch[b].step = "spawn" /\ launch[b].failures < SpawnLimit
  /\ gen' = [gen EXCEPT ![b] = @ + 1]
  /\ commandQueue' = [commandQueue EXCEPT ![b] = <<>>]
  /\ statusQueue' = [statusQueue EXCEPT ![b] = <<>>]
  /\ ManagerAt(b, "boot")
  /\ isFresh' = [isFresh EXCEPT ![b] = currentProfile[b] = 0]
  /\ launch' = [launch EXCEPT ![b].step = "status", ![b].spawned = 0]
  /\ UNCHANGED <<processVars, pidVars, profiles, currentProfile, childFaults>>

SpawnLimitReached(b) ==
  /\ launch[b].step = "spawn" /\ launch[b].failures = SpawnLimit
  /\ LaunchAt(b, "failed")
  /\ UNCHANGED <<gen, manager, queueVars, processVars, pidVars, profileVars, childFaults>>

(* check_queue, once for each status.                                      *)
Received(b, k) ==
  /\ launch[b].step = "status" /\ statusQueue[b] # <<>>
  /\ Head(statusQueue[b]).kind = k
  /\ statusQueue' = [statusQueue EXCEPT ![b] = Tail(@)]

LearnProfile(b) ==
  /\ Received(b, "ProfileCreated")
  /\ launch' = [launch EXCEPT ![b].spawned = gen[b]]
  /\ UNCHANGED <<gen, manager, commandQueue, processVars, pidVars, profileVars, childFaults>>

LearnDisplay(b) ==
  /\ Received(b, "Display")
  /\ displayPid' = [displayPid EXCEPT ![b] = gen[b]]
  /\ UNCHANGED <<gen, manager, commandQueue, processVars, browserPid, profileVars,
                 launch, childFaults>>

LearnBrowser(b) ==
  /\ Received(b, "BrowserLaunched")
  /\ browserPid' = [browserPid EXCEPT ![b] = gen[b]]
  /\ UNCHANGED <<gen, manager, commandQueue, processVars, displayPid, profileVars,
                 launch, childFaults>>

(* Success: the new profile takes the place of the previous one.           *)
SpawnSucceeds(b) ==
  /\ Received(b, "BrowserReady")
  /\ currentProfile' = [currentProfile EXCEPT ![b] = launch[b].spawned]
  /\ profiles' = profiles \ {<<b, currentProfile[b]>>}
  /\ LaunchAt(b, "ok")
  /\ UNCHANGED <<gen, manager, commandQueue, processVars, pidVars, isFresh, childFaults>>

(* A mutant: the profile that is removed is the one to recover.            *)
SpawnFailsDropsProfile(b) ==
  /\ \/ Received(b, "FAILED") /\ UNCHANGED childFaults
     \/ launch[b].step = "status" /\ statusQueue[b] = <<>> /\ Fault /\ UNCHANGED statusQueue
  /\ Kill(b)
  /\ profiles' = profiles \ {<<b, launch[b].spawned>>, <<b, currentProfile[b]>>}
  /\ launch' = [launch EXCEPT ![b].step = "spawn", ![b].failures = @ + 1]
  /\ UNCHANGED <<gen, commandQueue, pidVars, currentProfile, isFresh>>

(* The child failed, or did not answer within _SPAWN_TIMEOUT: it is killed *)
(* and the profile it created is removed.                                  *)
SpawnFails(b) ==
  /\ \/ Received(b, "FAILED") /\ UNCHANGED childFaults
     \/ launch[b].step = "status" /\ statusQueue[b] = <<>> /\ Fault /\ UNCHANGED statusQueue
  /\ Kill(b)
  /\ profiles' = profiles \ {<<b, launch[b].spawned>>}
  /\ launch' = [launch EXCEPT ![b].step = "spawn", ![b].failures = @ + 1]
  /\ UNCHANGED <<gen, commandQueue, pidVars, currentProfile, isFresh>>

(* A critical status is raised to the caller; nothing is cleaned up.       *)
SpawnRaises(b) ==
  /\ Received(b, "CRITICAL")
  /\ LaunchAt(b, "raised")
  /\ UNCHANGED <<gen, manager, commandQueue, processVars, pidVars, profileVars, childFaults>>

LaunchStep(b) ==
  \/ DumpProfile(b) \/ Spawn(b) \/ SpawnLimitReached(b)
  \/ LearnProfile(b) \/ LearnDisplay(b) \/ LearnBrowser(b)
  \/ SpawnSucceeds(b) \/ SpawnFails(b) \/ SpawnRaises(b)

-----------------------------------------------------------------------------
(* restart_browser_manager: kill, forget the profile if asked to, launch.  *)
Restart(b, clear) ==
  IF isFresh[b]
  THEN LaunchAt(b, "ok") /\ UNCHANGED <<manager, processVars, profiles, currentProfile>>
  ELSE /\ Kill(b)
       /\ IF clear
          THEN /\ profiles' = profiles \ {<<b, currentProfile[b]>>}
               /\ currentProfile' = [currentProfile EXCEPT ![b] = 0]
          ELSE UNCHANGED <<profiles, currentProfile>>
       /\ Launch(b, currentProfile'[b])

BrowserInit ==
  /\ gen = [b \in Browser |-> 0]
  /\ manager = [b \in Browser |-> [pc |-> "dead"]]
  /\ commandQueue = [b \in Browser |-> <<>>]
  /\ statusQueue = [b \in Browser |-> <<>>]
  /\ displays = {} /\ firefoxes = {} /\ profiles = {}
  /\ displayPid = [b \in Browser |-> 0]
  /\ browserPid = [b \in Browser |-> 0]
  /\ currentProfile = [b \in Browser |-> 0]
  /\ isFresh = [b \in Browser |-> TRUE]
  /\ launch = [b \in Browser |-> NotLaunching]
  /\ childFaults = 0

Command == [visit : Nat, n : Nat \ {0}]

BrowserTypeOK ==
  /\ gen \in [Browser -> Nat]
  /\ manager \in [Browser ->
       [pc : {"dead", "boot", "profile", "display", "firefox", "launched", "loop"}]
       \cup [pc : {"busy"}, command : Command]]
  /\ commandQueue \in [Browser -> Seq(Command)]
  /\ \A b \in Browser : \A i \in DOMAIN statusQueue[b] :
       \/ statusQueue[b][i] \in [kind : {"OK"}, command : Command]
       \/ statusQueue[b][i] \in
            [kind : {"ProfileCreated", "Display", "BrowserLaunched", "BrowserReady",
                     "FAILED", "CRITICAL"}]
  /\ displays \subseteq Browser \X Nat
  /\ firefoxes \subseteq Browser \X Nat
  /\ profiles \subseteq Browser \X Nat
  /\ displayPid \in [Browser -> Nat]
  /\ browserPid \in [Browser -> Nat]
  /\ currentProfile \in [Browser -> Nat]
  /\ isFresh \in [Browser -> BOOLEAN]
  /\ \A b \in Browser :
       \/ launch[b].step \in {"none", "ok", "failed", "raised"}
       \/ /\ launch[b].step \in {"dump", "spawn", "status"}
          /\ launch[b].failures \in 0 .. SpawnLimit
          /\ launch[b].spawned \in 0 .. gen[b]
  /\ childFaults \in 0 .. MaxFaults
=============================================================================
