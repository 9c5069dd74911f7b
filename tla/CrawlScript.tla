----------------------------- MODULE CrawlScript -----------------------------
(***************************************************************************)
(* The crawl scripts.  crawl_click, crawl_tag and crawl_tag_screenshots    *)
(* take their sites in batches: the index of the last site is kept in a    *)
(* file, and control files tell whoever starts the script again and        *)
(* reboots the machine how it ended.  The scripts for sign-ups and the     *)
(* demos take all sites at once.                                           *)
(***************************************************************************)
EXTENDS Naturals, FiniteSets, PythonNone

CONSTANTS
  Scripts,           \* the scripts that are run
  TOTAL_NUM_SITES, NUM_BATCH, NUM_BROWSERS,
  NoSite,            \* lines of the list of mailing lists without a site
  MaxCrashes,        \* bound: kills and reboots
  MaxErrors          \* bound: exceptions of the TaskManager and browsers that do not spawn

ASSUME CrawlScriptAssumption ==
  {TOTAL_NUM_SITES, NUM_BATCH, NUM_BROWSERS, MaxCrashes, MaxErrors} \subseteq Nat

VARIABLES
  script,           \* the script that is run
  step,             \* where it is; "off" and "ended" when it does not run
  index_file,       \* current_site_index: None, or a sequence of what it holds
  control,          \* the control files
  i, end_index,     \* the loop
  http_server,      \* a process listens on the port of the pages
  leftovers,        \* /tmp has profiles of browsers that were never closed
  closed,           \* the TaskManager closed itself when a browser did not spawn
  visiting,         \* sites whose command sequence is being executed
  handed,           \* history: how often a site was handed over
  executed,         \* history: sites whose sequence ended, at its last or at a failed command
  refused,          \* history: sites that were handed to a closed TaskManager
  interrupted,      \* history: kills and shutdowns that cut sequences off
  spawn_failures,   \* history: TaskManagers that closed themselves
  crashes, errors   \* bounded by MaxCrashes; with spawn_failures, by MaxErrors

files      == <<index_file, control>>
loop       == <<i, end_index>>
machine    == <<http_server, leftovers>>
progress   == <<closed, visiting, handed, executed, refused, interrupted>>
bounds     == <<spawn_failures, crashes, errors>>
scriptVars == <<script, step, files, loop, machine, progress, bounds>>

Sites == 0 .. TOTAL_NUM_SITES - 1

CrawlScriptInit ==
  /\ script \in Scripts /\ step = "off"
  /\ index_file = None /\ control = {} /\ i = 0 /\ end_index = 0
  /\ http_server = FALSE /\ leftovers = FALSE /\ closed = FALSE /\ visiting = {}
  /\ handed = [s \in Sites |-> 0] /\ executed = {} /\ refused = {} /\ interrupted = 0
  /\ spawn_failures = 0 /\ crashes = 0 /\ errors = 0

InBatches  == script \in {"crawl_click", "crawl_tag_screenshots"}
ServesMail == script \in {"crawl_tag", "crawl_tag_screenshots"}

(* Whoever starts the scripts does so until the crawl is done.             *)
Start ==
  /\ step = "off" /\ "crawl_done" \notin control
  /\ step' = IF ServesMail THEN "serve" ELSE "load"
  /\ UNCHANGED <<script, files, loop, machine, progress, bounds>>

(* A server that an earlier script left behind still has the port.         *)
StartServer ==
  /\ step = "serve"
  /\ step' = IF http_server THEN "off" ELSE "load"
  /\ http_server' = TRUE
  /\ UNCHANGED <<script, files, loop, leftovers, progress, bounds>>

(* crawl_tag calls grab_mail_urls without the port: it raises.             *)
GrabMailUrlsRaises ==
  /\ step = "load" /\ script = "crawl_tag"
  /\ step' = "ended" /\ http_server' = FALSE
  /\ UNCHANGED <<script, files, loop, leftovers, progress, bounds>>

FirstSiteSkips == IF index_file = None THEN 0 ELSE index_file[1] + 2

(* The batch after the last site of the last one; int('') raises.          *)
FirstSite == IF index_file = None THEN 0 ELSE index_file[1] + 1

ManageControlFiles ==
  /\ step = "load" /\ InBatches
  /\ control' = control \ {"reboot"}
  /\ IF index_file = <<>>
     THEN step' = "off" /\ http_server' = FALSE /\ UNCHANGED loop
     ELSE /\ i' = FirstSite
          /\ end_index' = IF index_file = None THEN NUM_BATCH + 1 ELSE i' + NUM_BATCH
          /\ step' = "launch" /\ UNCHANGED http_server
  /\ UNCHANGED <<script, index_file, leftovers, progress, bounds>>

LoadSites ==
  /\ step = "load" /\ ~InBatches /\ script # "crawl_tag"
  /\ i' = 0 /\ end_index' = TOTAL_NUM_SITES /\ step' = "launch"
  /\ UNCHANGED <<script, files, machine, progress, bounds>>

MayFail == errors + spawn_failures < MaxErrors

(* The constructor of the TaskManager launches the browsers.               *)
LaunchBrowsers ==
  /\ step = "launch"
  /\ step' = "loop" /\ closed' = FALSE
  /\ UNCHANGED <<script, files, loop, machine, visiting, handed, executed, refused,
                 interrupted, bounds>>

(* A browser that does not spawn makes it close itself, and it returns.    *)
BrowserSpawnFails ==
  /\ step = "launch" /\ MayFail
  /\ spawn_failures' = spawn_failures + 1
  /\ step' = "loop" /\ closed' = TRUE
  /\ UNCHANGED <<script, files, loop, machine, visiting, handed, executed, refused,
                 interrupted, crashes, errors>>

(* No script catches what the launch of a browser raises.  The server ends *)
(* with the script; a profile of the browser may be left.                  *)
Dead == IF InBatches THEN "off" ELSE "ended"
LaunchRaises ==
  /\ step = "launch" /\ MayFail
  /\ errors' = errors + 1
  /\ step' = Dead
  /\ http_server' = FALSE /\ leftovers' \in {leftovers, TRUE}
  /\ UNCHANGED <<script, files, loop, progress, spawn_failures, crashes>>
-----------------------------------------------------------------------------
More == i < end_index /\ i < TOTAL_NUM_SITES

(* execute_command_sequence waits for a browser, not for the sequence.  A  *)
(* closed TaskManager only logs that it is closed, and returns.            *)
HandOver ==
  /\ Cardinality(visiting) < NUM_BROWSERS
  /\ handed' = [handed EXCEPT ![i] = @ + 1]
  /\ IF closed
     THEN refused' = refused \cup {i} /\ UNCHANGED visiting
     ELSE visiting' = visiting \cup {i} /\ UNCHANGED refused
  /\ UNCHANGED <<closed, executed, interrupted>>

NextSite == i' = i + 1 /\ UNCHANGED <<step, end_index>>

BatchLoop == InBatches /\ HandOver /\ step' = "open" /\ UNCHANGED loop

SignupLoop == script = "crawl_signup" /\ HandOver /\ NextSite

DemoLoop == script = "demo" /\ HandOver /\ NextSite

(* All browsers at once, when all are free.                                *)
SynchronizedDemoLoop ==
  script = "demo_mailinglists" /\ visiting = {} /\ HandOver /\ NextSite

(* A line without a comma has no site.                                     *)
get_site == IF i \in NoSite THEN None ELSE i

crawl_site == HandOver

MailinglistLoop ==
  /\ script = "crawl_mailinglist_signup"
  /\ IF get_site = None THEN UNCHANGED progress ELSE crawl_site
  /\ NextSite

ExecuteSequence ==
  /\ step = "loop" /\ More
  /\ BatchLoop \/ SignupLoop \/ DemoLoop \/ SynchronizedDemoLoop \/ MailinglistLoop
  /\ UNCHANGED <<script, files, machine, bounds>>

(* At its last command, or at one that fails or times out.                 *)
SequenceEnds(s) ==
  /\ s \in visiting
  /\ visiting' = visiting \ {s} /\ executed' = executed \cup {s}
  /\ UNCHANGED <<script, step, files, loop, machine, closed, handed, refused, interrupted, bounds>>

(* The browsers are killed, whatever they execute.                         *)
CutOff ==
  /\ visiting' = {}
  /\ interrupted' = IF visiting = {} THEN interrupted ELSE interrupted + 1
  /\ UNCHANGED <<closed, handed, executed, refused>>

(* Opening the file empties it; the index is there when it is closed.      *)
OpenIndex ==
  /\ step = "open"
  /\ index_file' = <<>> /\ step' = "write"
  /\ UNCHANGED <<script, control, loop, machine, progress, bounds>>

WriteIndex ==
  /\ step = "write"
  /\ index_file' = <<i>> /\ i' = i + 1 /\ step' = "loop"
  /\ UNCHANGED <<script, control, end_index, machine, progress, bounds>>

(* An earlier sequence exceeded a limit: the script leaves word, closes... *)
ExecuteRaises ==
  /\ step = "loop" /\ More /\ InBatches /\ ~closed /\ MayFail
  /\ errors' = errors + 1
  /\ control' = control \cup {"stop"}
  /\ step' = "close"
  /\ UNCHANGED <<script, index_file, loop, machine, progress, spawn_failures, crashes>>

(* ... unless it does not catch the exception, as none does that of a      *)
(* child.  The TaskManager has shut its browsers down before it raised.    *)
ScriptRaises ==
  /\ step = "loop" /\ More /\ ~closed /\ MayFail
  /\ errors' = errors + 1
  /\ CutOff /\ step' = Dead /\ http_server' = FALSE
  /\ UNCHANGED <<script, files, loop, leftovers, spawn_failures, crashes>>

LoopDone ==
  /\ step = "loop" /\ ~More
  /\ step' = "close"
  /\ UNCHANGED <<script, files, loop, machine, progress, bounds>>

(* close() joins the threads that execute sequences, each for a time, and  *)
(* kills the browsers; the server is stopped and, when the crawl is in     *)
(* batches, /tmp is cleared.                                               *)
clear_tmp_folder == leftovers' = FALSE
Finished == i < end_index /\ i >= TOTAL_NUM_SITES
CloseManager ==
  /\ step = "close"
  /\ CutOff /\ http_server' = FALSE
  /\ IF InBatches THEN clear_tmp_folder ELSE UNCHANGED leftovers
  /\ step' = IF ~InBatches THEN "ended" ELSE IF Finished THEN "remove" ELSE "off"
  /\ UNCHANGED <<script, files, loop, bounds>>

RemoveIndex ==
  /\ step = "remove"
  /\ step' = IF index_file = None THEN "off" ELSE "done"  \* or it raises
  /\ index_file' = None
  /\ UNCHANGED <<script, control, loop, machine, progress, bounds>>

CrawlDone ==
  /\ step = "done"
  /\ control' = control \cup {"crawl_done"} /\ step' = "off"
  /\ UNCHANGED <<script, index_file, loop, machine, progress, bounds>>

(* A script that is killed leaves its server and the profiles of its       *)
(* browsers; a reboot leaves nothing.                                      *)
Killed ==
  /\ crashes < MaxCrashes /\ step # "ended"
  /\ crashes' = crashes + 1
  /\ CutOff /\ step' = "off"
  /\ \/ http_server' = FALSE /\ leftovers' = FALSE
     \/ leftovers' = (leftovers \/ step \in {"launch", "loop", "open", "write", "close"})
        /\ UNCHANGED http_server
  /\ UNCHANGED <<script, files, loop, spawn_failures, errors>>

CrawlScriptNext ==
  \/ Start \/ StartServer \/ GrabMailUrlsRaises \/ ManageControlFiles \/ LoadSites
  \/ LaunchBrowsers \/ BrowserSpawnFails \/ LaunchRaises
  \/ ExecuteSequence \/ OpenIndex \/ WriteIndex \/ ExecuteRaises \/ ScriptRaises \/ LoopDone
  \/ CloseManager \/ RemoveIndex \/ CrawlDone \/ Killed
  \/ \E s \in Sites : SequenceEnds(s)
-----------------------------------------------------------------------------
(* When a crawl in batches is done every site was handed over, and nothing *)
(* is left in /tmp.  The only sites whose sequences did not run to an end  *)
(* are those that were in a browser at an interruption, by a kill or by    *)
(* the limit of a shutdown, and those of one batch for each time that the  *)
(* TaskManager had closed itself.  A site is handed over again only after  *)
(* a kill, in any script.                                                  *)
SitesExecuted ==
  /\ "crawl_done" \in control =>
       /\ \A s \in Sites : handed[s] > 0
       /\ Cardinality(Sites \ (executed \cup refused)) <= NUM_BROWSERS * interrupted
       /\ Cardinality(refused) <= (NUM_BATCH + 1) * spawn_failures
       /\ ~leftovers
  /\ \A s \in Sites : handed[s] <= 1 + crashes
=============================================================================
