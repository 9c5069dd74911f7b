------------------------------- MODULE Profiles -------------------------------
(***************************************************************************)
(* The profile of a browser: deploy_firefox makes a new one or restores a  *)
(* saved one, Firefox changes it, and dump_profile saves it, file by file, *)
(* when a command asks for it, after a crash, and at the end of a crawl.   *)
(*                                                                         *)
(* The databases of a profile (cookies, places, webappsstore) are one      *)
(* store: the version that is in the file, 0 if there is no file, and the  *)
(* one that is in its write-ahead log, 0 if there is none.                 *)
(***************************************************************************)
EXTENDS Naturals, PythonNone

CONSTANTS
  Params,     \* browser_params that crawls use
  Resolution, \* the screen sizes that are chosen from
  MaxWrites,  \* bound: versions of the store
  MaxDumps    \* bound: dumps

BrowserParams ==
  [spoof_mailclient : BOOLEAN, random_attributes : BOOLEAN, disable_flash : BOOLEAN,
   extension_enabled : BOOLEAN, save_javascript : BOOLEAN, proxy : BOOLEAN,
   tp_cookies : STRING, features : SUBSET STRING, adblock_list : BOOLEAN]
Directory == {"crash", "archive", "user"}
Archived  == [store : Nat, wal : Nat, whole : BOOLEAN]
Default   == "1366x768"

ASSUME ProfilesAssumption ==
  /\ MaxWrites \in Nat /\ MaxDumps \in Nat
  /\ Params \subseteq BrowserParams
  /\ None \notin Directory \cup Archived \cup Resolution \cup {Default}

VARIABLES
  at,        \* what the browser's processes are doing
  params,    \* browser_params
  tar,       \* profile_tar, a directory or None
  recovery,  \* crash_recovery
  profile,   \* the profile folder: [store, wal, js]
  settings,  \* profile_settings: a screen size or None
  prefs,     \* the preferences that Firefox is started with
  flash,     \* the Flash objects of the machine
  firefox,   \* it runs
  dump,      \* the dump that is being made
  saved,     \* the directories: [gz, tar, settings, flash]
  writes, dumps,  \* bounded by MaxWrites and MaxDumps
  expected,  \* history: what the next start should restore, or None
  dumped     \* history: what the archives of commands hold: [gz, tar, settings]

history     == <<expected, dumped>>
profileVars == <<at, params, tar, recovery, profile, settings, prefs, flash, firefox, dump, saved,
                 writes, dumps, history>>

New       == [store |-> 0, wal |-> 0, js |-> TRUE]
Partial   == [store |-> 0, wal |-> 0, whole |-> FALSE]
(* still, a history: Firefox has not touched the store since it began.     *)
NoDump    == [dir |-> None, gz |-> FALSE, flash |-> FALSE, files |-> Partial, still |-> FALSE]
EmptyDir  == [gz |-> None, tar |-> None, settings |-> None, flash |-> 0]

(* What SQLite reads: the log, if there is one.                            *)
Version(p) == IF p.wal # 0 THEN p.wal ELSE p.store

ProfilesInit ==
  /\ at = "load" /\ params \in Params /\ tar \in {None, "archive"} /\ recovery = FALSE
  /\ profile = New /\ settings = None /\ prefs = {} /\ flash = 0 /\ firefox = FALSE
  /\ dump = NoDump /\ saved = [d \in Directory |-> EmptyDir]
  /\ writes = 0 /\ dumps = 0 /\ expected = None
  /\ dumped = [gz |-> None, tar |-> None, settings |-> None]
-----------------------------------------------------------------------------
(* load_profile: whatever archive there is, the compressed one first.      *)
Archive(d) == IF saved[d].gz # None THEN saved[d].gz ELSE saved[d].tar
Usable(d)  == Archive(d) # None /\ Archive(d).whole

(* Flash is not there on every machine: then nothing is saved or loaded.   *)
save_flash_files(old) == IF flash = 0 THEN old ELSE flash
load_flash_files(d)   == IF flash = 0 THEN 0 ELSE saved[d].flash

save_browser_settings(old) == IF settings = None THEN old ELSE settings
load_browser_settings(d)   == saved[d].settings

load_profile ==
  /\ tar # None /\ Usable(tar)
  /\ profile' = [store |-> Archive(tar).store, wal |-> Archive(tar).wal, js |-> TRUE]
  /\ settings' = load_browser_settings(tar)
  /\ flash' = IF recovery \/ params.disable_flash THEN flash ELSE load_flash_files(tar)
  /\ at' = "settings"

LoadRaises ==
  /\ tar # None /\ ~Usable(tar)
  /\ at' = "raised" /\ profile' = New /\ UNCHANGED <<settings, flash>>

NewProfile == tar = None /\ profile' = New /\ settings' = None /\ at' = "settings" /\ UNCHANGED flash

Load ==
  /\ at = "load"
  /\ load_profile \/ LoadRaises \/ NewProfile
  /\ UNCHANGED <<params, tar, recovery, prefs, firefox, dump, saved, writes, dumps, history>>

ChooseSettings ==
  /\ at = "settings"
  /\ settings' \in IF settings # None THEN {settings}
                  ELSE IF params.random_attributes THEN Resolution ELSE {Default}
  /\ at' = "configure"
  /\ UNCHANGED <<params, tar, recovery, profile, prefs, flash, firefox, dump, saved, writes, dumps,
                 history>>

(* configure_firefox: preferences and extensions.  Tracking protection     *)
(* ends the process; AdBlock Plus without a list raises.                   *)
Optimized == {"no telemetry", "no prefetch", "no geoip", "no updates", "no safebrowsing",
              "no experiments", "no newtab"}
Privacy(p) ==
  (p.features \cap {"donottrack", "ghostery", "https-everywhere", "adblock-plus"})
    \cup {p.tp_cookies}
(* The extension is told where the aggregators listen; the old proxy gets  *)
(* all requests.                                                           *)
ExtensionConfig(p) ==
  IF ~p.extension_enabled THEN {}
  ELSE {"extension", "sqlite_address"} \cup (IF p.save_javascript THEN {"leveldb_address"} ELSE {})
ProxyPrefs(p) == IF p.proxy THEN {"proxy for http and ssl", "its certificate"} ELSE {}
Referrer(p) == IF p.spoof_mailclient THEN {"no_referrer"} ELSE {}
CannotConfigure(p) ==
  \/ "tracking-protection" \in p.features
  \/ "adblock-plus" \in p.features /\ ~p.adblock_list

Configure ==
  /\ at = "configure"
  /\ at' = IF CannotConfigure(params) THEN "raised" ELSE "start"
  /\ prefs' = ExtensionConfig(params) \cup ProxyPrefs(params) \cup Privacy(params)
              \cup Optimized \cup Referrer(params)
  /\ UNCHANGED <<params, tar, recovery, profile, settings, flash, firefox, dump, saved, writes, dumps,
                 history>>

(* For a mail client JavaScript is turned off by hand, in about:config:    *)
(* the keys toggle it.                                                     *)
Toggled(p) == IF params.spoof_mailclient THEN [p EXCEPT !.js = ~@] ELSE p

StartFirefox ==
  /\ at = "start"
  /\ firefox' = TRUE /\ profile' = Toggled(profile)
  /\ at' = "running" /\ expected' = None
  /\ UNCHANGED <<params, tar, recovery, settings, prefs, flash, dump, saved, writes, dumps, dumped>>

(* The next attempt makes another profile from the same archive.           *)
StartFails ==
  /\ at = "start" /\ at' = "load" /\ profile' = New
  /\ UNCHANGED <<params, tar, recovery, settings, prefs, flash, firefox, dump, saved, writes, dumps,
                 history>>
-----------------------------------------------------------------------------
(* Firefox writes to its log and now and then moves it to the file; it may *)
(* do so while a dump is being made.                                       *)
Browse ==
  /\ firefox /\ writes < MaxWrites
  /\ writes' = writes + 1
  /\ profile' = [profile EXCEPT !.wal = writes + 1]
  /\ dump' = [dump EXCEPT !.still = FALSE]
  /\ flash' = IF params.disable_flash THEN flash ELSE writes + 1
  /\ UNCHANGED <<at, params, tar, recovery, settings, prefs, firefox, saved, dumps, history>>

Checkpoint ==
  /\ firefox /\ profile.wal # 0
  /\ profile' = [profile EXCEPT !.store = profile.wal, !.wal = 0]
  /\ dump' = [dump EXCEPT !.still = FALSE]
  /\ UNCHANGED <<at, params, tar, recovery, settings, prefs, flash, firefox, saved, writes, dumps,
                 history>>

(* A directory may have an archive of either name.                         *)
Put(d, gz, files) ==
  saved' = [saved EXCEPT ![d] = IF gz THEN [@ EXCEPT !.gz = files] ELSE [@ EXCEPT !.tar = files]]

(* What the archive of that name is a copy of: 0 when of no one moment.    *)
CopyOf(gz, version) ==
  dumped' = IF gz THEN [dumped EXCEPT !.gz = version] ELSE [dumped EXCEPT !.tar = version]

(* The old archive of that name is removed first.                          *)
BeginDump(d, gz, withFlash) ==
  /\ dumps < MaxDumps /\ dumps' = dumps + 1
  /\ dump' = [dir |-> d, gz |-> gz, flash |-> withFlash, files |-> Partial, still |-> TRUE]
  /\ Put(d, gz, None)

(* A dump on close closes the window and waits for the log to disappear,   *)
(* for a minute at most: it may still be there.                            *)
DumpCommand ==
  /\ at = "running" /\ dump = NoDump
  /\ \E gz, close \in BOOLEAN :
       /\ BeginDump("user", gz, FALSE) /\ CopyOf(gz, 0)
       /\ at' = IF close THEN "checkpoint" ELSE "store"
  /\ UNCHANGED <<params, tar, recovery, profile, settings, prefs, flash, firefox, writes, expected>>

WaitForCheckpoint ==
  /\ at = "checkpoint"
  /\ at' = "store"
  /\ UNCHANGED <<params, tar, recovery, profile, settings, prefs, flash, firefox, dump, saved, writes,
                 dumps, history>>

(* The process that makes it is killed; what is there may be readable.     *)
DumpTimesOut ==
  /\ dump.dir = "user"
  /\ \E whole \in IF at \in {"wal", "close"} THEN BOOLEAN ELSE {FALSE} :
       Put("user", dump.gz, [store |-> dump.files.store, wal |-> dump.files.wal, whole |-> whole])
  /\ CopyOf(dump.gz, 0)
  /\ at' = "failed" /\ dump' = NoDump
  /\ UNCHANGED <<params, tar, recovery, profile, settings, prefs, flash, firefox, writes, dumps,
                 expected>>

(* After a crash the new browser gets the old one's profile ...            *)
CrashDump ==
  /\ at \in {"running", "failed"} /\ dump = NoDump
  /\ BeginDump("crash", FALSE, FALSE)
  /\ firefox' = FALSE /\ at' = "store"
  /\ tar' = "crash" /\ recovery' = TRUE
  /\ params' = [params EXCEPT !.random_attributes = FALSE]
  /\ expected' = [version |-> Version(profile), settings |-> settings, flash |-> None]
  /\ UNCHANGED <<profile, settings, prefs, flash, writes, dumped>>

(* ... unless it is to be cleared, after any sequence that says so: the    *)
(* browser is not fresh, since a command was issued.  Flash objects stay.  *)
ClearProfile ==
  /\ at \in {"running", "failed"} /\ dump = NoDump
  /\ firefox' = FALSE /\ at' = "load" /\ tar' = None /\ recovery' = FALSE /\ profile' = New
  /\ expected' = [version |-> 0, settings |-> None, flash |-> None]
  /\ UNCHANGED <<params, settings, prefs, flash, dump, saved, writes, dumps, dumped>>

(* At the end of a crawl it is archived for the next one ...               *)
ArchiveDump ==
  /\ at = "running" /\ dump = NoDump
  /\ BeginDump("archive", TRUE, ~params.disable_flash)
  /\ firefox' = FALSE /\ at' = "store"
  /\ tar' = "archive" /\ recovery' = FALSE
  /\ expected' = [version |-> Version(profile), settings |-> settings,
                  flash |-> IF params.disable_flash THEN None ELSE flash]
  /\ UNCHANGED <<params, profile, settings, prefs, flash, writes, dumped>>

(* ... or not, and the next one starts from what a command has saved.      *)
StartFromDump ==
  /\ at = "running" /\ dump = NoDump
  /\ \E version \in {IF dumped.gz # None THEN dumped.gz ELSE dumped.tar} \ {None} :
       expected' = [version  |-> IF version = 0 THEN None ELSE version,
                    settings |-> dumped.settings, flash |-> None]
  /\ firefox' = FALSE /\ at' = "load" /\ tar' = "user" /\ recovery' = FALSE /\ profile' = New
  /\ UNCHANGED <<params, settings, prefs, flash, dump, saved, writes, dumps, dumped>>

(* The files are copied one after the other.  A database that is not there *)
(* is logged as skipped, and then the copy raises.                         *)
AddStore ==
  /\ at = "store"
  /\ IF profile.store = 0
     THEN /\ at' = IF dump.dir = "user" THEN "failed" ELSE "raised"
          /\ dump' = NoDump /\ Put(dump.dir, dump.gz, Partial)
     ELSE /\ at' = "wal"
          /\ dump' = [dump EXCEPT !.files = [store |-> profile.store, wal |-> 0, whole |-> FALSE]]
          /\ UNCHANGED saved
  /\ UNCHANGED <<params, tar, recovery, profile, settings, prefs, flash, firefox, writes, dumps,
                 history>>

NoteCopy ==
  IF dump.dir = "user" THEN CopyOf(dump.gz, IF dump.still THEN Version(profile) ELSE 0)
  ELSE UNCHANGED dumped

AddLogForgotten ==
  /\ at = "wal"
  /\ dump' = [dump EXCEPT !.files = [store |-> @.store, wal |-> 0, whole |-> TRUE]]
  /\ NoteCopy /\ at' = "close"
  /\ UNCHANGED <<params, tar, recovery, profile, settings, prefs, flash, firefox, saved, writes, dumps,
                 expected>>

AddLog ==
  /\ at = "wal"
  /\ dump' = [dump EXCEPT !.files = [store |-> @.store, wal |-> profile.wal, whole |-> TRUE]]
  /\ NoteCopy /\ at' = "close"
  /\ UNCHANGED <<params, tar, recovery, profile, settings, prefs, flash, firefox, saved, writes, dumps,
                 expected>>

FinishDump ==
  /\ at = "close"
  /\ saved' = [saved EXCEPT ![dump.dir] =
                 [gz       |-> IF dump.gz THEN dump.files ELSE @.gz,
                  tar      |-> IF dump.gz THEN @.tar ELSE dump.files,
                  settings |-> save_browser_settings(@.settings),
                  flash    |-> IF dump.flash THEN save_flash_files(@.flash) ELSE @.flash]]
  /\ at' = IF dump.dir = "user" THEN "running" ELSE "load"
  /\ dumped' = IF dump.dir = "user" THEN [dumped EXCEPT !.settings = settings] ELSE dumped
  /\ dump' = NoDump
  /\ UNCHANGED <<params, tar, recovery, profile, settings, prefs, flash, firefox, writes, dumps,
                 expected>>

ProfilesNext ==
  \/ Load \/ ChooseSettings \/ Configure \/ StartFirefox \/ StartFails \/ Browse \/ Checkpoint
  \/ DumpCommand \/ WaitForCheckpoint \/ DumpTimesOut \/ CrashDump \/ ClearProfile \/ ArchiveDump
  \/ StartFromDump \/ AddStore \/ AddLog \/ FinishDump
-----------------------------------------------------------------------------
(* A browser that is started after a crash, and the first browser of a     *)
(* crawl that continues another, have what their predecessor had: what was *)
(* stored, the size of the screen, the Flash objects if they are saved; a  *)
(* browser whose profile was to be cleared has nothing of it.  A crawl     *)
(* that starts from the archive of a command has what was stored when it   *)
(* was made, if Firefox did not touch it meanwhile: of the compressed one, *)
(* if there are two.  The browser of a mail client never runs JavaScript   *)
(* nor sends referrers, however often it is started anew.                  *)
Restored ==
  /\ expected # None /\ at \in {"settings", "configure", "start"} =>
       /\ expected.version # None => Version(profile) = expected.version
       /\ expected.settings # None => settings = expected.settings
       /\ expected.flash # None => flash = expected.flash
  /\ at = "running" => /\ profile.js = ~params.spoof_mailclient
                       /\ params.spoof_mailclient => "no_referrer" \in prefs
=============================================================================
