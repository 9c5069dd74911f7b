---------------------------- MODULE BrowserCommands ----------------------------
(***************************************************************************)
(* The commands of browser_commands, as one child executes them: each      *)
(* label of pc stands for the calls to Firefox that follow it.             *)
(***************************************************************************)
EXTENDS WebDriver, FormFinder

CONSTANT NumLinks  \* links that BROWSE and FILL_FORMS follow

ASSUME NumLinksAssumption == NumLinks \in Nat

VARIABLES
  pc,        \* what the child does next
  command,   \* the command it executes
  visit,     \* its visit id
  main,      \* main_handle
  rest,      \* windows of a list of window_handles that are still to be visited
  num,       \* links followed by this command
  listed,    \* history: the windows opened when the visit last listed them
  evidence,  \* what the commands of this visit recorded: see Recording
  dropped    \* whether fill_forms dropped an exception in this visit

localVars   == <<command, visit, main, num, listed, dropped>>
commandVars == <<pc, command, visit, main, rest, num, listed, evidence, dropped>>

(* The old page stays until the new one is there.                          *)
tab_restart_kept == UNCHANGED <<tabs, frame>>

(* A tab with the page that the driver shows is replaced by a blank one.   *)
tab_restart_browser ==
  IF Top(current).page = Blank THEN UNCHANGED <<tabs, frame>>
  ELSE Replace(current, <<Loaded(Blank, 0)>>) /\ frame' = 0

(* get_website: a fresh tab, told to the proxy and to the extension, ...   *)
GetWebsite ==
  /\ pc = "get" /\ Usable
  /\ tab_restart_browser
  /\ main' = current
  /\ pc' = "load"
  /\ UNCHANGED <<opened, current, faults, command, visit, rest, num, listed, evidence, dropped>>

(* ... the page, unless it times out before it is there, ...               *)
LoadPage(url) ==
  /\ pc = "load" /\ Usable
  /\ \/ Visit(url, visit)
     \/ UNCHANGED <<tabs, frame>>
  /\ pc' = "list"
  /\ UNCHANGED <<opened, current, faults, rest, evidence, localVars>>

(* ... and no other windows than those that opened too late to be listed:  *)
(* list them, switch to each but main and close it, switch to main.        *)
ListWindows(p, closing, done) ==
  /\ pc = p
  /\ rest' = Others(main)
  /\ pc' = IF Cardinality(Windows) > 1 THEN closing ELSE done
  /\ listed' = IF p = "list" THEN opened ELSE listed
  /\ UNCHANGED <<tabs, opened, current, faults, command, visit, main, num, evidence, dropped>>

CloseListed(p) ==
  /\ pc = p
  /\ \E w \in rest \cap Windows : Replace(w, <<>>) /\ current' = w /\ rest' = rest \ {w}
  /\ frame' = 0
  /\ UNCHANGED <<opened, faults, pc, evidence, localVars>>

SwitchToMain(p, done) ==
  /\ pc = p /\ rest = {}
  /\ SwitchTo(main)
  /\ pc' = done
  /\ UNCHANGED <<tabs, opened, faults, rest, evidence, localVars>>

Done == pc' = "idle"

GetDone ==
  /\ pc = "got" /\ Usable
  /\ CASE command = "GET" -> Done
       [] command = "BROWSE" -> pc' = "links"
       [] command = "FILL_FORMS" -> pc' = "search"
  /\ UNCHANGED <<driverVars, rest, evidence, localVars>>

(* The links of browse_website: those of the site that are shown.          *)
IntraLinks == {l \in Document.links : l.internal /\ l.shown}

BrowseLink ==
  /\ command = "BROWSE" /\ pc = "links" /\ num < NumLinks /\ Usable
  /\ \E l \in IntraLinks : Visit(l.to, visit)
  /\ num' = num + 1
  /\ pc' = "back"
  /\ UNCHANGED <<opened, current, faults, command, visit, main, rest, listed, evidence, dropped>>

BrowseDone ==
  /\ command = "BROWSE" /\ pc = "links"
  /\ num = NumLinks \/ (Usable /\ IntraLinks = {})
  /\ Done
  /\ UNCHANGED <<driverVars, rest, evidence, localVars>>

BrowseBack ==
  /\ command = "BROWSE" /\ pc = "back" /\ Usable
  /\ Back
  /\ pc' = "links"
  /\ UNCHANGED <<opened, current, faults, rest, evidence, localVars>>

(* What is recorded while window w shows a page, and whether the window is *)
(* late: one that was opened after this visit listed the windows.          *)
Recording(kind, w, shown, f) ==
  [kind |-> kind, visit |-> visit, frame |-> f, late |-> w > listed,
   of |-> IF shown.page = Blank THEN visit ELSE shown.visit]

Record(kind) == evidence' = evidence \cup {Recording(kind, current, Top(current), frame)}

save_screenshot  == Record("screenshot")
dump_page_source == Record("source")
extract_links    == IF Document.links = {} THEN UNCHANGED evidence ELSE Record("links")

RecordPage ==
  /\ pc = "record" /\ Usable
  /\ CASE command = "SAVE_SCREENSHOT" -> save_screenshot
       [] command = "DUMP_PAGE_SOURCE" -> dump_page_source
       [] command = "EXTRACT_LINKS" -> extract_links
  /\ Done
  /\ UNCHANGED <<driverVars, rest, localVars>>

(* dump_flash_cookies, dump_profile_cookies: a fresh tab, then the cookies *)
(* that changed since the visit began.                                     *)
DumpCookies ==
  /\ pc = "cookies" /\ Usable
  /\ tab_restart_browser
  /\ Done
  /\ UNCHANGED <<opened, current, faults, rest, evidence, localVars>>

(* dump_profile may close the window first.                                *)
DumpProfile ==
  /\ pc = "profile"
  /\ \/ UNCHANGED tabs
     \/ Usable /\ Replace(current, <<>>)
  /\ Done
  /\ UNCHANGED <<opened, current, frame, faults, rest, evidence, localVars>>

(* A function of the script's; what it does to Firefox is not modelled.    *)
RunCustomFunction ==
  /\ pc = "custom"
  /\ Done
  /\ UNCHANGED <<driverVars, rest, evidence, localVars>>

(* The windows that the next call may work in.                             *)
Needed ==
  IF pc \notin {"close", "tidying", "others"} THEN {current}
  ELSE IF rest = {} THEN {main} ELSE rest

(* A call raises, and with it the command, but for the click of a link of  *)
(* browse_website and what follows it.                                     *)
CommandRaises(labels) ==
  /\ pc \in labels
  /\ \E w \in Needed : Raises(w)
  /\ pc' = "failed"
  /\ UNCHANGED <<tabs, opened, current, frame, rest, evidence, localVars>>

BrowseRaises ==
  /\ command = "BROWSE"
  /\ \/ pc = "links" /\ IntraLinks # {} /\ num < NumLinks /\ num' = num + 1
     \/ pc = "back" /\ UNCHANGED num
  /\ Raises(current)
  /\ pc' = "links"
  /\ UNCHANGED <<tabs, opened, current, frame, rest, evidence, command, visit, main, listed, dropped>>

BrowserCommand ==
  \/ GetWebsite \/ GetDone
  \/ ListWindows("list", "close", "got") /\ UNCHANGED frame
  \/ CloseListed("close") \/ SwitchToMain("close", "got")
  \/ BrowseLink \/ BrowseDone \/ BrowseBack \/ BrowseRaises
  \/ RecordPage \/ DumpCookies \/ DumpProfile \/ RunCustomFunction
  \/ CommandRaises({"get", "load", "list", "close", "got", "record", "cookies", "custom"})
  \/ command = "BROWSE" /\ num < NumLinks /\ CommandRaises({"links"})
=============================================================================
