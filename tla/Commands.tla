------------------------------- MODULE Commands -------------------------------
(***************************************************************************)
(* A script builds a sequence of commands for each visit; a child executes *)
(* them, one after the other, until one of them fails.  Then its browser   *)
(* is started anew.                                                        *)
(***************************************************************************)
EXTENDS FormFiller, CommandSequence

CONSTANTS
  Calls,      \* kinds of commands the scripts use
  Sites,      \* the pages that visits start from
  MaxCalls,   \* bound: calls on a sequence
  MaxVisits   \* bound: visits

ASSUME CommandsAssumption ==
  /\ Calls \subseteq Kind /\ Sites \subseteq Page
  /\ MaxCalls \in Nat /\ MaxVisits \in Nat

VARIABLES
  todo,  \* the commands of the visit that were not executed
  url    \* the page that the visit is to

vars == <<driverVars, commandVars, fillVars, sequence, todo, url>>

Init ==
  /\ DriverInit
  /\ pc = "script" /\ command = "GET" /\ visit = 0 /\ main = 1 /\ rest = {} /\ num = 0
  /\ listed = 0 /\ evidence = {} /\ dropped = FALSE
  /\ fill = FillInit /\ form = NoForm /\ produced = 0 /\ sent = {}
  /\ sequence = NewSequence /\ todo = <<>> /\ url = Blank

Build ==
  /\ pc = "script" /\ visit < MaxVisits /\ sequence.total_timeout < MaxCalls
  /\ \/ \E kind \in Calls : AddVisit(kind) \/ AddPageCommand(kind)
     \/ "DUMP_PROF" \in Calls /\ AddDumpProfile
  /\ UNCHANGED <<driverVars, commandVars, fillVars, todo, url>>

execute_command_sequence(s) ==
  /\ pc = "script" /\ visit < MaxVisits
  /\ url' \in Sites
  /\ visit' = visit + 1
  /\ todo' = s.commands_with_timeout
  /\ evidence' = {} /\ dropped' = FALSE
  /\ pc' = "idle"
  /\ UNCHANGED <<driverVars, command, main, rest, num, listed, fillVars>>

Execute ==
  /\ sequence.commands_with_timeout # <<>>
  /\ execute_command_sequence(sequence) /\ sequence' = NewSequence

(* TaskManager.get and TaskManager.browse: a visit with one command.       *)
ManagerGet ==
  \E kind \in Calls \cap {"GET", "BROWSE"} :
    execute_command_sequence(Queued(NewSequence, kind)) /\ UNCHANGED sequence

(* execute_command, by the name of the command.                            *)
Entry(kind) ==
  CASE kind \in VisitKinds -> "get"
    [] kind \in {"SAVE_SCREENSHOT", "DUMP_PAGE_SOURCE", "EXTRACT_LINKS"} -> "record"
    [] kind \in {"DUMP_FLASH_COOKIES", "DUMP_PROFILE_COOKIES"} -> "cookies"
    [] kind = "DUMP_PROF" -> "profile"
    [] kind = "RUN_CUSTOM_FUNCTION" -> "custom"

execute_command ==
  /\ pc = "idle" /\ todo # <<>>
  /\ command' = Head(todo) /\ todo' = Tail(todo)
  /\ pc' = Entry(Head(todo))
  /\ rest' = {} /\ num' = 0
  /\ fill' = FillInit /\ form' = NoForm /\ produced' = 0 /\ sent' = {}
  /\ UNCHANGED <<driverVars, visit, main, listed, evidence, dropped, sequence, url>>

VisitDone ==
  /\ pc = "idle" /\ todo = <<>>
  /\ pc' = "script"
  /\ UNCHANGED <<driverVars, command, visit, main, rest, num, listed, evidence, dropped,
                 fillVars, sequence, todo, url>>

(* The TaskManager drops the rest of the sequence and restarts the child.  *)
CommandFailed ==
  /\ pc = "failed"
  /\ tabs' = Fresh /\ opened' = 1 /\ current' = 1 /\ frame' = 0 /\ UNCHANGED faults
  /\ todo' = <<>>
  /\ pc' = "script"
  /\ UNCHANGED <<command, visit, main, rest, num, listed, evidence, dropped, fillVars, sequence,
                 url>>

Child ==
  \/ execute_command \/ VisitDone \/ CommandFailed
  \/ (BrowserCommand \/ LoadPage(url)) /\ UNCHANGED <<fillVars, sequence, todo, url>>
  \/ FillForms /\ UNCHANGED <<sequence, todo, url>>

Next ==
  \/ Build \/ Execute \/ ManagerGet \/ Child
  \/ OpenPopup /\ UNCHANGED <<commandVars, fillVars, sequence, todo, url>>

Spec == Init /\ [][Next]_vars
-----------------------------------------------------------------------------
(* The values the variables hold.                                          *)
TypeOK ==
  /\ DriverTypeOK /\ SequenceTypeOK
  /\ todo \in Seq(Kind) /\ command \in Kind
  /\ visit \in 0 .. MaxVisits /\ num \in 0 .. NumLinks
  /\ dropped \in BOOLEAN /\ listed \in 0 .. MaxWindows
  /\ main \in Handle /\ rest \subseteq Handle /\ fill.popups \subseteq Handle
  /\ produced \in Nat

(* A screenshot, a page source or a list of links that is recorded for a   *)
(* visit shows a page of that visit or a blank one, even if its page did   *)
(* not load in time and whatever happened in the visits before, unless the *)
(* window was opened after the visit listed the windows, to close them: a  *)
(* page of the visit before may open one until it is closed itself.  The   *)
(* commands that record are in no such window and in no iframe, but for    *)
(* fill_forms, and for those after one that dropped an exception.          *)
EvidenceOfVisit ==
  \A e \in evidence :
    /\ e.of = e.visit \/ e.late
    /\ ~dropped /\ e.kind \notin DebugKinds => e.of = e.visit /\ e.frame = 0

(* fill_forms signs a site up with one address, and asks for another one   *)
(* only after a call raised.  An address that it asked for is sent with a  *)
(* form, unless a call raised in between; it is typed into a field of that *)
(* form, unless the attributes of its email fields also name something     *)
(* that is looked for earlier.                                             *)
Ambiguous(field) ==
  field.type = "text" /\ field.words \cap {"company", "title", "name", "zip", "city", "state"} # {}
OneAddressPerSite ==
  /\ produced <= 1 + faults
  /\ pc # "submit" => produced <= Cardinality(sent) + faults
  /\ \A f \in sent : \/ "email" \in Typed(f)
                      \/ \E i \in DOMAIN f.fields :
                           _is_email_input(f.fields[i]) /\ Ambiguous(f.fields[i])

(* A form that was found and filled in is no failure of the command, when  *)
(* no call raised but for a window that the command closed itself.         *)
SignedUpIsNoFailure == faults = 0 /\ sent # {} => pc # "failed"
=============================================================================
