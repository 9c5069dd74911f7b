--------------------------- MODULE CommandSequence ---------------------------
(***************************************************************************)
(* CommandSequence: the commands a script queues for one visit.  Timeouts  *)
(* count in units: one for each command.                                   *)
(***************************************************************************)
EXTENDS Naturals, Sequences

VARIABLE sequence  \* the sequence the script is building

VisitKinds == {"GET", "BROWSE", "FILL_FORMS"}
FreeKinds  == VisitKinds \cup {"DUMP_PROF"}
PageKinds  == {"DUMP_FLASH_COOKIES", "DUMP_PROFILE_COOKIES", "EXTRACT_LINKS",
               "SAVE_SCREENSHOT", "DUMP_PAGE_SOURCE", "RUN_CUSTOM_FUNCTION"}
Kind       == FreeKinds \cup PageKinds

NewSequence == [commands_with_timeout |-> <<>>, total_timeout |-> 0,
                contains_get_or_browse |-> FALSE]

Timed(s) == [s EXCEPT !.total_timeout = @ + 1]
Queued(s, kind) ==
  [Timed(s) EXCEPT !.commands_with_timeout = Append(@, kind),
                   !.contains_get_or_browse = @ \/ kind \in VisitKinds]

(* get(), browse(), fill_forms(): a visit.                                 *)
AddVisit(kind) == kind \in VisitKinds /\ sequence' = Queued(sequence, kind)

(* dump_profile() needs no page.                                           *)
AddDumpProfile == sequence' = Queued(sequence, "DUMP_PROF")

(* The methods that need a page raise CommandExecutionError without one,   *)
(* after they have counted their timeout.                                  *)
AddPageCommand(kind) ==
  /\ kind \in PageKinds
  /\ sequence' = IF sequence.contains_get_or_browse THEN Queued(sequence, kind)
                 ELSE Timed(sequence)

SequenceTypeOK ==
  /\ sequence.commands_with_timeout \in Seq(Kind)
  /\ sequence.total_timeout \in Nat
  /\ sequence.contains_get_or_browse \in BOOLEAN
=============================================================================
