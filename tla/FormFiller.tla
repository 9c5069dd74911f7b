------------------------------ MODULE FormFiller ------------------------------
(***************************************************************************)
(* fill_forms: look for a newsletter form on the landing page, then on the *)
(* pages behind its best links and in the windows that these open; fill in *)
(* the first one found, and one that follows it.                           *)
(*                                                                         *)
(* _find_and_fill_form is called from three places; "ret" says from which: *)
(* landed, clicked or popup.  The last two are inside of a try whose       *)
(* except: pass goes on with the next link.                                *)
(***************************************************************************)
EXTENDS BrowserCommands

CONSTANT debug  \* whether the pages with forms are recorded

ASSUME DebugAssumption == debug \in BOOLEAN

(* The forms of a page are <form>s; the parents of an input contain it.    *)
ASSUME FormsAssumption ==
  \A p \in Page :
    /\ DOMAIN Doc[p].forms \subseteq Nat \ {0} /\ DOMAIN Doc[p].inputs \subseteq Nat \ {0}
    /\ \A i \in DOMAIN Doc[p].forms : Doc[p].forms[i].tag = "form"
    /\ \A i \in DOMAIN Doc[p].inputs : \A k \in DOMAIN Doc[p].inputs[i].parents :
         LET fields == Doc[p].inputs[i].parents[k].fields
         IN \E n \in DOMAIN fields : fields[n] = Doc[p].inputs[i].field

VARIABLES
  fill,      \* the local variables of fill_forms
  form,      \* newsletter_form
  produced,  \* addresses that email_producer gave out for this command
  sent       \* the forms that were sent with a new address

fillVars == <<fill, form, produced, sent>>

FillInit ==
  [ret |-> "landed", landing |-> 1, visited |-> {}, stay |-> FALSE, to |-> Blank,
   popups |-> {}, in_popup |-> FALSE, in_iframe |-> FALSE, followed |-> FALSE]

Found == _find_newsletter_form(Document) # NoForm

(* The first iframe with a form, 0 for none.                               *)
FrameWithForm ==
  First({i \in DOMAIN Document.frames : _find_newsletter_form(Dom(Document.frames[i])) # NoForm})

(* The next link is tried although a form was filled in.                   *)
ReturnAlways(success) ==
  CASE fill.ret = "landed" -> pc' = "links" /\ fill' = [fill EXCEPT !.landing = current]
    [] fill.ret = "clicked" -> pc' = (IF fill.stay THEN "links" ELSE "back") /\ UNCHANGED fill
    [] fill.ret = "popup" -> pc' = "close_popup" /\ UNCHANGED fill

Return(success) ==
  CASE fill.ret = "landed" /\ ~success ->
         pc' = "links" /\ fill' = [fill EXCEPT !.landing = current]
    [] fill.ret # "popup" /\ success -> Done /\ UNCHANGED fill
    [] fill.ret = "clicked" /\ ~success ->
         pc' = (IF fill.stay THEN "links" ELSE "back") /\ UNCHANGED fill
    [] fill.ret = "popup" ->
         pc' = "close_popup" /\ fill' = [fill EXCEPT !.in_popup = @ \/ success]

(* What fill_forms records, of the window and iframe it happens to be in.  *)
DebugKinds == {"form source", "form screenshot"}
Debug(recordings) == evidence' = IF debug THEN evidence \cup recordings ELSE evidence
FormSource(w, f) == Recording("form source", w, Top(w), f)
FormScreenshot(w, shown, f) == Recording("form screenshot", w, shown, f)

(* _find_and_fill_form: a form of the page, or else of one of its iframes. *)
FindForm ==
  /\ pc = "search" /\ Usable
  /\ main' = current
  /\ IF Found
     THEN /\ pc' = "produce"
          /\ form' = _find_newsletter_form(Document)
          /\ fill' = [fill EXCEPT !.in_iframe = FALSE, !.followed = FALSE]
          /\ Debug({FormSource(current, frame)})
          /\ UNCHANGED frame
     ELSE IF FrameWithForm # 0
     THEN /\ pc' = "produce"
          /\ form' = _find_newsletter_form(Dom(Document.frames[FrameWithForm]))
          /\ fill' = [fill EXCEPT !.in_iframe = TRUE, !.followed = FALSE]
          /\ frame' = FrameWithForm
          /\ Debug({FormSource(current, FrameWithForm)})
     ELSE Return(FALSE) /\ UNCHANGED <<form, frame, evidence>>
  /\ UNCHANGED <<tabs, opened, current, faults, command, visit, rest, num, listed, dropped,
                 produced, sent>>

(* email_producer asks the mail server for an address.                     *)
get_email == produced' = produced + 1

Produce ==
  /\ pc = "produce"
  /\ get_email
  /\ pc' = "submit"
  /\ UNCHANGED <<driverVars, rest, evidence, localVars, fill, form, sent>>

(* The page stays as it is or another one takes its place.                 *)
Submitted ==
  \/ UNCHANGED <<tabs, frame>>
  \/ \E p \in Document.after : Follow(p, visit)

SubmitForm ==
  /\ pc = "submit" /\ Usable
  /\ Debug({FormScreenshot(current, Top(current), frame)})
  /\ Submitted
  /\ sent' = IF Sent(form) = {} THEN sent ELSE sent \cup {form}
  /\ pc' = "result"
  /\ UNCHANGED <<opened, current, faults, rest, localVars, fill, form, produced>>

(* Some seconds later, whatever the page shows then.                       *)
Result ==
  /\ pc = "result" /\ Usable
  /\ Debug({FormScreenshot(current, Top(current), frame)})
  /\ pc' = "windows"
  /\ UNCHANGED <<driverVars, rest, localVars, fillVars>>

(* What is recorded of a form that follows: its page, and the page that is *)
(* shown when it was sent.                                                 *)
FollowUpRecorded(w, f, shown) ==
  Debug({FormSource(w, f), FormScreenshot(w, Top(w), f), FormScreenshot(w, shown, f)})

(* Each other window is looked at for a form that follows, and closed.     *)
OtherWindow(w) ==
  /\ pc = "others" /\ w \in rest \cap Windows
  /\ rest' = rest \ {w}
  /\ current' = w /\ frame' = 0
  /\ LET dom == Dom(Top(w).page) IN
     IF ~fill.followed /\ _find_newsletter_form(dom) # NoForm
     THEN /\ fill' = [fill EXCEPT !.followed = TRUE]
          /\ \E shown \in {Top(w)} \cup {Loaded(p, visit) : p \in dom.after} :
               FollowUpRecorded(w, 0, shown)
     ELSE UNCHANGED <<fill, evidence>>
  /\ Replace(w, <<>>)
  /\ UNCHANGED <<opened, faults, pc, localVars, form, produced, sent>>

(* Without one there, the form that the page has now is filled in.         *)
FollowUp ==
  /\ pc = "follow_up" /\ Usable
  /\ UNCHANGED <<opened, current, faults, rest, localVars, form, produced, sent>>
  /\ IF ~fill.followed /\ Found
     THEN /\ Submitted /\ FollowUpRecorded(current, frame, Top(current)')
          /\ fill' = [fill EXCEPT !.followed = TRUE]
     ELSE UNCHANGED <<tabs, frame, fill, evidence>>
  /\ pc' = "tidy"

(* Out of the iframe, before the other windows are listed and closed.      *)
Tidy ==
  /\ Usable
  /\ ListWindows("tidy", "tidying", "filled")
  /\ frame' = IF fill.in_iframe THEN 0 ELSE frame
  /\ UNCHANGED fillVars

Filled ==
  /\ pc = "filled"
  /\ Return(TRUE)
  /\ UNCHANGED <<driverVars, rest, evidence, localVars, form, produced, sent>>

(* The loop of fill_forms: the best link that was not visited, ...         *)
LinksHere == MatchLinks(Document.links, Dom(Top(current).page).url, fill.visited)

ChooseLink ==
  /\ command = "FILL_FORMS" /\ pc = "links" /\ num < NumLinks /\ Usable
  /\ \E slow \in BOOLEAN : \E l \in BestLinks(LinksHere, slow) :
       fill' = [fill EXCEPT !.visited = @ \cup {l.to}, !.to = l.to, !.stay = l.stay,
                            !.ret = "clicked"]
  /\ num' = num + 1
  /\ pc' = "click"
  /\ UNCHANGED <<driverVars, rest, listed, evidence, dropped, command, visit, main, form, produced,
                 sent>>

NoMoreLinks ==
  /\ command = "FILL_FORMS" /\ pc = "links"
  /\ num = NumLinks \/ (Usable /\ LinksHere = {})
  /\ Done
  /\ UNCHANGED <<driverVars, rest, evidence, localVars, fillVars>>

ClickLink ==
  /\ pc = "click" /\ Usable
  /\ Follow(fill.to, visit)
  /\ pc' = "search"
  /\ UNCHANGED <<opened, current, faults, rest, evidence, localVars, fillVars>>

GoBack ==
  /\ command = "FILL_FORMS" /\ pc = "back" /\ Usable
  /\ Back
  /\ pc' = "popups"
  /\ UNCHANGED <<opened, current, faults, rest, evidence, localVars, fillVars>>

(* ... and the windows that it opened, each closed after it is looked at.  *)
ListPopups ==
  /\ pc = "popups" /\ Usable
  /\ IF Cardinality(Windows) > 1
     THEN /\ fill' = [fill EXCEPT !.popups = Others(fill.landing), !.in_popup = FALSE]
          /\ pc' = "popup"
     ELSE pc' = "links" /\ UNCHANGED fill
  /\ UNCHANGED <<driverVars, rest, evidence, localVars, form, produced, sent>>

LookAtPopup(w) ==
  /\ pc = "popup" /\ w \in fill.popups
  /\ SwitchTo(w)
  /\ fill' = [fill EXCEPT !.popups = @ \ {w}, !.ret = "popup"]
  /\ pc' = "search"
  /\ UNCHANGED <<tabs, opened, faults, rest, evidence, localVars, form, produced, sent>>

ClosePopup ==
  /\ pc = "close_popup" /\ Usable
  /\ Replace(current, <<>>)
  /\ pc' = "popup"
  /\ UNCHANGED <<opened, current, frame, faults, rest, evidence, localVars, fillVars>>

PopupsDone ==
  /\ pc = "popup" /\ fill.popups = {}
  /\ SwitchTo(fill.landing)
  /\ IF fill.in_popup THEN Done ELSE pc' = "links"
  /\ UNCHANGED <<tabs, opened, faults, rest, evidence, localVars, fillVars>>

(* A call raises: before the first link the command fails; after it the    *)
(* exception is dropped, whatever window or iframe the driver is in.       *)
FillLabels ==
  {"search", "produce", "submit", "result", "windows", "others", "follow_up", "tidy", "tidying",
   "click", "back", "popups", "popup", "close_popup"}
FillNeeded ==
  IF pc # "popup" THEN Needed
  ELSE IF fill.popups = {} THEN {fill.landing} ELSE fill.popups

FillRaises ==
  /\ command = "FILL_FORMS" /\ pc \in FillLabels
  /\ \E w \in FillNeeded : Raises(w)
  /\ IF fill.ret = "landed" THEN pc' = "failed" /\ UNCHANGED dropped
     ELSE pc' = "links" /\ dropped' = TRUE
  /\ frame' \in {frame} \cup (IF pc = "search" /\ Usable THEN DOMAIN Document.frames ELSE {})
  /\ UNCHANGED <<tabs, opened, current, rest, evidence, command, visit, main, num, listed, fillVars>>

FillForms ==
  \/ FindForm \/ Produce \/ SubmitForm \/ Result \/ FollowUp \/ Tidy \/ Filled
  \/ ListWindows("windows", "others", "follow_up") /\ UNCHANGED <<frame, fillVars>>
  \/ \E w \in Handle : OtherWindow(w) \/ LookAtPopup(w)
  \/ SwitchToMain("others", "follow_up") /\ UNCHANGED fillVars
  \/ CloseListed("tidying") /\ UNCHANGED fillVars
  \/ SwitchToMain("tidying", "filled") /\ UNCHANGED fillVars
  \/ ChooseLink \/ NoMoreLinks \/ ClickLink \/ GoBack \/ ListPopups \/ ClosePopup \/ PopupsDone
  \/ FillRaises
  \/ command = "FILL_FORMS" /\ num < NumLinks /\ CommandRaises({"links"}) /\ UNCHANGED fillVars
=============================================================================
