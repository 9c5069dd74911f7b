------------------------------ MODULE WebDriver ------------------------------
(***************************************************************************)
(* Firefox as the commands see it through Selenium: windows with pages,    *)
(* and the window and the frame in which the driver works.  External; what *)
(* is modelled is what the commands rely on.                               *)
(*                                                                         *)
(* A page stands for its document, Doc[p]: its URL, its forms, inputs and  *)
(* links, the pages in its iframes, the pages a form may lead to, and the  *)
(* pages it may open in windows of its own, at any time.  Any call may     *)
(* raise: an element is stale, a script fails, an alert comes up.  Links,  *)
(* forms and iframes lead to pages of Doc; iframes have none themselves.   *)
(***************************************************************************)
EXTENDS Naturals, Sequences, FiniteSets

CONSTANTS
  Doc,         \* the documents of the pages there are
  MaxWindows,  \* bound: windows of one Firefox
  MaxFaults    \* bound: calls that raise

VARIABLES
  tabs,     \* tabs[w]: the history of window w, its page last; <<>> when closed
  opened,   \* windows opened so far
  current,  \* the window of the driver, which may be closed
  frame,    \* the iframe of the driver, 0 for the page itself
  faults    \* bounded by MaxFaults

driverVars == <<tabs, opened, current, frame, faults>>

Handle   == 1 .. MaxWindows
Page     == DOMAIN Doc
Blank    == "about:blank"
EmptyDoc == [forms |-> <<>>, inputs |-> <<>>, links |-> {}, frames |-> <<>>,
             url |-> {}, after |-> {}, popups |-> {}]
Dom(p)   == IF p = Blank THEN EmptyDoc ELSE Doc[p]

ASSUME WebDriverAssumption ==
  /\ MaxWindows \in Nat \ {0} /\ MaxFaults \in Nat
  /\ Blank \notin Page
  /\ \A p \in Page :
       /\ Doc[p].after \subseteq Page /\ Doc[p].popups \subseteq Page
       /\ \A l \in Doc[p].links : l.to \in Page
       /\ Doc[p].frames \in Seq(Page)
       /\ \A i \in DOMAIN Doc[p].frames : Doc[Doc[p].frames[i]].frames = <<>>

(* Page p, loaded for visit v.                                             *)
Loaded(p, v) == [page |-> p, visit |-> v]

Windows   == {w \in Handle : tabs[w] # <<>>}
Top(w)    == tabs[w][Len(tabs[w])]
Others(w) == Windows \ {w}

(* The document in which the driver looks for elements.                    *)
Document ==
  LET d == Dom(Top(current).page) IN
  IF frame = 0 THEN d ELSE Dom(d.frames[frame])

Fault  == faults < MaxFaults /\ faults' = faults + 1
Sound  == UNCHANGED faults
Usable == current \in Windows

(* A call raises because of a fault, or since its window is closed.        *)
Raises(w) == IF w \in Windows THEN Fault ELSE Sound

Replace(w, history) == tabs' = [tabs EXCEPT ![w] = history]

SwitchTo(w) == w \in Windows /\ current' = w /\ frame' = 0

(* Load p in the driver's window: for ever, or until one goes back.        *)
Visit(p, v) == Replace(current, Append(tabs[current], Loaded(p, v))) /\ frame' = 0

(* A click or a form leads to p; inside an iframe it leaves the page alone. *)
Follow(p, v) == IF frame = 0 THEN Visit(p, v) ELSE UNCHANGED <<tabs, frame>>

Back ==
  /\ Replace(current, LET h == tabs[current] IN
                      IF Len(h) > 1 THEN SubSeq(h, 1, Len(h) - 1) ELSE h)
  /\ frame' = 0

(* A page opens a window.                                                  *)
OpenWindow(w, p) ==
  /\ opened < MaxWindows
  /\ opened' = opened + 1
  /\ Replace(opened + 1, <<Loaded(p, Top(w).visit)>>)

OpenPopup ==
  /\ \E w \in Windows : \E p \in Dom(Top(w).page).popups : OpenWindow(w, p)
  /\ UNCHANGED <<current, frame, faults>>

(* A new Firefox has one blank window.                                     *)
Fresh == [w \in Handle |-> IF w = 1 THEN <<Loaded(Blank, 0)>> ELSE <<>>]

DriverInit == tabs = Fresh /\ opened = 1 /\ current = 1 /\ frame = 0 /\ faults = 0

DriverTypeOK ==
  /\ \A w \in Handle : \A i \in DOMAIN tabs[w] :
       tabs[w][i].page \in Page \cup {Blank} /\ tabs[w][i].visit \in Nat
  /\ opened \in Handle /\ current \in Handle /\ frame \in Nat /\ faults \in 0 .. MaxFaults
=============================================================================
