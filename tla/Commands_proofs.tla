---------------------------- MODULE Commands_proofs ----------------------------
(***************************************************************************)
(* What holds of a child that executes commands, for any pages, windows,   *)
(* sequences, visits and calls that raise.                                 *)
(***************************************************************************)
EXTENDS Commands, SequenceTheorems, FiniteSetTheorems, WellFoundedInduction, TLAPS

(* The windows of Firefox.                                                 *)
HistoryEntry == [page : Page \cup {Blank}, visit : Nat]

(* Windows are numbered as they open; a blank page is only ever the first  *)
(* of a window.                                                            *)
TabsInv ==
  /\ tabs \in [Handle -> Seq(HistoryEntry)] /\ opened \in Handle
  /\ current \in 1 .. opened
  /\ \A w \in Handle : w > opened => tabs[w] = <<>>
  /\ \A w \in Handle : \A i \in DOMAIN tabs[w] : i > 1 => tabs[w][i].page # Blank
  /\ visit \in Nat

(* The driver is in the page of its window, or in an iframe of that page.  *)
FrameInv == Usable /\ frame # 0 => frame \in DOMAIN Dom(Top(current).page).frames

(* Window w shows, and goes back to, pages of this visit and blank ones.   *)
Mine(w) == \A i \in DOMAIN tabs[w] : tabs[w][i].page = Blank \/ tabs[w][i].visit = visit

(* What a step does to the windows that it does not open.                  *)
KeepsMine == \A w \in Handle : w <= opened /\ Mine(w) => Mine(w)'
KeepsDriver == TabsInv' /\ FrameInv' /\ KeepsMine /\ opened <= opened'

LEMMA Constants ==
  /\ Handle \subseteq Nat /\ 1 \in Handle /\ Handle = 1 .. MaxWindows /\ MaxWindows \in Nat
  /\ Blank \notin Page
  /\ \A p \in Page : Dom(p) = Doc[p]
  /\ Dom(Blank) = EmptyDoc
  BY WebDriverAssumption DEF Handle, Dom

(* Histories: one page, one page more, one page less.                      *)
LEMMA Single ==
  ASSUME NEW e \in HistoryEntry
  PROVE  <<e>> \in Seq(HistoryEntry) /\ Len(<<e>>) = 1 /\ DOMAIN <<e>> = {1} /\ <<e>>[1] = e /\ <<e>> # <<>>
  OBVIOUS

LEMMA Longer ==
  ASSUME NEW h \in Seq(HistoryEntry), NEW e \in HistoryEntry
  PROVE  /\ Append(h, e) \in Seq(HistoryEntry) /\ Append(h, e) # <<>>
         /\ Len(h) \in Nat /\ DOMAIN h = 1 .. Len(h)
         /\ DOMAIN Append(h, e) = 1 .. Len(h) + 1 /\ Len(Append(h, e)) = Len(h) + 1
         /\ \A i \in DOMAIN h : Append(h, e)[i] = h[i]
         /\ Append(h, e)[Len(h) + 1] = e
  <1>1. Len(h) \in Nat /\ DOMAIN h = 1 .. Len(h)
    BY LenProperties
  <1>2. /\ Append(h, e) \in Seq(HistoryEntry) /\ Len(Append(h, e)) = Len(h) + 1
        /\ \A i \in 1 .. Len(h) : Append(h, e)[i] = h[i]
        /\ Append(h, e)[Len(h) + 1] = e
    BY AppendProperties
  <1>3. DOMAIN Append(h, e) = 1 .. Len(h) + 1
    BY <1>2, LenProperties
  <1>4. Append(h, e) # <<>>
    BY <1>1, <1>2, EmptySeq
  <1> QED
    BY <1>1, <1>2, <1>3, <1>4

LEMMA Shorter ==
  ASSUME NEW h \in Seq(HistoryEntry), Len(h) > 1, NEW g, g = SubSeq(h, 1, Len(h) - 1)
  PROVE  /\ g \in Seq(HistoryEntry) /\ g # <<>> /\ Len(g) \in Nat
         /\ DOMAIN g \subseteq DOMAIN h
         /\ \A i \in DOMAIN g : g[i] = h[i]
  <1>1. Len(h) \in Nat /\ DOMAIN h = 1 .. Len(h) /\ \A i \in 1 .. Len(h) : h[i] \in HistoryEntry
    BY LenProperties, ElementOfSeq
  <1>2. 1 \in Int /\ Len(h) - 1 \in Int /\ \A i \in 1 .. Len(h) - 1 : h[i] \in HistoryEntry
    BY <1>1
  <1>3. /\ g \in Seq(HistoryEntry) /\ Len(g) = Len(h) - 1
        /\ \A i \in 1 .. (Len(h) - 1) - 1 + 1 : g[i] = h[1 + i - 1]
    BY <1>1, <1>2, SubSeqProperties
  <1>4. DOMAIN g = 1 .. Len(h) - 1
    BY <1>3, LenProperties
  <1>5. \A i \in DOMAIN g : g[i] = h[i] /\ i \in DOMAIN h
    BY <1>1, <1>3, <1>4
  <1>6. g # <<>>
    <2>1. Len(g) # 0 /\ g \in Seq(HistoryEntry)
      BY <1>1, <1>3
    <2>2. \A s \in Seq(HistoryEntry) : Len(s) = 0 <=> s = <<>>
      BY EmptySeq
    <2> QED
      BY <2>1, <2>2, Zenon
  <1>7. Len(g) \in Nat /\ DOMAIN g \subseteq DOMAIN h
    BY <1>1, <1>3, <1>4
  <1> QED
    BY <1>3, <1>5, <1>6, <1>7

(* The page of a window.                                                   *)
LEMMA TopOfWindow ==
  ASSUME TabsInv, NEW w \in Windows
  PROVE  /\ w \in Handle /\ w <= opened /\ tabs[w] \in Seq(HistoryEntry) /\ Len(tabs[w]) \in Nat \ {0}
         /\ DOMAIN tabs[w] = 1 .. Len(tabs[w]) /\ Len(tabs[w]) \in DOMAIN tabs[w]
         /\ Top(w) \in HistoryEntry
         /\ Top(w).page = Blank => DOMAIN tabs[w] = {1}
         /\ Mine(w) => Top(w).page = Blank \/ Top(w).visit = visit
  <1>1. w \in Handle /\ tabs[w] \in Seq(HistoryEntry) /\ tabs[w] # <<>>
    BY DEF Windows, TabsInv
  <1>2. w <= opened
    BY <1>1, Constants DEF TabsInv
  <1>3. Len(tabs[w]) \in Nat \ {0} /\ DOMAIN tabs[w] = 1 .. Len(tabs[w])
    BY <1>1, EmptySeq, LenProperties
  <1>4. Len(tabs[w]) \in DOMAIN tabs[w] /\ Top(w) \in HistoryEntry
    BY <1>1, <1>3, ElementOfSeq DEF Top
  <1>5. Top(w).page = Blank => DOMAIN tabs[w] = {1}
    <2>1. Top(w).page = Blank => ~ (Len(tabs[w]) > 1)
      BY <1>1, <1>4 DEF Top, TabsInv
    <2> QED
      BY <1>3, <2>1
  <1>6. Mine(w) => Top(w).page = Blank \/ Top(w).visit = visit
    BY <1>4 DEF Mine, Top
  <1> QED
    BY <1>1, <1>2, <1>3, <1>4, <1>5, <1>6

-----------------------------------------------------------------------------
(* What the driver can do to its windows.                                  *)
LEMMA OneWindow ==
  ASSUME TabsInv, NEW w \in 1 .. opened, NEW h \in Seq(HistoryEntry), Replace(w, h),
         \A i \in DOMAIN h : i > 1 => h[i].page # Blank,
         Mine(w) => \A i \in DOMAIN h : h[i].page = Blank \/ h[i].visit = visit,
         opened' = opened, visit' = visit, current' \in 1 .. opened
  PROVE  /\ TabsInv' /\ KeepsMine /\ opened <= opened'
         /\ tabs'[w] = h /\ \A v \in Handle \ {w} : tabs'[v] = tabs[v]
  <1>1. w \in Handle /\ opened \in Nat
    BY Constants DEF TabsInv
  <1>2. tabs' = [tabs EXCEPT ![w] = h]
    BY DEF Replace
  <1>3. tabs'[w] = h /\ \A v \in Handle \ {w} : tabs'[v] = tabs[v]
    BY <1>1, <1>2 DEF TabsInv
  <1>4. tabs' \in [Handle -> Seq(HistoryEntry)]
    BY <1>1, <1>2 DEF TabsInv
  <1>5. TabsInv'
    <2>1. \A v \in Handle : v > opened' => tabs'[v] = <<>>
      BY <1>1, <1>3 DEF TabsInv
    <2>2. \A v \in Handle : \A i \in DOMAIN tabs'[v] : i > 1 => tabs'[v][i].page # Blank
      BY <1>3 DEF TabsInv
    <2> QED
      BY <1>4, <2>1, <2>2 DEF TabsInv
  <1>6. KeepsMine
    BY <1>1, <1>3 DEF KeepsMine, Mine
  <1> QED
    BY <1>1, <1>3, <1>5, <1>6

LEMMA Visited ==
  ASSUME TabsInv, Usable, NEW p \in Page, Visit(p, visit), UNCHANGED <<opened, current, visit>>
  PROVE  KeepsDriver /\ frame' = 0
  <1> DEFINE e == Loaded(p, visit)
             h == Append(tabs[current], e)
  <1>1. /\ current \in 1 .. opened /\ tabs[current] \in Seq(HistoryEntry) /\ current \in Handle
        /\ tabs[current] # <<>>
    BY Constants DEF TabsInv, Usable, Windows
  <1>2. e \in HistoryEntry /\ e.page # Blank /\ e.visit = visit
    BY Constants DEF Loaded, HistoryEntry, TabsInv
  <1>3. Replace(current, h) /\ frame' = 0
    BY DEF Visit
  <1>4. h \in Seq(HistoryEntry) /\ DOMAIN h = DOMAIN tabs[current] \cup {Len(tabs[current]) + 1}
        /\ h[Len(tabs[current]) + 1] = e
        /\ \A i \in DOMAIN tabs[current] : h[i] = tabs[current][i]
    <2> HIDE DEF e
    <2>1. Len(tabs[current]) \in Nat /\ DOMAIN tabs[current] = 1 .. Len(tabs[current])
      BY <1>1, LenProperties
    <2>2. 1 .. Len(tabs[current]) + 1 = (1 .. Len(tabs[current])) \cup {Len(tabs[current]) + 1}
      BY <2>1
    <2> QED
      BY <1>1, <1>2, <2>1, <2>2, Longer
  <1> HIDE DEF e, h
  <1>5. \A i \in DOMAIN h : i > 1 => h[i].page # Blank
    BY <1>1, <1>2, <1>4 DEF TabsInv
  <1>6. Mine(current) => \A i \in DOMAIN h : h[i].page = Blank \/ h[i].visit = visit
    BY <1>2, <1>4 DEF Mine
  <1>7. TabsInv' /\ KeepsMine /\ opened <= opened'
    BY <1>1, <1>3, <1>4, <1>5, <1>6, OneWindow
  <1> QED
    BY <1>3, <1>7 DEF KeepsDriver, FrameInv

LEMMA WentBack ==
  ASSUME TabsInv, Usable, Back, UNCHANGED <<opened, current, visit>>
  PROVE  KeepsDriver /\ frame' = 0
  <1> DEFINE h == tabs[current]
             g == IF Len(h) > 1 THEN SubSeq(h, 1, Len(h) - 1) ELSE h
  <1>1. current \in 1 .. opened /\ h \in Seq(HistoryEntry) /\ current \in Handle
    BY Constants DEF TabsInv, Usable, Windows
  <1>2. Replace(current, g) /\ frame' = 0
    BY DEF Back
  <1>3. g \in Seq(HistoryEntry) /\ DOMAIN g \subseteq DOMAIN h /\ \A i \in DOMAIN g : g[i] = h[i]
    <2> HIDE DEF h
    <2>1. CASE Len(h) > 1
      <3>1. g = SubSeq(h, 1, Len(h) - 1)
        BY <2>1
      <3> HIDE DEF g
      <3> QED
        BY <1>1, <2>1, <3>1, Shorter
    <2>2. CASE ~ (Len(h) > 1)
      BY <1>1, <2>2
    <2> QED
      BY <2>1, <2>2
  <1> HIDE DEF g
  <1>4. \A i \in DOMAIN g : i > 1 => g[i].page # Blank
    BY <1>1, <1>3 DEF TabsInv
  <1>5. Mine(current) => \A i \in DOMAIN g : g[i].page = Blank \/ g[i].visit = visit
    BY <1>3 DEF Mine
  <1>6. TabsInv' /\ KeepsMine /\ opened <= opened'
    BY <1>1, <1>2, <1>3, <1>4, <1>5, OneWindow
  <1> QED
    BY <1>2, <1>6 DEF KeepsDriver, FrameInv

LEMMA Closed ==
  ASSUME TabsInv, NEW w \in Windows, Replace(w, <<>>), current' \in {current, w},
         UNCHANGED <<opened, visit>>, FrameInv, frame' = 0 \/ UNCHANGED <<frame, current>>
  PROVE  /\ KeepsDriver /\ Windows' = Windows \ {w}
         /\ w = current' => ~ Usable'
  <1>1. w \in 1 .. opened /\ w \in Handle /\ opened \in Nat /\ current' \in 1 .. opened
    BY TopOfWindow, Constants DEF TabsInv
  <1>2. <<>> \in Seq(HistoryEntry) /\ DOMAIN <<>> = {}
    BY EmptySeq
  <1>3. /\ TabsInv' /\ KeepsMine /\ opened <= opened'
        /\ tabs'[w] = <<>> /\ \A v \in Handle \ {w} : tabs'[v] = tabs[v]
    BY <1>1, <1>2, OneWindow
  <1>4. Windows' = Windows \ {w}
    BY <1>1, <1>3 DEF Windows
  <1>5. FrameInv'
    <2>1. CASE frame' = 0
      BY <2>1 DEF FrameInv
    <2>2. CASE UNCHANGED <<frame, current>> /\ w = current
      BY <1>4, <2>2 DEF FrameInv, Usable
    <2>3. CASE UNCHANGED <<frame, current>> /\ w # current
      <3>1. Usable' => Usable /\ tabs'[current'] = tabs[current]
        BY <1>3, <1>4, <2>3 DEF Usable, Windows
      <3> QED
        BY <2>3, <3>1 DEF FrameInv, Top
    <2> QED
      BY <2>1, <2>2, <2>3
  <1> QED
    BY <1>3, <1>4, <1>5 DEF KeepsDriver, Usable

(* A fresh tab: whatever its window showed is gone.                        *)
LEMMA Blanked ==
  ASSUME TabsInv, FrameInv, Usable, tab_restart_browser, UNCHANGED <<opened, current, visit>>
  PROVE  KeepsDriver /\ Mine(current)' /\ frame' = 0 /\ Usable'
  <1>1. current \in Windows /\ current \in Handle /\ current \in 1 .. opened
    BY DEF Usable, Windows, TabsInv
  <1>2. CASE Top(current).page = Blank
    <2>1. UNCHANGED <<tabs, frame>>
      BY <1>2 DEF tab_restart_browser
    <2>0. frame = 0
      BY <1>2, Constants DEF FrameInv, EmptyDoc
    <2>2. DOMAIN tabs[current] = {1} /\ Top(current) = tabs[current][1]
      <3>1. DOMAIN tabs[current] = {1} /\ Len(tabs[current]) \in DOMAIN tabs[current]
        BY <1>1, <1>2, TopOfWindow
      <3> QED
        BY <3>1 DEF Top
    <2>3. Mine(current)
      BY <1>2, <2>2 DEF Mine
    <2>4. TabsInv' /\ FrameInv' /\ Mine(current)' /\ Usable' /\ KeepsMine
      BY <2>1, <2>3 DEF TabsInv, FrameInv, Usable, Windows, Top, Mine, KeepsMine
    <2> QED
      BY <2>0, <2>1, <2>4, Constants DEF KeepsDriver, TabsInv
  <1>3. CASE Top(current).page # Blank
    <2> DEFINE e == Loaded(Blank, 0)
    <2>1. Replace(current, <<e>>) /\ frame' = 0
      BY <1>3 DEF tab_restart_browser
    <2>2. e \in HistoryEntry /\ e.page = Blank
      BY DEF Loaded, HistoryEntry
    <2> HIDE DEF e
    <2>3. <<e>> \in Seq(HistoryEntry) /\ DOMAIN <<e>> = {1} /\ <<e>>[1] = e /\ <<e>> # <<>>
      BY <2>2, Single
    <2>4. /\ \A i \in DOMAIN <<e>> : i > 1 => <<e>>[i].page # Blank
          /\ \A i \in DOMAIN <<e>> : <<e>>[i].page = Blank
      BY <2>2, <2>3
    <2>5. TabsInv' /\ KeepsMine /\ opened <= opened' /\ tabs'[current] = <<e>>
      BY <1>1, <2>1, <2>3, <2>4, OneWindow
    <2>6. Mine(current)' /\ Usable'
      BY <1>1, <2>3, <2>4, <2>5 DEF Mine, Usable, Windows
    <2> QED
      BY <2>1, <2>5, <2>6 DEF KeepsDriver, FrameInv
  <1> QED
    BY <1>2, <1>3

(* Whatever leaves the windows as they are.                                *)
LEMMA LeftAlone ==
  ASSUME TabsInv, UNCHANGED <<tabs, opened, visit>>, current' \in 1 .. opened,
         FrameInv, frame' = 0 \/ UNCHANGED <<frame, current>>
  PROVE  KeepsDriver /\ Windows' = Windows
  <1>1. TabsInv' /\ KeepsMine /\ opened <= opened'
    BY Constants DEF TabsInv, KeepsMine, Mine
  <1>2. FrameInv'
    BY DEF FrameInv, Usable, Windows, Top
  <1> QED
    BY <1>1, <1>2 DEF KeepsDriver, Windows

LEMMA Switched ==
  ASSUME TabsInv, FrameInv, NEW w, SwitchTo(w), UNCHANGED <<tabs, opened, visit>>
  PROVE  KeepsDriver /\ Windows' = Windows /\ w \in Windows /\ w \in 1 .. opened
         /\ current' = w /\ frame' = 0 /\ Usable'
  <1>1. w \in Windows /\ current' = w /\ frame' = 0
    BY DEF SwitchTo
  <1>2. w \in 1 .. opened
    BY <1>1, TopOfWindow, Constants DEF TabsInv
  <1>3. KeepsDriver /\ Windows' = Windows
    BY <1>1, <1>2, LeftAlone
  <1> QED
    BY <1>1, <1>2, <1>3 DEF Usable

(* A page opens a window, which nothing knows of yet.                      *)
LEMMA PoppedUp ==
  ASSUME TabsInv, FrameInv, OpenPopup, UNCHANGED visit
  PROVE  /\ KeepsDriver /\ UNCHANGED <<current, frame, faults>>
         /\ \A w \in Handle : w <= opened => tabs'[w] = tabs[w]
         /\ \A w \in Handle : w <= opened => (w \in Windows' <=> w \in Windows)
  <1>1. PICK w \in Windows : \E p \in Dom(Top(w).page).popups : OpenWindow(w, p)
    BY DEF OpenPopup
  <1>0. PICK p \in Dom(Top(w).page).popups : OpenWindow(w, p)
    BY <1>1
  <1> DEFINE n == opened + 1
             e == Loaded(p, Top(w).visit)
  <1>2. opened < MaxWindows /\ opened' = n /\ tabs' = [tabs EXCEPT ![n] = <<e>>]
        /\ UNCHANGED <<current, frame, faults>>
    BY <1>0 DEF OpenPopup, OpenWindow, Replace
  <1>3. opened \in Nat /\ n \in Handle /\ opened < n
    BY <1>2, Constants DEF TabsInv
  <1>4. Top(w) \in HistoryEntry
    BY TopOfWindow
  <1>5. p \in Page
    <2>1. Top(w).page # Blank
      BY <1>0, Constants DEF EmptyDoc
    <2>2. Top(w).page \in Page
      BY <1>4, <2>1 DEF HistoryEntry
    <2> QED
      BY <1>0, <2>2, Constants, WebDriverAssumption
  <1>6. e \in HistoryEntry
    BY <1>4, <1>5 DEF Loaded, HistoryEntry
  <1> HIDE DEF e, n
  <1>7. <<e>> \in Seq(HistoryEntry) /\ DOMAIN <<e>> = {1}
    BY <1>6, Single
  <1>8. tabs'[n] = <<e>> /\ \A v \in Handle \ {n} : tabs'[v] = tabs[v]
    BY <1>2, <1>3 DEF TabsInv
  <1>9. tabs' \in [Handle -> Seq(HistoryEntry)]
    BY <1>2, <1>3, <1>7 DEF TabsInv
  <1>10. \A v \in Handle : v <= opened => v # n
    BY <1>3, Constants
  <1>11. TabsInv'
    <2>1. \A v \in Handle : v > opened' => tabs'[v] = <<>>
      BY <1>2, <1>3, <1>8, Constants DEF TabsInv, n
    <2>2. \A v \in Handle : \A i \in DOMAIN tabs'[v] : i > 1 => tabs'[v][i].page # Blank
      <3>1. \A i \in DOMAIN tabs'[n] : ~ (i > 1)
        BY <1>7, <1>8
      <3> QED
        BY <1>8, <3>1 DEF TabsInv
    <2>3. current' \in 1 .. opened'
      BY <1>2, <1>3 DEF TabsInv, n
    <2> QED
      BY <1>2, <1>3, <1>9, <2>1, <2>2, <2>3 DEF TabsInv
  <1>12. KeepsMine /\ \A v \in Handle : v <= opened => tabs'[v] = tabs[v]
    BY <1>8, <1>10 DEF KeepsMine, Mine
  <1>13. \A v \in Handle : v <= opened => (v \in Windows' <=> v \in Windows)
    BY <1>12 DEF Windows
  <1>14. current \in Handle /\ current <= opened
    BY Constants DEF TabsInv
  <1>15. FrameInv'
    BY <1>2, <1>12, <1>13, <1>14 DEF FrameInv, Usable, Top
  <1>16. opened <= opened'
    BY <1>2, <1>3 DEF n
  <1> QED
    BY <1>2, <1>11, <1>12, <1>13, <1>15, <1>16 DEF KeepsDriver

(* The pages that the page of the driver leads to.                         *)
LEMMA LeadsToPages ==
  ASSUME TabsInv, Usable, frame = 0
  PROVE  /\ Document.after \subseteq Page
         /\ \A l \in Document.links : l.to \in Page
  <1>1. Top(current).page \in Page \cup {Blank}
    BY TopOfWindow DEF HistoryEntry, Usable
  <1>2. Document = Dom(Top(current).page)
    BY DEF Document
  <1> QED
    BY <1>1, <1>2, Constants, WebDriverAssumption DEF EmptyDoc

-----------------------------------------------------------------------------
(* What the child knows of its command, whatever the pages do.             *)
GetPcs  == {"get", "load", "list", "close", "got"}
FillPcs == {"search", "produce", "submit", "result", "windows", "others", "follow_up", "tidy",
            "tidying", "filled", "click", "popups", "popup", "close_popup"}

ChildInv ==
  /\ main \in Handle /\ fill.landing \in Handle
  /\ pc \in GetPcs \cup FillPcs \cup {"links", "back"} => fill.landing <= opened
  /\ pc \in (GetPcs \ {"get"}) \cup FillPcs \cup {"links", "back"} => main <= opened
  /\ DOMAIN fill = DOMAIN FillInit /\ fill.ret \in {"landed", "clicked", "popup"}
  /\ url \in Page \/ pc = "script"
  /\ todo \in Seq(Kind) /\ command \in Kind /\ dropped \in BOOLEAN
  /\ pc = "click" /\ frame = 0 => fill.to \in Page
  /\ pc \in {"click", "popups", "popup", "close_popup"} => fill.ret # "landed"
  /\ pc = "back" /\ command = "FILL_FORMS" => fill.ret # "landed"
  /\ pc \in GetPcs => command \in VisitKinds /\ fill.ret = "landed"
  /\ pc \in FillPcs => command = "FILL_FORMS"
  /\ pc \in {"links", "back"} => command \in {"BROWSE", "FILL_FORMS"}
  /\ pc = "record" => command \in {"SAVE_SCREENSHOT", "DUMP_PAGE_SOURCE", "EXTRACT_LINKS"}

(* A command that looks at the page comes after one that visits it.        *)
NeedsVisit(s) ==
  \A i \in DOMAIN s : s[i] \in PageKinds => \E j \in DOMAIN s : j < i /\ s[j] \in VisitKinds
SequenceInv ==
  LET s == sequence.commands_with_timeout IN
  /\ SequenceTypeOK /\ DOMAIN sequence = DOMAIN NewSequence
  /\ NeedsVisit(s)
  /\ sequence.contains_get_or_browse => \E i \in DOMAIN s : s[i] \in VisitKinds

(* The driver is at a page of this visit, or its window is closed.         *)
Here == Mine(current) /\ (Usable => frame = 0)

GetRoute ==
  /\ pc \in {"load", "list", "got"} => current = main
  /\ pc \in {"load", "list", "close", "got"} => Mine(main) /\ frame = 0
BrowseRoute ==
  command = "BROWSE" /\ pc \in {"links", "back"} => Mine(current) /\ frame = 0

(* Other windows may show the visit before, but the driver comes back from *)
(* them to the landing page, and from an iframe to its page.               *)
FillRoute ==
  ~dropped /\ command = "FILL_FORMS" =>
    /\ pc \in FillPcs \cup {"links", "back"} /\ (fill.ret # "landed" \/ pc = "links") =>
         Mine(fill.landing)
    /\ pc \in {"links", "click", "back", "popups"} => Mine(current) /\ frame = 0
    /\ pc = "search" => frame = 0 /\ (fill.ret # "popup" => Mine(current))
    /\ pc \in {"produce", "submit", "result", "windows", "follow_up", "tidy", "filled"} => current = main
    /\ /\ pc \in {"produce", "submit", "result", "windows", "others", "follow_up", "tidy", "tidying",
                  "filled"}
       /\ fill.ret # "popup"
       => Mine(main)
    /\ /\ pc \in {"produce", "submit", "result", "windows", "others", "follow_up", "tidy"}
       /\ frame # 0
       => fill.in_iframe = TRUE
    /\ pc \in {"tidying", "filled"} => frame = 0
RecordRoute ==
  ~dropped =>
    /\ pc \in {"record", "cookies", "custom"} => Here
    /\ pc \in {"idle", "profile"} => Here \/ NeedsVisit(todo)

Base == TabsInv /\ FrameInv /\ ChildInv
EvidenceInv ==
  Base /\ SequenceInv /\ GetRoute /\ BrowseRoute /\ FillRoute /\ RecordRoute

-----------------------------------------------------------------------------
(* The commands that visit a page, and those that look at it.              *)
LEMMA SequenceKept ==
  ASSUME SequenceInv, UNCHANGED sequence
  PROVE  SequenceInv'
  BY DEF SequenceInv, SequenceTypeOK, NeedsVisit

LEMMA GetWebsiteKeeps ==
  ASSUME EvidenceInv, GetWebsite, UNCHANGED <<fillVars, sequence, todo, url>>
  PROVE  EvidenceInv' /\ KeepsDriver
  <1>1. KeepsDriver /\ Mine(current)' /\ frame' = 0 /\ Usable'
    BY Blanked DEF EvidenceInv, Base, GetWebsite
  <1>2. Base'
    BY <1>1, Constants DEF EvidenceInv, Base, ChildInv, GetWebsite, fillVars, KeepsDriver, TabsInv,
          GetPcs, FillPcs
  <1>3. GetRoute' /\ BrowseRoute' /\ FillRoute' /\ RecordRoute'
    BY <1>1 DEF EvidenceInv, Base, ChildInv, GetWebsite, fillVars, GetRoute, BrowseRoute, FillRoute,
           RecordRoute, GetPcs, FillPcs, VisitKinds, Mine
  <1> QED
    BY <1>1, <1>2, <1>3, SequenceKept DEF EvidenceInv

LEMMA LoadPageKeeps ==
  ASSUME EvidenceInv, LoadPage(url), UNCHANGED <<fillVars, sequence, todo, url>>
  PROVE  EvidenceInv' /\ KeepsDriver
  <1>1. KeepsDriver /\ frame' = 0
    BY Visited, LeftAlone DEF EvidenceInv, Base, ChildInv, GetRoute, Usable, TabsInv, LoadPage, localVars
  <1>2. Base'
    BY <1>1, Constants DEF EvidenceInv, Base, ChildInv, KeepsDriver, TabsInv, GetPcs, FillPcs,
          commandVars, localVars, fillVars, driverVars, LoadPage
  <1>3. GetRoute' /\ BrowseRoute' /\ FillRoute' /\ RecordRoute'
    BY <1>1 DEF EvidenceInv, Base, ChildInv, GetRoute, BrowseRoute, FillRoute, RecordRoute,
          Here, GetPcs, FillPcs, VisitKinds, KeepsDriver, KeepsMine,
          commandVars, localVars, fillVars, driverVars, LoadPage
  <1> QED
    BY <1>1, <1>2, <1>3, SequenceKept DEF EvidenceInv

LEMMA ListWindowsKeeps ==
  ASSUME EvidenceInv, ListWindows("list", "close", "got"), UNCHANGED <<fillVars, sequence, todo, url, frame>>
  PROVE  EvidenceInv' /\ KeepsDriver
  <1>1. KeepsDriver
    BY LeftAlone DEF EvidenceInv, Base, TabsInv, ListWindows, localVars
  <1>2. Base'
    BY <1>1, Constants DEF EvidenceInv, Base, ChildInv, KeepsDriver, TabsInv, GetPcs, FillPcs,
          commandVars, localVars, fillVars, driverVars, ListWindows
  <1>3. GetRoute' /\ BrowseRoute' /\ FillRoute' /\ RecordRoute'
    BY <1>1 DEF EvidenceInv, Base, ChildInv, GetRoute, BrowseRoute, FillRoute, RecordRoute,
          Here, GetPcs, FillPcs, VisitKinds, KeepsDriver, KeepsMine,
          commandVars, localVars, fillVars, driverVars, ListWindows
  <1> QED
    BY <1>1, <1>2, <1>3, SequenceKept DEF EvidenceInv

LEMMA CloseListedKeeps ==
  ASSUME EvidenceInv, CloseListed("close"), UNCHANGED <<fillVars, sequence, todo, url>>
  PROVE  EvidenceInv' /\ KeepsDriver
  <1>1. KeepsDriver /\ frame' = 0
    BY Closed DEF EvidenceInv, Base, CloseListed, localVars
  <1>2. Base'
    BY <1>1, Constants DEF EvidenceInv, Base, ChildInv, KeepsDriver, TabsInv, GetPcs, FillPcs,
          commandVars, localVars, fillVars, driverVars, CloseListed
  <1>3. GetRoute' /\ BrowseRoute' /\ FillRoute' /\ RecordRoute'
    BY <1>1 DEF EvidenceInv, Base, ChildInv, GetRoute, BrowseRoute, FillRoute, RecordRoute,
          Here, GetPcs, FillPcs, VisitKinds, KeepsDriver, KeepsMine,
          commandVars, localVars, fillVars, driverVars, CloseListed
  <1> QED
    BY <1>1, <1>2, <1>3, SequenceKept DEF EvidenceInv

LEMMA SwitchToMainKeeps ==
  ASSUME EvidenceInv, SwitchToMain("close", "got"), UNCHANGED <<fillVars, sequence, todo, url>>
  PROVE  EvidenceInv' /\ KeepsDriver
  <1>1. KeepsDriver /\ frame' = 0 /\ current' = main
    BY Switched DEF EvidenceInv, Base, SwitchToMain, localVars
  <1>2. Base'
    BY <1>1, Constants DEF EvidenceInv, Base, ChildInv, KeepsDriver, TabsInv, GetPcs, FillPcs,
          commandVars, localVars, fillVars, driverVars, SwitchToMain
  <1>3. GetRoute' /\ BrowseRoute' /\ FillRoute' /\ RecordRoute'
    BY <1>1 DEF EvidenceInv, Base, ChildInv, GetRoute, BrowseRoute, FillRoute, RecordRoute,
          Here, GetPcs, FillPcs, VisitKinds, KeepsDriver, KeepsMine,
          commandVars, localVars, fillVars, driverVars, SwitchToMain
  <1> QED
    BY <1>1, <1>2, <1>3, SequenceKept DEF EvidenceInv

LEMMA CurrentWindow ==
  ASSUME TabsInv  PROVE current \in Handle /\ current <= opened
  BY Constants DEF TabsInv

LEMMA GetDoneKeeps ==
  ASSUME EvidenceInv, GetDone, UNCHANGED <<fillVars, sequence, todo, url>>
  PROVE  EvidenceInv' /\ KeepsDriver
  <1>1. KeepsDriver
    BY LeftAlone DEF EvidenceInv, Base, TabsInv, driverVars, localVars, GetDone
  <1>2. Base'
    BY <1>1, Constants DEF EvidenceInv, Base, ChildInv, KeepsDriver, TabsInv, GetPcs, FillPcs,
          commandVars, localVars, fillVars, driverVars, Done, GetDone, VisitKinds
  <1>3. GetRoute' /\ BrowseRoute' /\ FillRoute' /\ RecordRoute'
    BY <1>1, CurrentWindow DEF EvidenceInv, Base, ChildInv, GetRoute, BrowseRoute, FillRoute, RecordRoute,
          Here, GetPcs, FillPcs, VisitKinds, KeepsDriver, KeepsMine,
          commandVars, localVars, fillVars, driverVars, Done, GetDone
  <1> QED
    BY <1>1, <1>2, <1>3, SequenceKept DEF EvidenceInv

LEMMA BrowseLinkKeeps ==
  ASSUME EvidenceInv, BrowseLink, UNCHANGED <<fillVars, sequence, todo, url>>
  PROVE  EvidenceInv' /\ KeepsDriver
  <1>1. KeepsDriver /\ frame' = 0
    BY Visited, LeadsToPages DEF EvidenceInv, Base, BrowseRoute, BrowseLink, IntraLinks
  <1>2. Base'
    BY <1>1, Constants DEF EvidenceInv, Base, ChildInv, KeepsDriver, TabsInv, GetPcs, FillPcs,
          commandVars, localVars, fillVars, driverVars, Done, BrowseLink
  <1>3. GetRoute' /\ BrowseRoute' /\ FillRoute' /\ RecordRoute'
    BY <1>1, CurrentWindow DEF EvidenceInv, Base, ChildInv, GetRoute, BrowseRoute, FillRoute, RecordRoute,
          Here, GetPcs, FillPcs, VisitKinds, KeepsDriver, KeepsMine,
          commandVars, localVars, fillVars, driverVars, Done, BrowseLink
  <1> QED
    BY <1>1, <1>2, <1>3, SequenceKept DEF EvidenceInv

LEMMA BrowseDoneKeeps ==
  ASSUME EvidenceInv, BrowseDone, UNCHANGED <<fillVars, sequence, todo, url>>
  PROVE  EvidenceInv' /\ KeepsDriver
  <1>1. KeepsDriver
    BY LeftAlone DEF EvidenceInv, Base, TabsInv, driverVars, localVars, BrowseDone
  <1>2. Base'
    BY <1>1, Constants DEF EvidenceInv, Base, ChildInv, KeepsDriver, TabsInv, GetPcs, FillPcs,
          commandVars, localVars, fillVars, driverVars, Done, BrowseDone
  <1>3. GetRoute' /\ BrowseRoute' /\ FillRoute' /\ RecordRoute'
    BY <1>1, CurrentWindow DEF EvidenceInv, Base, ChildInv, GetRoute, BrowseRoute, FillRoute, RecordRoute,
          Here, GetPcs, FillPcs, VisitKinds, KeepsDriver, KeepsMine,
          commandVars, localVars, fillVars, driverVars, Done, BrowseDone
  <1> QED
    BY <1>1, <1>2, <1>3, SequenceKept DEF EvidenceInv

LEMMA BrowseBackKeeps ==
  ASSUME EvidenceInv, BrowseBack, UNCHANGED <<fillVars, sequence, todo, url>>
  PROVE  EvidenceInv' /\ KeepsDriver
  <1>1. KeepsDriver /\ frame' = 0
    BY WentBack DEF EvidenceInv, Base, BrowseBack, localVars
  <1>2. Base'
    BY <1>1, Constants DEF EvidenceInv, Base, ChildInv, KeepsDriver, TabsInv, GetPcs, FillPcs,
          commandVars, localVars, fillVars, driverVars, Done, BrowseBack
  <1>3. GetRoute' /\ BrowseRoute' /\ FillRoute' /\ RecordRoute'
    BY <1>1, CurrentWindow DEF EvidenceInv, Base, ChildInv, GetRoute, BrowseRoute, FillRoute, RecordRoute,
          Here, GetPcs, FillPcs, VisitKinds, KeepsDriver, KeepsMine,
          commandVars, localVars, fillVars, driverVars, Done, BrowseBack
  <1> QED
    BY <1>1, <1>2, <1>3, SequenceKept DEF EvidenceInv

LEMMA BrowseRaisesKeeps ==
  ASSUME EvidenceInv, BrowseRaises, UNCHANGED <<fillVars, sequence, todo, url>>
  PROVE  EvidenceInv' /\ KeepsDriver
  <1>1. KeepsDriver
    BY LeftAlone DEF EvidenceInv, Base, TabsInv, driverVars, localVars, BrowseRaises
  <1>2. Base'
    BY <1>1, Constants DEF EvidenceInv, Base, ChildInv, KeepsDriver, TabsInv, GetPcs, FillPcs,
          commandVars, localVars, fillVars, driverVars, Done, BrowseRaises
  <1>3. GetRoute' /\ BrowseRoute' /\ FillRoute' /\ RecordRoute'
    BY <1>1, CurrentWindow DEF EvidenceInv, Base, ChildInv, GetRoute, BrowseRoute, FillRoute, RecordRoute,
          Here, GetPcs, FillPcs, VisitKinds, KeepsDriver, KeepsMine,
          commandVars, localVars, fillVars, driverVars, Done, BrowseRaises
  <1> QED
    BY <1>1, <1>2, <1>3, SequenceKept DEF EvidenceInv

LEMMA DumpCookiesKeeps ==
  ASSUME EvidenceInv, DumpCookies, UNCHANGED <<fillVars, sequence, todo, url>>
  PROVE  EvidenceInv' /\ KeepsDriver
  <1>1. KeepsDriver /\ Mine(current)' /\ frame' = 0
    BY Blanked DEF EvidenceInv, Base, DumpCookies, localVars
  <1>2. Base'
    BY <1>1, Constants DEF EvidenceInv, Base, ChildInv, KeepsDriver, TabsInv, GetPcs, FillPcs,
          commandVars, localVars, fillVars, driverVars, Done, DumpCookies
  <1>3. GetRoute' /\ BrowseRoute' /\ FillRoute' /\ RecordRoute'
    BY <1>1, CurrentWindow DEF EvidenceInv, Base, ChildInv, GetRoute, BrowseRoute, FillRoute, RecordRoute,
          Here, GetPcs, FillPcs, VisitKinds, KeepsDriver, KeepsMine,
          commandVars, localVars, fillVars, driverVars, Done, DumpCookies
  <1> QED
    BY <1>1, <1>2, <1>3, SequenceKept DEF EvidenceInv

LEMMA DumpProfileKeeps ==
  ASSUME EvidenceInv, DumpProfile, UNCHANGED <<fillVars, sequence, todo, url>>
  PROVE  EvidenceInv' /\ KeepsDriver
  <1>1. KeepsDriver /\ (Usable' => Usable)
    BY LeftAlone, Closed DEF EvidenceInv, Base, TabsInv, Usable, Windows, DumpProfile, localVars
  <1>2. Base'
    BY <1>1, Constants DEF EvidenceInv, Base, ChildInv, KeepsDriver, TabsInv, GetPcs, FillPcs,
          commandVars, localVars, fillVars, driverVars, Done, DumpProfile
  <1>3. GetRoute' /\ BrowseRoute' /\ FillRoute' /\ RecordRoute'
    BY <1>1, CurrentWindow DEF EvidenceInv, Base, ChildInv, GetRoute, BrowseRoute, FillRoute, RecordRoute,
          Here, GetPcs, FillPcs, VisitKinds, KeepsDriver, KeepsMine,
          commandVars, localVars, fillVars, driverVars, Done, DumpProfile
  <1> QED
    BY <1>1, <1>2, <1>3, SequenceKept DEF EvidenceInv

LEMMA RunCustomFunctionKeeps ==
  ASSUME EvidenceInv, RunCustomFunction, UNCHANGED <<fillVars, sequence, todo, url>>
  PROVE  EvidenceInv' /\ KeepsDriver
  <1>1. KeepsDriver /\ (Usable' => Usable)
    BY LeftAlone DEF EvidenceInv, Base, TabsInv, driverVars, localVars, Usable, RunCustomFunction
  <1>2. Base'
    BY <1>1, Constants DEF EvidenceInv, Base, ChildInv, KeepsDriver, TabsInv, GetPcs, FillPcs,
          commandVars, localVars, fillVars, driverVars, Done, RunCustomFunction
  <1>3. GetRoute' /\ BrowseRoute' /\ FillRoute' /\ RecordRoute'
    BY <1>1, CurrentWindow DEF EvidenceInv, Base, ChildInv, GetRoute, BrowseRoute, FillRoute, RecordRoute,
          Here, GetPcs, FillPcs, VisitKinds, KeepsDriver, KeepsMine,
          commandVars, localVars, fillVars, driverVars, Done, RunCustomFunction
  <1> QED
    BY <1>1, <1>2, <1>3, SequenceKept DEF EvidenceInv

LEMMA CommandRaisesKeeps ==
  ASSUME EvidenceInv, NEW labels, "script" \notin labels, CommandRaises(labels), UNCHANGED <<fillVars, sequence, todo, url>>
  PROVE  EvidenceInv' /\ KeepsDriver
  <1>1. KeepsDriver
    BY LeftAlone DEF EvidenceInv, Base, TabsInv, driverVars, localVars, CommandRaises
  <1>2. Base'
    BY <1>1, Constants DEF EvidenceInv, Base, ChildInv, KeepsDriver, TabsInv, GetPcs, FillPcs,
          commandVars, localVars, fillVars, driverVars, Done, CommandRaises
  <1>3. GetRoute' /\ BrowseRoute' /\ FillRoute' /\ RecordRoute'
    BY <1>1, CurrentWindow DEF EvidenceInv, Base, ChildInv, GetRoute, BrowseRoute, FillRoute, RecordRoute,
          Here, GetPcs, FillPcs, VisitKinds, KeepsDriver, KeepsMine,
          commandVars, localVars, fillVars, driverVars, Done, CommandRaises
  <1> QED
    BY <1>1, <1>2, <1>3, SequenceKept DEF EvidenceInv

(* The least index of a set that is not empty.                             *)
LEMMA FirstIsLeast ==
  ASSUME NEW S \in SUBSET (Nat \ {0}), S # {}
  PROVE  First(S) \in S /\ First(S) \in Nat \ {0} /\ \A m \in S : First(S) <= m
  <1> DEFINE Less == OpToRel(<, Nat)
  <1>1. PICK x \in S : \A y \in S : ~ (<<y, x>> \in Less)
    <2>1. IsWellFoundedOn(Less, Nat)
      BY NatLessThanWellFounded
    <2> HIDE DEF Less
    <2> QED
      BY <2>1, WFMin
  <1>2. \A y \in S : x <= y
    <2>1. \A y \in S : ~ (y < x)
      BY <1>1 DEF OpToRel
    <2> QED
      BY <2>1
  <1>3. First(S) \in S /\ \A m \in S : First(S) <= m
    BY <1>2, Zenon DEF First
  <1> QED
    BY <1>3

(* An iframe has no iframes of its own.                                    *)
LEMMA FramesOfPage ==
  ASSUME TabsInv, FrameInv, Usable
  PROVE  /\ \E p \in Page \cup {Blank} : Document = Dom(p)
         /\ frame = 0 => Document = Dom(Top(current).page)
         /\ frame # 0 => DOMAIN Document.frames = {} /\ FrameWithForm = 0
         /\ FrameWithForm # 0 =>
              /\ FrameWithForm \in DOMAIN Document.frames
              /\ Document.frames[FrameWithForm] \in Page
              /\ _find_newsletter_form(Dom(Document.frames[FrameWithForm])) # NoForm
  <1>1. Top(current).page \in Page \cup {Blank}
    BY TopOfWindow DEF HistoryEntry, Usable
  <1>2. frame = 0 => Document = Dom(Top(current).page)
    BY DEF Document
  <1>3. ASSUME frame # 0
        PROVE  /\ \E p \in Page : Document = Dom(p)
               /\ DOMAIN Document.frames = {}
    <2> DEFINE q == Top(current).page
    <2>1. frame \in DOMAIN Dom(q).frames
      BY <1>3 DEF FrameInv
    <2>2. q \in Page /\ Dom(q) = Doc[q]
      BY <1>1, <2>1, Constants DEF EmptyDoc
    <2>3. Doc[q].frames \in Seq(Page) /\ Doc[q].frames[frame] \in Page
      BY <2>1, <2>2, WebDriverAssumption, ElementOfSeq, LenProperties
    <2>4. Document = Dom(Doc[q].frames[frame]) /\ Doc[Doc[q].frames[frame]].frames = <<>>
      BY <1>3, <2>1, <2>2, WebDriverAssumption DEF Document
    <2> QED
      BY <2>3, <2>4, Constants
  <1>4. \E p \in Page \cup {Blank} : Document = Dom(p)
    BY <1>1, <1>2, <1>3
  <1> DEFINE withForm == {i \in DOMAIN Document.frames :
                            _find_newsletter_form(Dom(Document.frames[i])) # NoForm}
  <1>5. FrameWithForm = First(withForm) /\ withForm \subseteq DOMAIN Document.frames
    BY DEF FrameWithForm
  <1>6. /\ DOMAIN Document.frames \subseteq Nat \ {0}
        /\ \A i \in DOMAIN Document.frames : Document.frames[i] \in Page
    <2>1. PICK p \in Page \cup {Blank} : Document = Dom(p)
      BY <1>4
    <2>2. CASE p = Blank
      BY <2>1, <2>2, Constants DEF EmptyDoc
    <2>3. CASE p \in Page
      <3>1. Document.frames = Doc[p].frames
        BY <2>1, <2>3, Constants
      <3>2. Doc[p].frames \in Seq(Page)
        BY <2>3, WebDriverAssumption
      <3> QED
        BY <3>1, <3>2, LenProperties, ElementOfSeq
    <2> QED
      BY <2>2, <2>3
  <1>7. \A i \in withForm : _find_newsletter_form(Dom(Document.frames[i])) # NoForm
    OBVIOUS
  <1> HIDE DEF withForm
  <1>8. FrameWithForm # 0 => FrameWithForm \in withForm
    <2>1. CASE withForm = {}
      BY <1>5, <2>1 DEF First
    <2>2. CASE withForm # {}
      <3>1. withForm \in SUBSET (Nat \ {0})
        BY <1>5, <1>6
      <3> QED
        BY <1>5, <2>2, <3>1, FirstIsLeast
    <2> QED
      BY <2>1, <2>2
  <1> QED
    BY <1>2, <1>3, <1>4, <1>5, <1>6, <1>7, <1>8

LEMMA RecordPageKeeps ==
  ASSUME EvidenceInv, RecordPage, UNCHANGED <<fillVars, sequence, todo, url>>
  PROVE  EvidenceInv' /\ KeepsDriver
  <1>1. KeepsDriver
    BY LeftAlone DEF EvidenceInv, Base, TabsInv, RecordPage, driverVars, localVars
  <1>2. Base'
    BY <1>1, Constants DEF EvidenceInv, Base, ChildInv, KeepsDriver, TabsInv, GetPcs, FillPcs,
          commandVars, localVars, fillVars, driverVars, Done, RecordPage
  <1>3. GetRoute' /\ BrowseRoute' /\ FillRoute' /\ RecordRoute'
    BY <1>1, CurrentWindow DEF EvidenceInv, Base, ChildInv, GetRoute, BrowseRoute, FillRoute, RecordRoute, Usable,
          Here, GetPcs, FillPcs, VisitKinds, KeepsDriver, KeepsMine,
          commandVars, localVars, fillVars, driverVars, Done, RecordPage
  <1> QED
    BY <1>1, <1>2, <1>3, SequenceKept DEF EvidenceInv

-----------------------------------------------------------------------------
(* The commands that fill in forms.                                        *)

LEMMA FindFormKeeps ==
  ASSUME EvidenceInv, FindForm, UNCHANGED <<sequence, todo, url>>
  PROVE  EvidenceInv' /\ KeepsDriver
  <1>0. /\ pc = "search" /\ Usable /\ main' = current
        /\ UNCHANGED <<tabs, opened, current, faults, command, visit, rest, num, listed, dropped>>
        /\ DOMAIN fill' = DOMAIN fill /\ fill'.ret = fill.ret
        /\ \/ pc' = "produce" /\ fill'.landing = fill.landing
              /\ (frame' = frame \/ fill'.in_iframe = TRUE)
           \/ pc' = "links" /\ fill.ret = "landed" /\ fill'.landing = current /\ frame' = frame
           \/ pc' \in {"links", "back"} /\ fill.ret = "clicked" /\ fill' = fill /\ frame' = frame
           \/ pc' = "close_popup" /\ fill.ret = "popup" /\ fill'.landing = fill.landing
              /\ frame' = frame
    BY DEF EvidenceInv, Base, ChildInv, FillInit, FindForm, Return
  <1>1. KeepsDriver
    <2>1. FrameInv'
      <3>1. UNCHANGED <<tabs, current>> /\ (frame' = frame \/ frame' = FrameWithForm) /\ Usable
        BY DEF FindForm
      <3>2. frame # 0 => FrameWithForm = 0
        BY <3>1, FramesOfPage DEF EvidenceInv, Base
      <3>3. frame = 0 /\ FrameWithForm # 0 => FrameWithForm \in DOMAIN Dom(Top(current).page).frames
        BY <3>1, FramesOfPage DEF EvidenceInv, Base
      <3> QED
        BY <3>1, <3>2, <3>3 DEF EvidenceInv, Base, FrameInv, Top
    <2>2. TabsInv' /\ KeepsMine /\ opened <= opened'
      BY Constants DEF EvidenceInv, Base, TabsInv, KeepsMine, Mine, FindForm
    <2> QED
      BY <2>1, <2>2 DEF KeepsDriver
  <1>2. Base'
    <2>1. pc' \in {"produce", "links", "back", "close_popup"} /\ command = "FILL_FORMS"
          /\ (pc' \in {"back", "close_popup"} => fill'.ret # "landed")
      BY <1>0 DEF EvidenceInv, Base, ChildInv, FillPcs
    <2>2. fill'.landing \in {fill.landing, current}
      BY <1>0
    <2>3. /\ pc' \notin GetPcs \cup {"click", "record", "script", "popups", "popup"}
          /\ main <= opened /\ fill.landing <= opened
      BY <1>0, <2>1 DEF EvidenceInv, Base, ChildInv, GetPcs, FillPcs
    <2> QED
      BY <1>0, <1>1, <2>1, <2>2, <2>3, CurrentWindow DEF EvidenceInv, Base, ChildInv, KeepsDriver,
         FindForm
  <1>3. GetRoute' /\ BrowseRoute' /\ FillRoute' /\ RecordRoute'
    BY <1>0, <1>1, CurrentWindow DEF EvidenceInv, Base, ChildInv, GetRoute, BrowseRoute, FillRoute, RecordRoute,
          Here, GetPcs, FillPcs, VisitKinds, KeepsDriver, KeepsMine,
          commandVars, localVars, fillVars, driverVars, Done
  <1> QED
    BY <1>1, <1>2, <1>3, SequenceKept DEF EvidenceInv

LEMMA ProduceKeeps ==
  ASSUME EvidenceInv, Produce, UNCHANGED <<sequence, todo, url>>
  PROVE  EvidenceInv' /\ KeepsDriver
  <1>1. KeepsDriver
    BY LeftAlone DEF EvidenceInv, Base, TabsInv, driverVars, localVars, Produce
  <1>2. Base'
    BY <1>1, Constants DEF EvidenceInv, Base, ChildInv, KeepsDriver, TabsInv, GetPcs, FillPcs,
          commandVars, localVars, fillVars, driverVars, Done, Produce
  <1>3. GetRoute' /\ BrowseRoute' /\ FillRoute' /\ RecordRoute'
    BY <1>1, CurrentWindow DEF EvidenceInv, Base, ChildInv, GetRoute, BrowseRoute, FillRoute, RecordRoute,
          Here, GetPcs, FillPcs, VisitKinds, KeepsDriver, KeepsMine,
          commandVars, localVars, fillVars, driverVars, Done, Produce
  <1> QED
    BY <1>1, <1>2, <1>3, SequenceKept DEF EvidenceInv

LEMMA SubmittedKeeps ==
  ASSUME TabsInv, FrameInv, Usable, Submitted, UNCHANGED <<opened, current, visit>>
  PROVE  KeepsDriver /\ frame' = frame
  <1>1. CASE UNCHANGED <<tabs, frame>>
    BY <1>1, LeftAlone DEF TabsInv
  <1>2. CASE frame = 0 /\ \E p \in Document.after : Visit(p, visit)
    BY <1>2, Visited, LeadsToPages
  <1> QED
    BY <1>1, <1>2 DEF Submitted, Follow

LEMMA SubmitFormKeeps ==
  ASSUME EvidenceInv, SubmitForm, UNCHANGED <<sequence, todo, url>>
  PROVE  EvidenceInv' /\ KeepsDriver
  <1>1. KeepsDriver /\ frame' = frame
    BY SubmittedKeeps DEF EvidenceInv, Base, SubmitForm, localVars
  <1>2. Base'
    BY <1>1, Constants DEF EvidenceInv, Base, ChildInv, KeepsDriver, TabsInv, GetPcs, FillPcs,
          commandVars, localVars, fillVars, driverVars, Done, SubmitForm
  <1>3. GetRoute' /\ BrowseRoute' /\ FillRoute' /\ RecordRoute'
    BY <1>1, CurrentWindow DEF EvidenceInv, Base, ChildInv, GetRoute, BrowseRoute, FillRoute, RecordRoute,
          Here, GetPcs, FillPcs, VisitKinds, KeepsDriver, KeepsMine,
          commandVars, localVars, fillVars, driverVars, Done, SubmitForm
  <1> QED
    BY <1>1, <1>2, <1>3, SequenceKept DEF EvidenceInv

LEMMA ResultKeeps ==
  ASSUME EvidenceInv, Result, UNCHANGED <<sequence, todo, url>>
  PROVE  EvidenceInv' /\ KeepsDriver
  <1>1. KeepsDriver
    BY LeftAlone DEF EvidenceInv, Base, TabsInv, driverVars, localVars, Result
  <1>2. Base'
    BY <1>1, Constants DEF EvidenceInv, Base, ChildInv, KeepsDriver, TabsInv, GetPcs, FillPcs,
          commandVars, localVars, fillVars, driverVars, Done, Result
  <1>3. GetRoute' /\ BrowseRoute' /\ FillRoute' /\ RecordRoute'
    BY <1>1, CurrentWindow DEF EvidenceInv, Base, ChildInv, GetRoute, BrowseRoute, FillRoute, RecordRoute,
          Here, GetPcs, FillPcs, VisitKinds, KeepsDriver, KeepsMine,
          commandVars, localVars, fillVars, driverVars, Done, Result
  <1> QED
    BY <1>1, <1>2, <1>3, SequenceKept DEF EvidenceInv

LEMMA FollowUpKeeps ==
  ASSUME EvidenceInv, FollowUp, UNCHANGED <<sequence, todo, url>>
  PROVE  EvidenceInv' /\ KeepsDriver
  <1>0. /\ pc = "follow_up" /\ pc' = "tidy" /\ UNCHANGED <<opened, current, faults, rest, localVars>>
        /\ DOMAIN fill' = DOMAIN fill /\ fill'.ret = fill.ret
        /\ fill'.landing = fill.landing /\ fill'.in_iframe = fill.in_iframe
    BY DEF EvidenceInv, Base, ChildInv, FillInit, FollowUp
  <1>1. KeepsDriver /\ frame' = frame
    BY SubmittedKeeps, LeftAlone DEF EvidenceInv, Base, TabsInv, FollowUp, localVars
  <1>2. Base'
    BY <1>0, <1>1, Constants DEF EvidenceInv, Base, ChildInv, KeepsDriver, TabsInv, GetPcs, FillPcs,
          commandVars, localVars, fillVars, driverVars, Done
  <1>3. GetRoute' /\ BrowseRoute' /\ FillRoute' /\ RecordRoute'
    BY <1>0, <1>1, CurrentWindow DEF EvidenceInv, Base, ChildInv, GetRoute, BrowseRoute, FillRoute, RecordRoute,
          Here, GetPcs, FillPcs, VisitKinds, KeepsDriver, KeepsMine,
          commandVars, localVars, fillVars, driverVars, Done
  <1> QED
    BY <1>1, <1>2, <1>3, SequenceKept DEF EvidenceInv

LEMMA TidyKeeps ==
  ASSUME EvidenceInv, Tidy, UNCHANGED <<sequence, todo, url>>
  PROVE  EvidenceInv' /\ KeepsDriver
  <1>1. KeepsDriver
    BY LeftAlone DEF EvidenceInv, Base, TabsInv, driverVars, localVars, ListWindows, Tidy
  <1>2. Base'
    BY <1>1, Constants DEF EvidenceInv, Base, ChildInv, KeepsDriver, TabsInv, GetPcs, FillPcs,
          commandVars, localVars, fillVars, driverVars, Done, ListWindows, Tidy
  <1>3. GetRoute' /\ BrowseRoute' /\ FillRoute' /\ RecordRoute'
    BY <1>1, CurrentWindow DEF EvidenceInv, Base, ChildInv, GetRoute, BrowseRoute, FillRoute, RecordRoute,
          Here, GetPcs, FillPcs, VisitKinds, KeepsDriver, KeepsMine,
          commandVars, localVars, fillVars, driverVars, Done, ListWindows, Tidy
  <1> QED
    BY <1>1, <1>2, <1>3, SequenceKept DEF EvidenceInv

LEMMA FilledKeeps ==
  ASSUME EvidenceInv, Filled, UNCHANGED <<sequence, todo, url>>
  PROVE  EvidenceInv' /\ KeepsDriver
  <1>0. /\ pc = "filled" /\ UNCHANGED <<driverVars, rest, evidence, localVars>>
        /\ DOMAIN fill' = DOMAIN fill /\ fill'.ret = fill.ret /\ fill'.landing = fill.landing
        /\ \/ pc' = "idle" /\ fill.ret # "popup"
           \/ pc' = "close_popup" /\ fill.ret = "popup"
    BY DEF EvidenceInv, Base, ChildInv, FillInit, Filled, Return, Done
  <1>1. KeepsDriver
    BY LeftAlone DEF EvidenceInv, Base, TabsInv, driverVars, localVars, Filled
  <1>2. Base'
    BY <1>0, <1>1, Constants DEF EvidenceInv, Base, ChildInv, KeepsDriver, TabsInv, GetPcs, FillPcs,
          commandVars, localVars, fillVars, driverVars, Done
  <1>3. GetRoute' /\ BrowseRoute' /\ FillRoute' /\ RecordRoute'
    BY <1>0, <1>1, CurrentWindow DEF EvidenceInv, Base, ChildInv, GetRoute, BrowseRoute, FillRoute, RecordRoute,
          Here, GetPcs, FillPcs, VisitKinds, KeepsDriver, KeepsMine,
          commandVars, localVars, fillVars, driverVars, Done
  <1> QED
    BY <1>1, <1>2, <1>3, SequenceKept DEF EvidenceInv

LEMMA ListOthersKeeps ==
  ASSUME EvidenceInv, ListWindows("windows", "others", "follow_up"), UNCHANGED <<sequence, todo, url, frame, fillVars>>
  PROVE  EvidenceInv' /\ KeepsDriver
  <1>1. KeepsDriver
    BY LeftAlone DEF EvidenceInv, Base, TabsInv, driverVars, localVars, ListWindows
  <1>2. Base'
    BY <1>1, Constants DEF EvidenceInv, Base, ChildInv, KeepsDriver, TabsInv, GetPcs, FillPcs,
          commandVars, localVars, fillVars, driverVars, Done, ListWindows
  <1>3. GetRoute' /\ BrowseRoute' /\ FillRoute' /\ RecordRoute'
    BY <1>1, CurrentWindow DEF EvidenceInv, Base, ChildInv, GetRoute, BrowseRoute, FillRoute, RecordRoute,
          Here, GetPcs, FillPcs, VisitKinds, KeepsDriver, KeepsMine,
          commandVars, localVars, fillVars, driverVars, Done, ListWindows
  <1> QED
    BY <1>1, <1>2, <1>3, SequenceKept DEF EvidenceInv

LEMMA OtherWindowKeeps ==
  ASSUME EvidenceInv, NEW w \in Handle, OtherWindow(w), UNCHANGED <<sequence, todo, url>>
  PROVE  EvidenceInv' /\ KeepsDriver
  <1>0. /\ pc = "others" /\ pc' = pc /\ current' = w
        /\ UNCHANGED <<opened, faults, localVars>>
        /\ DOMAIN fill' = DOMAIN fill /\ fill'.ret = fill.ret /\ fill'.landing = fill.landing
    BY DEF EvidenceInv, Base, ChildInv, FillInit, OtherWindow
  <1>1. KeepsDriver /\ frame' = 0
    BY Closed DEF EvidenceInv, Base, OtherWindow, localVars
  <1>2. Base'
    BY <1>0, <1>1, Constants DEF EvidenceInv, Base, ChildInv, KeepsDriver, TabsInv, GetPcs, FillPcs,
          commandVars, localVars, fillVars, driverVars, Done
  <1>3. GetRoute' /\ BrowseRoute' /\ FillRoute' /\ RecordRoute'
    BY <1>0, <1>1, CurrentWindow DEF EvidenceInv, Base, ChildInv, GetRoute, BrowseRoute, FillRoute, RecordRoute,
          Here, GetPcs, FillPcs, VisitKinds, KeepsDriver, KeepsMine,
          commandVars, localVars, fillVars, driverVars, Done
  <1> QED
    BY <1>1, <1>2, <1>3, SequenceKept DEF EvidenceInv

LEMMA LookAtPopupKeeps ==
  ASSUME EvidenceInv, NEW w \in Handle, LookAtPopup(w), UNCHANGED <<sequence, todo, url>>
  PROVE  EvidenceInv' /\ KeepsDriver
  <1>0. /\ pc = "popup" /\ pc' = "search" /\ current' = w
        /\ UNCHANGED <<tabs, opened, faults, rest, evidence, localVars>>
        /\ DOMAIN fill' = DOMAIN fill /\ fill'.ret = "popup" /\ fill'.landing = fill.landing
    BY DEF EvidenceInv, Base, ChildInv, FillInit, LookAtPopup, SwitchTo
  <1>1. KeepsDriver /\ frame' = 0
    BY Switched DEF EvidenceInv, Base, LookAtPopup, localVars
  <1>2. Base'
    BY <1>0, <1>1, Constants DEF EvidenceInv, Base, ChildInv, KeepsDriver, TabsInv, GetPcs, FillPcs,
          commandVars, localVars, fillVars, driverVars, Done
  <1>3. GetRoute' /\ BrowseRoute' /\ FillRoute' /\ RecordRoute'
    BY <1>0, <1>1, CurrentWindow DEF EvidenceInv, Base, ChildInv, GetRoute, BrowseRoute, FillRoute, RecordRoute,
          Here, GetPcs, FillPcs, VisitKinds, KeepsDriver, KeepsMine,
          commandVars, localVars, fillVars, driverVars, Done
  <1> QED
    BY <1>1, <1>2, <1>3, SequenceKept DEF EvidenceInv

LEMMA BackFromOthersKeeps ==
  ASSUME EvidenceInv, SwitchToMain("others", "follow_up"), UNCHANGED <<sequence, todo, url, fillVars>>
  PROVE  EvidenceInv' /\ KeepsDriver
  <1>1. KeepsDriver /\ frame' = 0 /\ current' = main
    BY Switched DEF EvidenceInv, Base, SwitchToMain, localVars
  <1>2. Base'
    BY <1>1, Constants DEF EvidenceInv, Base, ChildInv, KeepsDriver, TabsInv, GetPcs, FillPcs,
          commandVars, localVars, fillVars, driverVars, Done, SwitchToMain
  <1>3. GetRoute' /\ BrowseRoute' /\ FillRoute' /\ RecordRoute'
    BY <1>1, CurrentWindow DEF EvidenceInv, Base, ChildInv, GetRoute, BrowseRoute, FillRoute, RecordRoute,
          Here, GetPcs, FillPcs, VisitKinds, KeepsDriver, KeepsMine,
          commandVars, localVars, fillVars, driverVars, Done, SwitchToMain
  <1> QED
    BY <1>1, <1>2, <1>3, SequenceKept DEF EvidenceInv

LEMMA CloseOthersKeeps ==
  ASSUME EvidenceInv, CloseListed("tidying"), UNCHANGED <<sequence, todo, url, fillVars>>
  PROVE  EvidenceInv' /\ KeepsDriver
  <1>1. KeepsDriver /\ frame' = 0
    BY Closed DEF EvidenceInv, Base, CloseListed, localVars
  <1>2. Base'
    BY <1>1, Constants DEF EvidenceInv, Base, ChildInv, KeepsDriver, TabsInv, GetPcs, FillPcs,
          commandVars, localVars, fillVars, driverVars, Done, CloseListed
  <1>3. GetRoute' /\ BrowseRoute' /\ FillRoute' /\ RecordRoute'
    BY <1>1, CurrentWindow DEF EvidenceInv, Base, ChildInv, GetRoute, BrowseRoute, FillRoute, RecordRoute,
          Here, GetPcs, FillPcs, VisitKinds, KeepsDriver, KeepsMine,
          commandVars, localVars, fillVars, driverVars, Done, CloseListed
  <1> QED
    BY <1>1, <1>2, <1>3, SequenceKept DEF EvidenceInv

LEMMA TidiedKeeps ==
  ASSUME EvidenceInv, SwitchToMain("tidying", "filled"), UNCHANGED <<sequence, todo, url, fillVars>>
  PROVE  EvidenceInv' /\ KeepsDriver
  <1>1. KeepsDriver /\ frame' = 0 /\ current' = main
    BY Switched DEF EvidenceInv, Base, SwitchToMain, localVars
  <1>2. Base'
    BY <1>1, Constants DEF EvidenceInv, Base, ChildInv, KeepsDriver, TabsInv, GetPcs, FillPcs,
          commandVars, localVars, fillVars, driverVars, Done, SwitchToMain
  <1>3. GetRoute' /\ BrowseRoute' /\ FillRoute' /\ RecordRoute'
    BY <1>1, CurrentWindow DEF EvidenceInv, Base, ChildInv, GetRoute, BrowseRoute, FillRoute, RecordRoute,
          Here, GetPcs, FillPcs, VisitKinds, KeepsDriver, KeepsMine,
          commandVars, localVars, fillVars, driverVars, Done, SwitchToMain
  <1> QED
    BY <1>1, <1>2, <1>3, SequenceKept DEF EvidenceInv

LEMMA BestLeadToPages ==
  ASSUME TabsInv, Usable, frame = 0, NEW slow, NEW l \in BestLinks(LinksHere, slow)
  PROVE  l.to \in Page
  <1>1. BestLinks(LinksHere, slow) \subseteq LinksHere
    BY DEF BestLinks
  <1>2. \A m \in LinksHere : \E k \in Document.links : m.to = k.to
    BY DEF LinksHere, MatchLinks
  <1>3. \A k \in Document.links : k.to \in Page
    BY LeadsToPages
  <1> QED
    BY <1>1, <1>2, <1>3

LEMMA ChooseLinkKeeps ==
  ASSUME EvidenceInv, ChooseLink, UNCHANGED <<sequence, todo, url>>
  PROVE  EvidenceInv' /\ KeepsDriver
  <1>0. /\ pc = "links" /\ pc' = "click" /\ command = "FILL_FORMS"
        /\ UNCHANGED <<driverVars, rest, evidence, listed, dropped, command, visit, main>>
        /\ DOMAIN fill' = DOMAIN fill /\ fill'.ret = "clicked" /\ fill'.landing = fill.landing
        /\ frame = 0 => fill'.to \in Page
    BY BestLeadToPages DEF EvidenceInv, Base, ChildInv, FillInit, ChooseLink
  <1>1. KeepsDriver
    BY LeftAlone DEF EvidenceInv, Base, TabsInv, driverVars, localVars, ChooseLink
  <1>2. Base'
    BY <1>0, <1>1, Constants DEF EvidenceInv, Base, ChildInv, KeepsDriver, TabsInv, GetPcs, FillPcs,
          commandVars, localVars, fillVars, driverVars, Done
  <1>3. GetRoute' /\ BrowseRoute' /\ FillRoute' /\ RecordRoute'
    BY <1>0, <1>1, CurrentWindow DEF EvidenceInv, Base, ChildInv, GetRoute, BrowseRoute, FillRoute, RecordRoute,
          Here, GetPcs, FillPcs, VisitKinds, KeepsDriver, KeepsMine,
          commandVars, localVars, fillVars, driverVars, Done
  <1> QED
    BY <1>1, <1>2, <1>3, SequenceKept DEF EvidenceInv

LEMMA NoMoreLinksKeeps ==
  ASSUME EvidenceInv, NoMoreLinks, UNCHANGED <<sequence, todo, url>>
  PROVE  EvidenceInv' /\ KeepsDriver
  <1>1. KeepsDriver
    BY LeftAlone DEF EvidenceInv, Base, TabsInv, driverVars, localVars, NoMoreLinks
  <1>2. Base'
    BY <1>1, Constants DEF EvidenceInv, Base, ChildInv, KeepsDriver, TabsInv, GetPcs, FillPcs,
          commandVars, localVars, fillVars, driverVars, Done, NoMoreLinks
  <1>3. GetRoute' /\ BrowseRoute' /\ FillRoute' /\ RecordRoute'
    BY <1>1, CurrentWindow DEF EvidenceInv, Base, ChildInv, GetRoute, BrowseRoute, FillRoute, RecordRoute,
          Here, GetPcs, FillPcs, VisitKinds, KeepsDriver, KeepsMine,
          commandVars, localVars, fillVars, driverVars, Done, NoMoreLinks
  <1> QED
    BY <1>1, <1>2, <1>3, SequenceKept DEF EvidenceInv

LEMMA ClickLinkKeeps ==
  ASSUME EvidenceInv, ClickLink, UNCHANGED <<sequence, todo, url>>
  PROVE  EvidenceInv' /\ KeepsDriver
  <1>1. KeepsDriver /\ frame' = frame
    <2>1. CASE frame = 0
      BY <2>1, Visited DEF EvidenceInv, Base, ChildInv, Follow, ClickLink, localVars
    <2>2. CASE frame # 0
      BY <2>2, LeftAlone DEF EvidenceInv, Base, TabsInv, Follow, ClickLink, localVars
    <2> QED
      BY <2>1, <2>2
  <1>2. Base'
    BY <1>1, Constants DEF EvidenceInv, Base, ChildInv, KeepsDriver, TabsInv, GetPcs, FillPcs,
          commandVars, localVars, fillVars, driverVars, Done, ClickLink
  <1>3. GetRoute' /\ BrowseRoute' /\ FillRoute' /\ RecordRoute'
    BY <1>1, CurrentWindow DEF EvidenceInv, Base, ChildInv, GetRoute, BrowseRoute, FillRoute, RecordRoute,
          Here, GetPcs, FillPcs, VisitKinds, KeepsDriver, KeepsMine,
          commandVars, localVars, fillVars, driverVars, Done, ClickLink
  <1> QED
    BY <1>1, <1>2, <1>3, SequenceKept DEF EvidenceInv

LEMMA GoBackKeeps ==
  ASSUME EvidenceInv, GoBack, UNCHANGED <<sequence, todo, url>>
  PROVE  EvidenceInv' /\ KeepsDriver
  <1>1. KeepsDriver /\ frame' = 0
    BY WentBack DEF EvidenceInv, Base, GoBack, localVars
  <1>2. Base'
    BY <1>1, Constants DEF EvidenceInv, Base, ChildInv, KeepsDriver, TabsInv, GetPcs, FillPcs,
          commandVars, localVars, fillVars, driverVars, Done, GoBack
  <1>3. GetRoute' /\ BrowseRoute' /\ FillRoute' /\ RecordRoute'
    BY <1>1, CurrentWindow DEF EvidenceInv, Base, ChildInv, GetRoute, BrowseRoute, FillRoute, RecordRoute,
          Here, GetPcs, FillPcs, VisitKinds, KeepsDriver, KeepsMine,
          commandVars, localVars, fillVars, driverVars, Done, GoBack
  <1> QED
    BY <1>1, <1>2, <1>3, SequenceKept DEF EvidenceInv

LEMMA ListPopupsKeeps ==
  ASSUME EvidenceInv, ListPopups, UNCHANGED <<sequence, todo, url>>
  PROVE  EvidenceInv' /\ KeepsDriver
  <1>0. /\ pc = "popups" /\ pc' \in {"popup", "links"}
        /\ UNCHANGED <<driverVars, rest, evidence, localVars>>
        /\ DOMAIN fill' = DOMAIN fill /\ fill'.ret = fill.ret /\ fill'.landing = fill.landing
    BY DEF EvidenceInv, Base, ChildInv, FillInit, ListPopups
  <1>1. KeepsDriver
    BY LeftAlone DEF EvidenceInv, Base, TabsInv, driverVars, localVars, ListPopups
  <1>2. Base'
    BY <1>0, <1>1, Constants DEF EvidenceInv, Base, ChildInv, KeepsDriver, TabsInv, GetPcs, FillPcs,
          commandVars, localVars, fillVars, driverVars, Done
  <1>3. GetRoute' /\ BrowseRoute' /\ FillRoute' /\ RecordRoute'
    BY <1>0, <1>1, CurrentWindow DEF EvidenceInv, Base, ChildInv, GetRoute, BrowseRoute, FillRoute, RecordRoute,
          Here, GetPcs, FillPcs, VisitKinds, KeepsDriver, KeepsMine,
          commandVars, localVars, fillVars, driverVars, Done
  <1> QED
    BY <1>1, <1>2, <1>3, SequenceKept DEF EvidenceInv

LEMMA ClosePopupKeeps ==
  ASSUME EvidenceInv, ClosePopup, UNCHANGED <<sequence, todo, url>>
  PROVE  EvidenceInv' /\ KeepsDriver
  <1>1. KeepsDriver
    BY Closed DEF EvidenceInv, Base, ClosePopup, Usable, localVars
  <1>2. Base'
    BY <1>1, Constants DEF EvidenceInv, Base, ChildInv, KeepsDriver, TabsInv, GetPcs, FillPcs,
          commandVars, localVars, fillVars, driverVars, Done, ClosePopup
  <1>3. GetRoute' /\ BrowseRoute' /\ FillRoute' /\ RecordRoute'
    BY <1>1, CurrentWindow DEF EvidenceInv, Base, ChildInv, GetRoute, BrowseRoute, FillRoute, RecordRoute,
          Here, GetPcs, FillPcs, VisitKinds, KeepsDriver, KeepsMine,
          commandVars, localVars, fillVars, driverVars, Done, ClosePopup
  <1> QED
    BY <1>1, <1>2, <1>3, SequenceKept DEF EvidenceInv

LEMMA PopupsDoneKeeps ==
  ASSUME EvidenceInv, PopupsDone, UNCHANGED <<sequence, todo, url>>
  PROVE  EvidenceInv' /\ KeepsDriver
  <1>1. KeepsDriver /\ frame' = 0 /\ current' = fill.landing
    BY Switched DEF EvidenceInv, Base, PopupsDone, localVars
  <1>2. Base'
    BY <1>1, Constants DEF EvidenceInv, Base, ChildInv, KeepsDriver, TabsInv, GetPcs, FillPcs,
          commandVars, localVars, fillVars, driverVars, Done, PopupsDone
  <1>3. GetRoute' /\ BrowseRoute' /\ FillRoute' /\ RecordRoute'
    BY <1>1, CurrentWindow DEF EvidenceInv, Base, ChildInv, GetRoute, BrowseRoute, FillRoute, RecordRoute,
          Here, GetPcs, FillPcs, VisitKinds, KeepsDriver, KeepsMine,
          commandVars, localVars, fillVars, driverVars, Done, PopupsDone
  <1> QED
    BY <1>1, <1>2, <1>3, SequenceKept DEF EvidenceInv

LEMMA FillRaisesKeeps ==
  ASSUME EvidenceInv, FillRaises, UNCHANGED <<sequence, todo, url>>
  PROVE  EvidenceInv' /\ KeepsDriver
  <1>1. KeepsDriver
    <2>1. FrameInv'
      <3>1. UNCHANGED <<tabs, current>> /\ (Usable' => Usable)
            /\ (frame' = frame \/ (Usable /\ frame' \in DOMAIN Document.frames))
        BY DEF FillRaises, Usable, Windows
      <3>2. Usable /\ frame # 0 => DOMAIN Document.frames = {}
        BY FramesOfPage DEF EvidenceInv, Base
      <3>3. Usable /\ frame = 0 => Document = Dom(Top(current).page)
        BY FramesOfPage DEF EvidenceInv, Base
      <3> QED
        BY <3>1, <3>2, <3>3 DEF EvidenceInv, Base, FrameInv, Top
    <2>2. TabsInv' /\ KeepsMine /\ opened <= opened'
      BY Constants DEF EvidenceInv, Base, TabsInv, KeepsMine, Mine, FillRaises
    <2> QED
      BY <2>1, <2>2 DEF KeepsDriver
  <1>2. Base'
    BY <1>1, Constants DEF EvidenceInv, Base, ChildInv, KeepsDriver, TabsInv, GetPcs, FillPcs,
          commandVars, localVars, fillVars, driverVars, Done, FillRaises, FillLabels
  <1>3. GetRoute' /\ BrowseRoute' /\ FillRoute' /\ RecordRoute'
    BY <1>1, CurrentWindow DEF EvidenceInv, Base, ChildInv, GetRoute, BrowseRoute, FillRoute, RecordRoute,
          Here, GetPcs, FillPcs, VisitKinds, KeepsDriver, KeepsMine,
          commandVars, localVars, fillVars, driverVars, Done, FillRaises
  <1> QED
    BY <1>1, <1>2, <1>3, SequenceKept DEF EvidenceInv

-----------------------------------------------------------------------------
(* What scripts queue, and what the child takes from it.                   *)
LEMMA QueuedNeedsVisit ==
  ASSUME NEW s \in Seq(Kind), NEW k \in Kind, NeedsVisit(s),
         k \in PageKinds => \E i \in DOMAIN s : s[i] \in VisitKinds
  PROVE  /\ Append(s, k) \in Seq(Kind) /\ NeedsVisit(Append(s, k))
         /\ k \in VisitKinds \/ (\E i \in DOMAIN s : s[i] \in VisitKinds) =>
              \E i \in DOMAIN Append(s, k) : Append(s, k)[i] \in VisitKinds
  <1> DEFINE t == Append(s, k)
  <1>1. /\ Len(s) \in Nat /\ DOMAIN s = 1 .. Len(s)
        /\ t \in Seq(Kind) /\ DOMAIN t = 1 .. Len(s) + 1
        /\ \A i \in DOMAIN s : t[i] = s[i]
        /\ t[Len(s) + 1] = k
    BY AppendProperties, LenProperties
  <1> HIDE DEF t
  <1>2. NeedsVisit(t)
    <2>1. SUFFICES ASSUME NEW i \in DOMAIN t, t[i] \in PageKinds
                   PROVE  \E j \in DOMAIN t : j < i /\ t[j] \in VisitKinds
      BY DEF NeedsVisit
    <2>2. \A j \in DOMAIN s : j \in DOMAIN t /\ j < Len(s) + 1
      BY <1>1
    <2>3. CASE i \in DOMAIN s
      <3>1. PICK j \in DOMAIN s : j < i /\ s[j] \in VisitKinds
        BY <1>1, <2>1, <2>3 DEF NeedsVisit
      <3> QED
        BY <1>1, <2>2, <3>1
    <2>4. CASE i = Len(s) + 1
      <3>1. PICK j \in DOMAIN s : s[j] \in VisitKinds
        BY <1>1, <2>1, <2>4
      <3> QED
        BY <1>1, <2>2, <2>4, <3>1
    <2> QED
      BY <1>1, <2>3, <2>4
  <1>3. (\E i \in DOMAIN s : s[i] \in VisitKinds) => \E i \in DOMAIN t : t[i] \in VisitKinds
    BY <1>1
  <1>4. k \in VisitKinds => \E i \in DOMAIN t : t[i] \in VisitKinds
    BY <1>1
  <1> QED
    BY <1>1, <1>2, <1>3, <1>4 DEF t

LEMMA TakenNeedsVisit ==
  ASSUME NEW s \in Seq(Kind), s # <<>>
  PROVE  /\ Head(s) \in Kind /\ Tail(s) \in Seq(Kind)
         /\ NeedsVisit(s) => Head(s) \notin PageKinds
         /\ NeedsVisit(s) /\ Head(s) \notin VisitKinds => NeedsVisit(Tail(s))
  <1> DEFINE t == Tail(s)
  <1>1. Len(s) \in Nat \ {0} /\ DOMAIN s = 1 .. Len(s)
    BY EmptySeq, LenProperties
  <1>2. /\ Head(s) \in Kind /\ Head(s) = s[1] /\ t \in Seq(Kind)
        /\ DOMAIN t = 1 .. Len(s) - 1 /\ \A i \in 1 .. Len(s) - 1 : t[i] = s[i + 1]
    BY <1>1, HeadTailProperties, LenProperties
  <1>3. NeedsVisit(s) => Head(s) \notin PageKinds
    <2>1. \A j \in DOMAIN s : ~ (j < 1)
      BY <1>1
    <2> QED
      BY <1>1, <1>2, <2>1 DEF NeedsVisit
  <1> HIDE DEF t
  <1>4. ASSUME NeedsVisit(s), Head(s) \notin VisitKinds  PROVE NeedsVisit(t)
    <2>1. SUFFICES ASSUME NEW i \in DOMAIN t, t[i] \in PageKinds
                   PROVE  \E j \in DOMAIN t : j < i /\ t[j] \in VisitKinds
      BY DEF NeedsVisit
    <2>2. i + 1 \in DOMAIN s /\ s[i + 1] = t[i] /\ i \in Nat
      BY <1>1, <1>2
    <2>3. PICK j \in DOMAIN s : j < i + 1 /\ s[j] \in VisitKinds
      BY <1>4, <2>1, <2>2 DEF NeedsVisit
    <2>4. j # 1
      BY <1>2, <1>4, <2>3
    <2>5. j - 1 \in DOMAIN t /\ t[j - 1] = s[j] /\ j - 1 < i
      BY <1>1, <1>2, <2>2, <2>3, <2>4
    <2> QED
      BY <2>3, <2>5
  <1> QED
    BY <1>2, <1>3, <1>4 DEF t

LEMMA QueuedKeepsSequence ==
  ASSUME NEW q, NEW k \in Kind, NeedsVisit(q.commands_with_timeout),
         q.commands_with_timeout \in Seq(Kind), q.total_timeout \in Nat,
         q.contains_get_or_browse \in BOOLEAN, DOMAIN q = DOMAIN NewSequence,
         q.contains_get_or_browse =>
           \E i \in DOMAIN q.commands_with_timeout : q.commands_with_timeout[i] \in VisitKinds,
         k \in PageKinds => q.contains_get_or_browse, NEW r, r = Queued(q, k)
  PROVE  /\ r.commands_with_timeout = Append(q.commands_with_timeout, k)
         /\ r.commands_with_timeout \in Seq(Kind) /\ NeedsVisit(r.commands_with_timeout)
         /\ r.total_timeout \in Nat /\ r.contains_get_or_browse \in BOOLEAN
         /\ DOMAIN r = DOMAIN NewSequence
         /\ r.contains_get_or_browse =>
              \E i \in DOMAIN r.commands_with_timeout : r.commands_with_timeout[i] \in VisitKinds
  <1>1. /\ r.commands_with_timeout = Append(q.commands_with_timeout, k)
        /\ r.total_timeout = q.total_timeout + 1
        /\ DOMAIN r = DOMAIN NewSequence
        /\ r.contains_get_or_browse = (q.contains_get_or_browse \/ k \in VisitKinds)
    BY DEF Queued, Timed, NewSequence
  <1>2. r.contains_get_or_browse \in BOOLEAN
    BY <1>1
  <1>3. r.contains_get_or_browse => q.contains_get_or_browse \/ k \in VisitKinds
    BY <1>1
  <1> QED
    BY <1>1, <1>2, <1>3, QueuedNeedsVisit

LEMMA EmptySequence ==
  /\ NeedsVisit(<<>>) /\ <<>> \in Seq(Kind) /\ NewSequence.total_timeout \in Nat
  /\ NewSequence.commands_with_timeout = <<>> /\ NewSequence.contains_get_or_browse = FALSE
  BY EmptySeq DEF NeedsVisit, NewSequence

LEMMA BuildKeeps ==
  ASSUME EvidenceInv, Build
  PROVE  EvidenceInv'
  <1>1. UNCHANGED <<driverVars, commandVars, fillVars, todo, url>>
    BY DEF Build
  <1>2. Base' /\ GetRoute' /\ BrowseRoute' /\ FillRoute' /\ RecordRoute'
    BY <1>1 DEF EvidenceInv, Base, TabsInv, FrameInv, ChildInv, GetRoute, BrowseRoute, FillRoute,
          RecordRoute, Here, Mine, NeedsVisit, Usable, Windows, Top, driverVars,
          commandVars, fillVars
  <1>3. SequenceInv'
    <2>1. \A k \in Kind : (k \in PageKinds => sequence.contains_get_or_browse)
                            /\ sequence' = Queued(sequence, k) => SequenceInv'
      BY QueuedKeepsSequence DEF EvidenceInv, SequenceInv, SequenceTypeOK
    <2>2. sequence' = Timed(sequence) => SequenceInv'
      <3>1. ASSUME sequence' = Timed(sequence)
            PROVE  /\ sequence'.commands_with_timeout = sequence.commands_with_timeout
                   /\ sequence'.contains_get_or_browse = sequence.contains_get_or_browse
                   /\ sequence'.total_timeout = sequence.total_timeout + 1
                   /\ DOMAIN sequence' = DOMAIN sequence
        BY <3>1 DEF EvidenceInv, SequenceInv, NewSequence, Timed
      <3> QED
        BY <3>1 DEF EvidenceInv, SequenceInv, SequenceTypeOK, NeedsVisit
    <2>3. "DUMP_PROF" \in Kind \ PageKinds /\ VisitKinds \subseteq Kind \ PageKinds
          /\ PageKinds \subseteq Kind
      BY DEF Kind, FreeKinds, VisitKinds, PageKinds
    <2> QED
      BY <2>1, <2>2, <2>3 DEF Build, AddVisit, AddPageCommand, AddDumpProfile
  <1> QED
    BY <1>2, <1>3 DEF EvidenceInv

LEMMA VisitKeeps ==
  ASSUME EvidenceInv, NEW s, execute_command_sequence(s), NeedsVisit(s.commands_with_timeout),
         s.commands_with_timeout \in Seq(Kind)
  PROVE  Base' /\ GetRoute' /\ BrowseRoute' /\ FillRoute' /\ RecordRoute'
  <1>1. /\ UNCHANGED <<driverVars, command, main, rest, num, fillVars>>
        /\ url' \in Page /\ visit' = visit + 1 /\ todo' = s.commands_with_timeout
        /\ evidence' = {} /\ dropped' = FALSE /\ pc' = "idle"
    BY CommandsAssumption DEF execute_command_sequence
  <1>2. TabsInv' /\ FrameInv'
    BY <1>1 DEF EvidenceInv, Base, TabsInv, FrameInv, Usable, Windows, Top, driverVars
  <1>3. ChildInv'
    BY <1>1 DEF EvidenceInv, Base, ChildInv, GetPcs, FillPcs, driverVars, fillVars
  <1>4. GetRoute' /\ BrowseRoute' /\ FillRoute' /\ RecordRoute'
    BY <1>1 DEF GetRoute, BrowseRoute, FillRoute, RecordRoute, FillPcs, NeedsVisit
  <1> QED
    BY <1>2, <1>3, <1>4 DEF Base

LEMMA ExecuteKeeps ==
  ASSUME EvidenceInv, Execute \/ ManagerGet
  PROVE  EvidenceInv'
  <1>1. CASE Execute
    <2>1. NeedsVisit(sequence.commands_with_timeout)
          /\ sequence.commands_with_timeout \in Seq(Kind)
      BY DEF EvidenceInv, SequenceInv, SequenceTypeOK
    <2>2. SequenceInv'
      BY <1>1, EmptySequence DEF Execute, SequenceInv, SequenceTypeOK
    <2> QED
      BY <1>1, <2>1, <2>2, VisitKeeps DEF Execute, EvidenceInv
  <1>2. CASE ManagerGet
    <2>1. PICK kind \in Calls \cap {"GET", "BROWSE"} :
            execute_command_sequence(Queued(NewSequence, kind)) /\ UNCHANGED sequence
      BY <1>2 DEF ManagerGet
    <2>2. kind \in Kind \ PageKinds
      BY DEF Kind, FreeKinds, VisitKinds, PageKinds
    <2>3. NeedsVisit(Queued(NewSequence, kind).commands_with_timeout)
          /\ Queued(NewSequence, kind).commands_with_timeout \in Seq(Kind)
      BY <2>2, EmptySequence, QueuedKeepsSequence
    <2>4. SequenceInv'
      BY <2>1, SequenceKept DEF EvidenceInv
    <2> QED
      BY <2>1, <2>3, <2>4, VisitKeeps DEF EvidenceInv
  <1> QED
    BY <1>1, <1>2

LEMMA ExecuteCommandKeeps ==
  ASSUME EvidenceInv, execute_command
  PROVE  EvidenceInv'
  <1> DEFINE kind == Head(todo)
  <1>1. /\ pc = "idle" /\ command' = kind /\ todo' = Tail(todo) /\ pc' = Entry(kind)
        /\ fill' = FillInit /\ UNCHANGED <<driverVars, visit, main, evidence, dropped, sequence, url>>
    BY DEF execute_command
  <1>2. /\ kind \in Kind /\ todo' \in Seq(Kind)
        /\ NeedsVisit(todo) => kind \notin PageKinds
        /\ NeedsVisit(todo) /\ kind \notin VisitKinds => NeedsVisit(todo')
    BY TakenNeedsVisit DEF EvidenceInv, Base, ChildInv, execute_command
  <1> HIDE DEF kind
  <1>3. \/ kind \in VisitKinds /\ pc' = "get"
        \/ kind = "DUMP_PROF" /\ pc' = "profile" /\ kind \notin VisitKinds
        \/ /\ kind \in PageKinds /\ pc' \in {"record", "cookies", "custom"}
           /\ pc' = "record" => kind \in {"SAVE_SCREENSHOT", "DUMP_PAGE_SOURCE", "EXTRACT_LINKS"}
    BY <1>1, <1>2 DEF Kind, FreeKinds, VisitKinds, PageKinds, Entry
  <1>4. TabsInv' /\ FrameInv'
    BY <1>1 DEF EvidenceInv, Base, TabsInv, FrameInv, Usable, Windows, Top, driverVars
  <1>5. ChildInv'
    <2>1. fill'.landing = 1 /\ fill'.ret = "landed" /\ DOMAIN fill' = DOMAIN FillInit
      BY <1>1 DEF FillInit
    <2>2. 1 \in Handle /\ 1 <= opened'
      BY <1>4, Constants DEF TabsInv
    <2>3. pc' \in {"get", "profile", "record", "cookies", "custom"} /\ (pc' = "get" => kind \in VisitKinds)
          /\ (pc' = "record" => kind \in {"SAVE_SCREENSHOT", "DUMP_PAGE_SOURCE", "EXTRACT_LINKS"})
      BY <1>3 DEF VisitKinds, PageKinds
    <2> QED
      BY <1>1, <1>2, <2>1, <2>2, <2>3 DEF EvidenceInv, Base, ChildInv, GetPcs, FillPcs, driverVars
  <1>6. RecordRoute'
    <2>1. Here' <=> Here
      BY <1>1 DEF Here, Mine, Usable, Windows, driverVars
    <2>2. ~dropped => Here \/ NeedsVisit(todo)
      BY <1>1 DEF EvidenceInv, RecordRoute
    <2>3. pc' # "idle" /\ dropped' = dropped
      BY <1>1, <1>3
    <2>4. ~dropped /\ pc' \in {"record", "cookies", "custom"} => Here
      BY <1>2, <1>3, <2>2
    <2>5. ~dropped /\ pc' = "profile" => Here \/ NeedsVisit(todo')
      BY <1>2, <1>3, <2>2
    <2> QED
      BY <2>1, <2>3, <2>4, <2>5 DEF RecordRoute
  <1>7. GetRoute' /\ BrowseRoute' /\ FillRoute'
    BY <1>1, <1>3 DEF EvidenceInv, GetRoute, BrowseRoute, FillRoute, FillPcs, driverVars
  <1> QED
    BY <1>1, <1>4, <1>5, <1>6, <1>7, SequenceKept DEF EvidenceInv, Base

LEMMA VisitDoneKeeps ==
  ASSUME EvidenceInv, VisitDone
  PROVE  EvidenceInv'
  <1>1. KeepsDriver
    BY LeftAlone DEF EvidenceInv, Base, TabsInv, driverVars, VisitDone
  <1> QED
    BY <1>1, SequenceKept DEF VisitDone, EvidenceInv, Base, KeepsDriver, ChildInv, GetRoute, BrowseRoute,
       FillRoute, RecordRoute, GetPcs, FillPcs, driverVars, fillVars

LEMMA CommandFailedKeeps ==
  ASSUME EvidenceInv, CommandFailed
  PROVE  EvidenceInv'
  <1> DEFINE e == Loaded(Blank, 0)
  <1>1. /\ tabs' = Fresh /\ opened' = 1 /\ current' = 1 /\ frame' = 0 /\ todo' = <<>> /\ pc' = "script"
        /\ UNCHANGED <<command, visit, main, evidence, dropped, fillVars, sequence, url>>
    BY DEF CommandFailed
  <1>2. e \in HistoryEntry
    BY DEF Loaded, HistoryEntry
  <1>3. Fresh = [w \in Handle |-> IF w = 1 THEN <<e>> ELSE <<>>]
    BY DEF Fresh
  <1> HIDE DEF e
  <1>4. <<e>> \in Seq(HistoryEntry) /\ <<>> \in Seq(HistoryEntry) /\ DOMAIN <<e>> = {1}
        /\ DOMAIN <<>> = {}
    BY <1>2, Single, EmptySeq
  <1>5. TabsInv'
    BY <1>1, <1>3, <1>4, Constants DEF EvidenceInv, Base, TabsInv
  <1>6. FrameInv' /\ ChildInv'
    BY <1>1, <1>4, EmptySequence DEF EvidenceInv, Base, FrameInv, ChildInv, GetPcs, FillPcs, fillVars
  <1>7. GetRoute' /\ BrowseRoute' /\ FillRoute' /\ RecordRoute'
    BY <1>1 DEF EvidenceInv, GetRoute, BrowseRoute, FillRoute, RecordRoute, FillPcs
  <1> QED
    BY <1>1, <1>5, <1>6, <1>7, SequenceKept DEF EvidenceInv, Base

LEMMA OpenPopupKeeps ==
  ASSUME EvidenceInv, OpenPopup, UNCHANGED <<commandVars, fillVars, sequence, todo, url>>
  PROVE  EvidenceInv' /\ KeepsDriver
  <1>1. KeepsDriver /\ UNCHANGED <<current, frame, faults, visit>>
        /\ \A w \in Handle : w <= opened => (w \in Windows' <=> w \in Windows)
    BY PoppedUp DEF EvidenceInv, Base, commandVars
  <1>2. Usable' <=> Usable
    BY <1>1, CurrentWindow DEF EvidenceInv, Base, Usable
  <1>3. Here => Here'
    BY <1>1, <1>2, CurrentWindow DEF EvidenceInv, Base, Here, KeepsDriver, KeepsMine
  <1>4. Base'
    <2>1. opened \in Nat /\ opened' \in Nat /\ Handle \subseteq Nat
      BY <1>1, Constants DEF EvidenceInv, Base, KeepsDriver, TabsInv
    <2>2. \A w \in Handle : w <= opened => w <= opened'
      BY <1>1, <2>1 DEF KeepsDriver
    <2>3. UNCHANGED <<commandVars, fillVars, todo, url, frame>>
      BY <1>1
    <2>4. ChildInv'
      BY <2>2, <2>3 DEF EvidenceInv, Base, ChildInv, commandVars, fillVars
    <2> QED
      BY <1>1, <2>4 DEF Base, KeepsDriver
  <1>5. GetRoute' /\ BrowseRoute' /\ FillRoute' /\ RecordRoute'
    BY <1>1, <1>3, CurrentWindow DEF EvidenceInv, Base, ChildInv, GetRoute, BrowseRoute, FillRoute,
          RecordRoute, GetPcs, FillPcs, KeepsDriver, KeepsMine, commandVars, fillVars
  <1> QED
    BY <1>1, <1>4, <1>5, SequenceKept DEF EvidenceInv

LEMMA BrowserKeeps ==
  ASSUME EvidenceInv, BrowserCommand \/ LoadPage(url), UNCHANGED <<fillVars, sequence, todo, url>>
  PROVE  EvidenceInv' /\ KeepsDriver
  BY GetWebsiteKeeps, LoadPageKeeps, ListWindowsKeeps, CloseListedKeeps, SwitchToMainKeeps,
     GetDoneKeeps, BrowseLinkKeeps, BrowseDoneKeeps, BrowseBackKeeps, BrowseRaisesKeeps,
     RecordPageKeeps, DumpCookiesKeeps, DumpProfileKeeps, RunCustomFunctionKeeps,
     CommandRaisesKeeps DEF BrowserCommand

LEMMA FillFormsKeep ==
  ASSUME EvidenceInv, FillForms, UNCHANGED <<sequence, todo, url>>
  PROVE  EvidenceInv' /\ KeepsDriver
  BY FindFormKeeps, ProduceKeeps, SubmitFormKeeps, ResultKeeps, FollowUpKeeps, TidyKeeps, FilledKeeps,
     ListOthersKeeps, OtherWindowKeeps, LookAtPopupKeeps, BackFromOthersKeeps, CloseOthersKeeps,
     TidiedKeeps, ChooseLinkKeeps, NoMoreLinksKeeps, ClickLinkKeeps, GoBackKeeps, ListPopupsKeeps,
     ClosePopupKeeps, PopupsDoneKeeps, FillRaisesKeeps, CommandRaisesKeeps DEF FillForms

LEMMA EvidenceStep ==
  ASSUME EvidenceInv, [Next]_vars
  PROVE  EvidenceInv'
  <1>1. CASE UNCHANGED vars
    BY <1>1 DEF vars, EvidenceInv, Base, TabsInv, FrameInv, ChildInv, SequenceInv, SequenceTypeOK,
          GetRoute, BrowseRoute, FillRoute, RecordRoute, Here, Mine, NeedsVisit, Usable,
          Windows, Top, driverVars, commandVars, fillVars
  <1>2. CASE Build \/ Execute \/ ManagerGet
    BY <1>2, BuildKeeps, ExecuteKeeps
  <1>3. CASE OpenPopup /\ UNCHANGED <<commandVars, fillVars, sequence, todo, url>>
    BY <1>3, OpenPopupKeeps
  <1>4. CASE execute_command \/ VisitDone \/ CommandFailed
    BY <1>4, ExecuteCommandKeeps, VisitDoneKeeps, CommandFailedKeeps
  <1>5. CASE (BrowserCommand \/ LoadPage(url)) /\ UNCHANGED <<fillVars, sequence, todo, url>>
    BY <1>5, BrowserKeeps
  <1>6. CASE FillForms /\ UNCHANGED <<sequence, todo, url>>
    BY <1>6, FillFormsKeep
  <1> QED
    BY <1>1, <1>2, <1>3, <1>4, <1>5, <1>6 DEF Next, Child

LEMMA EvidenceInitially == Init => EvidenceInv
  <1> SUFFICES ASSUME Init PROVE EvidenceInv
    OBVIOUS
  <1> DEFINE e == Loaded(Blank, 0)
  <1>1. e \in HistoryEntry
    BY DEF Loaded, HistoryEntry
  <1>2. tabs = [w \in Handle |-> IF w = 1 THEN <<e>> ELSE <<>>]
    BY DEF Init, DriverInit, Fresh
  <1> HIDE DEF e
  <1>3. <<e>> \in Seq(HistoryEntry) /\ <<>> \in Seq(HistoryEntry) /\ DOMAIN <<e>> = {1}
        /\ DOMAIN <<>> = {}
    BY <1>1, Single, EmptySeq
  <1>4. TabsInv
    BY <1>2, <1>3, Constants DEF Init, DriverInit, TabsInv
  <1>5. FrameInv /\ ChildInv
    BY EmptySequence, Constants DEF Init, DriverInit, FrameInv, ChildInv, GetPcs, FillPcs, FillInit,
       Kind, FreeKinds, VisitKinds
  <1>6. SequenceInv
    BY EmptySequence DEF Init, SequenceInv, SequenceTypeOK
  <1>7. GetRoute /\ BrowseRoute /\ FillRoute /\ RecordRoute
    BY DEF Init, GetRoute, BrowseRoute, FillRoute, RecordRoute, FillPcs
  <1> QED
    BY <1>4, <1>5, <1>6, <1>7 DEF EvidenceInv, Base

THEOREM DriverOnItsPage == Spec => []EvidenceInv
  BY EvidenceInitially, EvidenceStep, PTL DEF Spec

-----------------------------------------------------------------------------
(* The forms that can be sent: with a field for the address, and a way to  *)
(* send them.                                                              *)
TakesAddress(f) ==
  \/ "email" \in Typed(f)
  \/ \E i \in DOMAIN f.fields : _is_email_input(f.fields[i]) /\ Ambiguous(f.fields[i])
FormInv ==
  /\ pc \in {"produce", "submit"} => TakesAddress(form) /\ Sent(form) # {}
  /\ \A f \in sent : TakesAddress(f)

(* The windows that fill_forms still means to look at.                     *)
Elsewhere == fill.popups \cup {fill.landing}
FormPcs   == {"produce", "submit", "result", "windows", "others", "follow_up", "tidy", "tidying", "filled"}

(* The other windows are closed one by one, and never the one with the     *)
(* form; after a form in a pop-up all that fill_forms knows of are closed. *)
WindowsInv ==
  /\ pc \in GetPcs \cup FillPcs \cup {"links", "back"} => \A w \in fill.popups : w \in Handle /\ w <= opened
  /\ pc \in {"popup", "close_popup"} \/ (pc \in FillPcs /\ fill.ret = "popup") =>
       fill.landing \notin fill.popups
  /\ pc = "click" \/ (pc = "back" /\ command = "FILL_FORMS") => fill.ret = "clicked"
  /\ pc = "search" /\ fill.ret = "popup" => current \notin Elsewhere
  /\ pc \in FormPcs => main \in Windows /\ (fill.ret = "popup" => main \notin Elsewhere)
  /\ pc \in FormPcs \ {"others", "tidying"} => current = main
  /\ pc \in {"others", "tidying"} => rest \subseteq Windows \ {main}
  /\ pc = "tidying" /\ fill.ret = "popup" => Windows \cap Elsewhere \subseteq rest
  /\ pc = "filled" /\ fill.ret = "popup" => Windows \cap Elsewhere = {}

(* An address was asked for, and no call raised since.                     *)
Spent   == produced = faults + 1
Looking == GetPcs \cup {"search", "produce", "click", "back", "popups"}

CountInv ==
  /\ faults \in Nat /\ produced \in Nat /\ produced <= faults + 1 /\ IsFiniteSet(sent)
  /\ Spent => /\ pc \notin Looking
              /\ pc # "submit" => sent # {}
              /\ pc \in {"links", "popup"} => ~ Usable
              /\ pc = "close_popup" => Usable
              /\ pc \in {"popup", "close_popup"} => Windows \cap Elsewhere = {}
AddressInv == FormInv /\ WindowsInv /\ CountInv

(* An email field takes the address.                                       *)
LEMMA EmailField ==
  ASSUME NEW field, _is_email_input(field)
  PROVE  FieldValue(field) = "email" \/ Ambiguous(field)
  <1>1. CASE field.type = "email"
    BY <1>1 DEF FieldValue
  <1>2. CASE field.type # "email"
    <2>1. field.type = "text" /\ field.words \cap _KEYWORDS_EMAIL # {}
      BY <1>2 DEF _is_email_input, _element_contains_text
    <2> DEFINE rules == TextRules(field)
               hits  == {i \in DOMAIN rules : field.words \cap rules[i][1] # {}}
               rule  == First(hits)
    <2>2. /\ DOMAIN rules = 1 .. 11
          /\ rules[1][1] = {"company"} /\ rules[2][1] = {"title"} /\ rules[3][1] = {"name"}
          /\ rules[4][1] = {"zip"} /\ rules[5][1] = {"city"} /\ rules[6][1] = {"state"}
          /\ rules[7][1] = _KEYWORDS_EMAIL /\ rules[7][2] = "email"
      BY DEF TextRules
    <2>3. TextValue(field) = IF rule = 0 THEN "email" ELSE rules[rule][2]
      BY DEF TextValue, _element_contains_text
    <2> HIDE DEF rules
    <2>4. 7 \in hits /\ hits \in SUBSET (Nat \ {0})
      BY <2>1, <2>2
    <2>5. rule \in hits /\ rule \in Nat \ {0} /\ rule <= 7
      <3> HIDE DEF hits
      <3> QED
        BY <2>4, FirstIsLeast
    <2>6. rule = 7 => TextValue(field) = "email"
      BY <2>2, <2>3
    <2>7. rule # 7 => field.words \cap {"company", "title", "name", "zip", "city", "state"} # {}
      <3>1. rule # 7 => rule \in 1 .. 6
        BY <2>5
      <3>2. field.words \cap rules[rule][1] # {}
        BY <2>5
      <3> HIDE DEF rule
      <3> QED
        BY <2>2, <3>1, <3>2
    <2>8. FieldValue(field) = TextValue(field)
      BY <2>1 DEF FieldValue
    <2> QED
      BY <2>1, <2>6, <2>7, <2>8 DEF Ambiguous
  <1> QED
    BY <1>1, <1>2

LEMMA EmailShownTakes ==
  ASSUME NEW f, NEW i \in DOMAIN f.fields, f.fields[i].shown, _is_email_input(f.fields[i])
  PROVE  TakesAddress(f)
  <1>1. FieldValue(f.fields[i]) = "email" \/ Ambiguous(f.fields[i])
    BY EmailField
  <1>2. FieldValue(f.fields[i]) \in Typed(f)
    BY DEF Typed
  <1> QED
    BY <1>1, <1>2 DEF TakesAddress

(* A form that is found takes the address, and it can be sent.             *)
LEMMA FoundForm ==
  ASSUME NEW p \in Page \cup {Blank}, NEW f, f = _find_newsletter_form(Dom(p)), f # NoForm
  PROVE  TakesAddress(f) /\ Sent(f) # {}
  <1> DEFINE doc == Dom(p)
             fit == {i \in DOMAIN doc.forms : Fit(doc.forms[i])}
             highest == {i \in fit : \A j \in fit :
                           ~ Higher(Score(doc.forms[j]), Score(doc.forms[i]))}
             best == First(highest)
             emails == {i \in DOMAIN doc.inputs :
                          /\ doc.inputs[i].field.shown /\ _is_email_input(doc.inputs[i].field)
                          /\ Container(doc.inputs[i]) # NoForm}
             loose == First(emails)
  <1>1. f = IF best # 0 THEN doc.forms[best]
            ELSE IF loose # 0 THEN Container(doc.inputs[loose]) ELSE NoForm
    BY DEF _find_newsletter_form
  <1>2. CASE p = Blank
    <2>1. doc.forms = <<>> /\ doc.inputs = <<>>
      BY <1>2, Constants DEF EmptyDoc
    <2> HIDE DEF doc
    <2>2. highest = {} /\ emails = {}
      BY <2>1
    <2> HIDE DEF highest, emails
    <2> QED
      BY <1>1, <2>2 DEF First
  <1>3. CASE p \in Page
    <2>1. doc = Doc[p]
      BY <1>3, Constants
    <2> HIDE DEF doc
    <2>2. CASE best # 0
      <3>1. highest \in SUBSET (Nat \ {0}) /\ highest # {}
        <4>1. DOMAIN doc.forms \subseteq Nat \ {0}
          BY <1>3, <2>1, FormsAssumption
        <4>2. highest # {}
          BY <2>2 DEF First
        <4> QED
          BY <4>1, <4>2
      <3>2. best \in highest
        <4> HIDE DEF highest
        <4> QED
          BY <3>1, FirstIsLeast
      <3>3. best \in DOMAIN doc.forms /\ Fit(doc.forms[best])
        BY <3>2
      <3>4. f = doc.forms[best]
        BY <1>1, <2>2
      <3>5. f.tag = "form"
        <4> HIDE DEF best
        <4>1. best \in DOMAIN Doc[p].forms
          BY <2>1, <3>3
        <4>2. Doc[p].forms[best].tag = "form"
          BY <1>3, <4>1, FormsAssumption
        <4> QED
          BY <2>1, <3>4, <4>2
      <3>6. Sent(f) # {}
        BY <3>5 DEF Sent
      <3>7. PICK i \in DOMAIN f.fields : f.fields[i].shown /\ _is_email_input(f.fields[i])
        BY <3>3, <3>4 DEF Fit, EmailShown
      <3> QED
        BY <3>6, <3>7, EmailShownTakes
    <2>3. CASE best = 0
      <3>1. loose # 0 /\ f = Container(doc.inputs[loose])
        BY <1>1, <2>3
      <3>2. emails \in SUBSET (Nat \ {0}) /\ emails # {}
        <4>1. DOMAIN doc.inputs \subseteq Nat \ {0}
          BY <1>3, <2>1, FormsAssumption
        <4>2. emails # {}
          BY <3>1 DEF First
        <4> QED
          BY <4>1, <4>2
      <3>3. loose \in emails
        <4> HIDE DEF emails
        <4> QED
          BY <3>2, FirstIsLeast
      <3>4. /\ loose \in DOMAIN doc.inputs /\ doc.inputs[loose].field.shown
            /\ _is_email_input(doc.inputs[loose].field)
        BY <3>3
      <3> HIDE DEF loose
      <3> DEFINE input == doc.inputs[loose]
                 holders == {i \in 1 .. _FORM_CONTAINER_SEARCH_LIMIT \cap DOMAIN input.parents :
                               /\ input.parents[i].tag \in {"div", "span"}
                               /\ _has_submit_button(input.parents[i])}
                 near == First(holders)
      <3>5. f = IF near = 0 THEN NoForm ELSE input.parents[near]
        BY <3>1 DEF Container
      <3>6. near # 0 /\ f = input.parents[near]
        BY <3>5
      <3>7. holders \in SUBSET (Nat \ {0}) /\ holders # {}
        <4>1. holders # {}
          BY <3>6 DEF First
        <4>2. holders \subseteq 1 .. _FORM_CONTAINER_SEARCH_LIMIT
          OBVIOUS
        <4> HIDE DEF holders
        <4> QED
          BY <4>1, <4>2 DEF _FORM_CONTAINER_SEARCH_LIMIT
      <3>8. near \in holders
        <4> HIDE DEF holders
        <4> QED
          BY <3>7, FirstIsLeast
      <3>9. near \in DOMAIN input.parents /\ _has_submit_button(f)
        BY <3>6, <3>8
      <3> HIDE DEF near
      <3>10. \E n \in DOMAIN f.fields : f.fields[n] = input.field
        <4>1. loose \in DOMAIN Doc[p].inputs /\ input = Doc[p].inputs[loose]
          BY <2>1, <3>4
        <4> HIDE DEF input
        <4>2. near \in DOMAIN Doc[p].inputs[loose].parents /\ f = Doc[p].inputs[loose].parents[near]
          BY <3>6, <3>9, <4>1
        <4>3. \E n \in DOMAIN f.fields : f.fields[n] = Doc[p].inputs[loose].field
          BY <1>3, <4>1, <4>2, FormsAssumption
        <4> QED
          BY <4>1, <4>3
      <3>11. Sent(f) # {}
        BY <3>9 DEF Sent
      <3>12. PICK n \in DOMAIN f.fields : f.fields[n] = input.field
        BY <3>10
      <3>13. f.fields[n].shown /\ _is_email_input(f.fields[n])
        BY <3>4, <3>12
      <3> QED
        BY <3>11, <3>13, EmailShownTakes
    <2> QED
      BY <2>2, <2>3
  <1> QED
    BY <1>2, <1>3

-----------------------------------------------------------------------------
(* What the calls that raise do to the counts.                             *)
LEMMA RaisesCounts ==
  ASSUME NEW w, Raises(w)
  PROVE  faults' \in {faults, faults + 1} /\ (w \in Windows => faults' = faults + 1)
  BY DEF Raises, Fault, Sound

LEMMA OneMore ==
  ASSUME NEW n \in Nat, NEW m, m = n \/ m = n + 1, NEW k \in Nat, k <= n + 1
  PROVE  m \in Nat /\ k <= m + 1 /\ (k = m + 1 => k = n + 1 /\ m = n)
  OBVIOUS

LEMMA CountKept ==
  ASSUME CountInv, faults' \in {faults, faults + 1}, UNCHANGED <<produced, sent>>
  PROVE  /\ faults' \in Nat /\ produced' \in Nat /\ produced' <= faults' + 1 /\ IsFiniteSet(sent')
         /\ Spent' => Spent /\ faults' = faults
  <1>1. /\ faults \in Nat /\ produced \in Nat /\ produced <= faults + 1
        /\ faults' = faults \/ faults' = faults + 1
    BY DEF CountInv
  <1>2. /\ faults' \in Nat /\ produced <= faults' + 1
        /\ produced = faults' + 1 => produced = faults + 1 /\ faults' = faults
    BY <1>1, OneMore, Zenon
  <1> QED
    BY <1>1, <1>2, Zenon DEF CountInv, Spent

(* A step to a label where nothing is under way.                           *)
LEMMA AddressQuiet ==
  ASSUME AddressInv, faults' \in {faults, faults + 1}, UNCHANGED fillVars,
         pc' \in {"idle", "failed", "script"}, pc = "submit" => faults' = faults + 1
  PROVE  AddressInv'
  <1>1. FormInv' /\ WindowsInv'
    BY DEF AddressInv, FormInv, WindowsInv, GetPcs, FillPcs, FormPcs, fillVars
  <1>2. CountInv'
    <2>1. /\ faults' \in Nat /\ produced' \in Nat /\ produced' <= faults' + 1 /\ IsFiniteSet(sent')
          /\ Spent' => Spent /\ faults' = faults
      BY CountKept DEF AddressInv, fillVars
    <2>2. Spent' => sent' # {}
      BY <2>1 DEF AddressInv, CountInv, fillVars
    <2>3. pc' \notin Looking \cup {"links", "popup", "close_popup"}
      BY DEF Looking, GetPcs
    <2> QED
      BY <2>1, <2>2, <2>3 DEF CountInv
  <1> QED
    BY <1>1, <1>2 DEF AddressInv

-----------------------------------------------------------------------------
(* The commands that fill in no form.                                      *)
LEMMA BrowserSteps ==
  ASSUME EvidenceInv, BrowserCommand \/ LoadPage(url)
  PROVE  /\ UNCHANGED opened /\ faults' \in {faults, faults + 1} /\ command' = command
         /\ \/ pc' \in {"idle", "failed"} /\ pc # "submit"
            \/ pc \in GetPcs /\ pc' \in GetPcs \cup {"links", "search"}
            \/ pc = "links" /\ pc' = "back" /\ Usable /\ command = "BROWSE"
            \/ pc = "back" /\ pc' = "links"
            \/ pc = "links" /\ pc' = "links" /\ UNCHANGED <<tabs, current>>
  <1>1. \A labels : "submit" \notin labels /\ CommandRaises(labels) =>
          /\ UNCHANGED opened /\ faults' \in {faults, faults + 1} /\ command' = command
          /\ pc' = "failed" /\ pc # "submit"
    BY RaisesCounts DEF CommandRaises, localVars
  <1>2. CASE \/ CommandRaises({"get", "load", "list", "close", "got", "record", "cookies", "custom"})
             \/ CommandRaises({"links"})
    BY <1>1, <1>2
  <1>3. CASE GetWebsite \/ GetDone \/ LoadPage(url)
    <2>1. command \in {"GET", "BROWSE", "FILL_FORMS"} \/ ~ GetDone
      BY DEF EvidenceInv, Base, ChildInv, GetDone, GetPcs, VisitKinds
    <2> QED
      BY <1>3, <2>1 DEF GetWebsite, GetDone, LoadPage, GetPcs, Done, driverVars, localVars
  <1>4. CASE ListWindows("list", "close", "got") \/ CloseListed("close") \/ SwitchToMain("close", "got")
    BY <1>4 DEF ListWindows, CloseListed, SwitchToMain, GetPcs, localVars
  <1>5. CASE BrowseLink \/ BrowseDone \/ BrowseBack
    BY <1>5 DEF BrowseLink, BrowseDone, BrowseBack, Done, driverVars, localVars
  <1>6. CASE BrowseRaises
    BY <1>6, RaisesCounts DEF BrowseRaises
  <1>7. CASE RecordPage \/ DumpCookies \/ DumpProfile \/ RunCustomFunction
    BY <1>7 DEF RecordPage, DumpCookies, DumpProfile, RunCustomFunction, Done, driverVars, localVars
  <1> QED
    BY <1>2, <1>3, <1>4, <1>5, <1>6, <1>7 DEF BrowserCommand

LEMMA BrowserAddress ==
  ASSUME EvidenceInv, AddressInv, BrowserCommand \/ LoadPage(url), UNCHANGED fillVars
  PROVE  AddressInv'
  <1>1. CASE pc' \in {"idle", "failed"} /\ pc # "submit"
    BY <1>1, BrowserSteps, AddressQuiet
  <1>2. CASE /\ pc' \in GetPcs \cup {"links", "search", "back"} /\ pc \in GetPcs \cup {"links", "back"}
             /\ pc' = "search" => pc \in GetPcs
             /\ pc' = "back" => command = "BROWSE"
    <2>1. FormInv'
      BY <1>2 DEF AddressInv, FormInv, GetPcs, fillVars
    <2>2. pc' = "search" => fill.ret = "landed"
      BY <1>2 DEF EvidenceInv, Base, ChildInv
    <2>3. WindowsInv'
      <3>1. \A w \in fill.popups : w \in Handle /\ w <= opened
        BY <1>2 DEF AddressInv, WindowsInv
      <3> QED
        BY <1>2, <2>2, <3>1, BrowserSteps DEF WindowsInv, FormPcs, GetPcs, FillPcs, fillVars
    <2>4. CountInv'
      <3>1. /\ faults' \in Nat /\ produced' \in Nat /\ produced' <= faults' + 1 /\ IsFiniteSet(sent')
            /\ Spent' => Spent /\ faults' = faults
        BY BrowserSteps, CountKept DEF AddressInv, fillVars
      <3>2. Spent => pc = "links" /\ ~ Usable
        BY <1>2 DEF AddressInv, CountInv, Looking
      <3>3. Spent => sent # {}
        BY <1>2 DEF AddressInv, CountInv, GetPcs
      <3>4. Spent => pc' = "links" /\ UNCHANGED <<tabs, current>>
        BY <1>2, <3>2, BrowserSteps DEF GetPcs
      <3>5. UNCHANGED <<tabs, current>> => (Usable' <=> Usable)
        BY DEF Usable, Windows
      <3> QED
        BY <3>1, <3>2, <3>3, <3>4, <3>5 DEF CountInv, Looking, GetPcs, fillVars
    <2> QED
      BY <2>1, <2>3, <2>4 DEF AddressInv
  <1> QED
    BY <1>1, <1>2, BrowserSteps DEF GetPcs

-----------------------------------------------------------------------------
(* The windows that are open, after what fill_forms does.                  *)
LEMMA SubmittedWindows ==
  ASSUME TabsInv, FrameInv, Usable, UNCHANGED visit
  PROVE  /\ \A p \in Page : Visit(p, visit) => Windows' = Windows
         /\ Submitted => Windows' = Windows
  <1>1. ASSUME NEW p \in Page, Visit(p, visit)  PROVE Windows' = Windows
    <2> DEFINE e == Loaded(p, visit)
               h == Append(tabs[current], e)
    <2>1. e \in HistoryEntry
      BY DEF Loaded, HistoryEntry, TabsInv
    <2>2. tabs' = [tabs EXCEPT ![current] = h]
      BY <1>1 DEF Visit, Replace
    <2>3. current \in Handle /\ tabs[current] # <<>> /\ tabs[current] \in Seq(HistoryEntry)
      BY DEF Usable, Windows, TabsInv
    <2> HIDE DEF e
    <2>4. h # <<>>
      BY <2>1, <2>3, Longer
    <2> HIDE DEF h
    <2> QED
      BY <2>2, <2>3, <2>4 DEF Windows, TabsInv
  <1>2. UNCHANGED tabs => Windows' = Windows
    BY DEF Windows
  <1>3. Submitted => UNCHANGED tabs \/ \E p \in Page : Visit(p, visit)
    BY LeadsToPages DEF Submitted, Follow
  <1> QED
    BY <1>1, <1>2, <1>3

LEMMA FindFormAddress ==
  ASSUME EvidenceInv, AddressInv, FindForm
  PROVE  AddressInv'
  <1>0. /\ pc = "search" /\ Usable /\ main' = current
        /\ UNCHANGED <<tabs, opened, current, faults, command, produced, sent>>
        /\ fill'.ret = fill.ret /\ fill'.popups = fill.popups
        /\ fill.ret \in {"landed", "clicked", "popup"}
        /\ \/ pc' = "produce" /\ fill'.landing = fill.landing
           \/ pc' = "links" /\ fill.ret = "landed"
           \/ pc' \in {"links", "back"} /\ fill.ret = "clicked"
           \/ pc' = "close_popup" /\ fill.ret = "popup" /\ fill'.landing = fill.landing
    BY DEF EvidenceInv, Base, ChildInv, FillInit, FindForm, Return
  <1>1. Windows' = Windows /\ current \in Windows
    BY <1>0 DEF Windows, Usable
  <1>2. pc' = "produce" => /\ \E p \in Page \cup {Blank} : form' = _find_newsletter_form(Dom(p))
                           /\ form' # NoForm
    <2>1. /\ \E p \in Page \cup {Blank} : Document = Dom(p)
          /\ FrameWithForm # 0 =>
               /\ Document.frames[FrameWithForm] \in Page
               /\ _find_newsletter_form(Dom(Document.frames[FrameWithForm])) # NoForm
      BY <1>0, FramesOfPage DEF EvidenceInv, Base
    <2>2. pc' = "produce" =>
            \/ Found /\ form' = _find_newsletter_form(Document)
            \/ FrameWithForm # 0 /\ form' = _find_newsletter_form(Dom(Document.frames[FrameWithForm]))
      BY <1>0 DEF FindForm, Return, Done
    <2> QED
      BY <2>1, <2>2 DEF Found
  <1>3. FormInv'
    <2>1. pc' = "produce" => TakesAddress(form') /\ Sent(form') # {}
      BY <1>2, FoundForm
    <2> QED
      BY <1>0, <2>1 DEF AddressInv, FormInv
  <1>4. WindowsInv'
    <2>1. /\ \A w \in fill.popups : w \in Handle /\ w <= opened
          /\ fill.ret = "popup" => fill.landing \notin fill.popups /\ current \notin Elsewhere
      BY <1>0 DEF AddressInv, WindowsInv, FillPcs
    <2> QED
      BY <1>0, <1>1, <2>1 DEF WindowsInv, FillPcs, FormPcs, Elsewhere
  <1>5. CountInv'
    <2>1. ~ Spent
      BY <1>0 DEF AddressInv, CountInv, Looking
    <2> QED
      BY <1>0, <2>1 DEF AddressInv, CountInv, Spent
  <1> QED
    BY <1>3, <1>4, <1>5 DEF AddressInv

LEMMA ProduceAddress ==
  ASSUME EvidenceInv, AddressInv, Produce
  PROVE  AddressInv'
  <1>1. /\ pc = "produce" /\ pc' = "submit" /\ produced' = produced + 1
        /\ UNCHANGED <<tabs, opened, current, faults, main, rest, fill, form, sent>>
    BY DEF Produce, get_email, driverVars, localVars
  <1>2. FormInv'
    BY <1>1 DEF AddressInv, FormInv
  <1>3. WindowsInv'
    BY <1>1 DEF AddressInv, WindowsInv, GetPcs, FillPcs, FormPcs, Elsewhere, Windows
  <1>4. CountInv'
    <2>1. faults \in Nat /\ produced \in Nat /\ produced <= faults + 1 /\ produced # faults + 1
      BY <1>1 DEF AddressInv, CountInv, Spent, Looking
    <2>2. produced + 1 \in Nat /\ produced + 1 <= faults + 1
      BY <2>1
    <2> QED
      BY <1>1, <2>2 DEF AddressInv, CountInv, Looking, GetPcs
  <1> QED
    BY <1>2, <1>3, <1>4 DEF AddressInv

LEMMA SubmitFormAddress ==
  ASSUME EvidenceInv, AddressInv, SubmitForm
  PROVE  AddressInv'
  <1>1. /\ pc = "submit" /\ pc' = "result"
        /\ UNCHANGED <<opened, current, faults, main, rest, fill, form, produced>>
    BY DEF SubmitForm, localVars
  <1>2. Windows' = Windows
    BY SubmittedWindows DEF EvidenceInv, Base, SubmitForm, localVars
  <1>3. sent' = sent \cup {form} /\ TakesAddress(form)
    BY <1>1 DEF AddressInv, FormInv, SubmitForm
  <1>4. FormInv'
    BY <1>1, <1>3 DEF AddressInv, FormInv
  <1>5. WindowsInv'
    BY <1>1, <1>2 DEF AddressInv, WindowsInv, GetPcs, FillPcs, FormPcs, Elsewhere
  <1>6. CountInv'
    <2>1. IsFiniteSet(sent') /\ sent' # {}
      BY <1>3, FS_AddElement DEF AddressInv, CountInv
    <2> QED
      BY <1>1, <2>1 DEF AddressInv, CountInv, Looking, GetPcs
  <1> QED
    BY <1>4, <1>5, <1>6 DEF AddressInv

LEMMA ResultAddress ==
  ASSUME EvidenceInv, AddressInv, Result
  PROVE  AddressInv'
  <1>1. /\ pc = "result" /\ pc' = "windows"
        /\ UNCHANGED <<tabs, opened, current, faults, main, rest, fill, form, produced, sent>>
    BY DEF Result, driverVars, localVars, fillVars
  <1>2. FormInv'
    BY <1>1 DEF AddressInv, FormInv
  <1>3. WindowsInv'
    BY <1>1 DEF AddressInv, WindowsInv, GetPcs, FillPcs, FormPcs, Elsewhere, Windows
  <1>4. CountInv'
    BY <1>1 DEF AddressInv, CountInv, Spent, Looking, GetPcs
  <1> QED
    BY <1>2, <1>3, <1>4 DEF AddressInv

LEMMA ListOthersAddress ==
  ASSUME EvidenceInv, AddressInv, ListWindows("windows", "others", "follow_up"), UNCHANGED fillVars
  PROVE  AddressInv'
  <1>1. /\ pc = "windows" /\ pc' \in {"others", "follow_up"} /\ rest' = Windows \ {main}
        /\ UNCHANGED <<tabs, opened, current, faults, main, fill, form, produced, sent>>
    BY DEF ListWindows, localVars, fillVars, Others
  <1>2. Windows' = Windows
    BY <1>1 DEF Windows
  <1>3. FormInv'
    BY <1>1 DEF AddressInv, FormInv
  <1>4. WindowsInv'
    BY <1>1, <1>2 DEF AddressInv, WindowsInv, GetPcs, FillPcs, FormPcs, Elsewhere
  <1>5. CountInv'
    BY <1>1 DEF AddressInv, CountInv, Spent, Looking, GetPcs
  <1> QED
    BY <1>3, <1>4, <1>5 DEF AddressInv

LEMMA OtherWindowAddress ==
  ASSUME EvidenceInv, AddressInv, NEW w \in Handle, OtherWindow(w)
  PROVE  AddressInv'
  <1>1. /\ pc = "others" /\ pc' = pc /\ w \in rest /\ w \in Windows /\ rest' = rest \ {w}
        /\ UNCHANGED <<opened, faults, main, form, produced, sent>>
        /\ fill'.ret = fill.ret /\ fill'.popups = fill.popups /\ fill'.landing = fill.landing
    BY DEF EvidenceInv, Base, ChildInv, FillInit, OtherWindow, localVars
  <1>2. Windows' = Windows \ {w}
    BY <1>1, Closed DEF EvidenceInv, Base, OtherWindow, localVars
  <1>3. FormInv'
    BY <1>1 DEF AddressInv, FormInv
  <1>4. WindowsInv'
    <2>1. /\ main \in Windows /\ rest \subseteq Windows \ {main}
          /\ \A v \in fill.popups : v \in Handle /\ v <= opened
          /\ fill.ret = "popup" => main \notin Elsewhere /\ fill.landing \notin fill.popups
      BY <1>1 DEF AddressInv, WindowsInv, FillPcs, FormPcs
    <2>2. main \in Windows' /\ rest' \subseteq Windows' \ {main}
      BY <1>1, <1>2, <2>1
    <2> QED
      BY <1>1, <2>1, <2>2 DEF WindowsInv, FormPcs, Elsewhere
  <1>5. CountInv'
    BY <1>1 DEF AddressInv, CountInv, Spent, Looking, GetPcs
  <1> QED
    BY <1>3, <1>4, <1>5 DEF AddressInv

LEMMA BackToMainAddress ==
  ASSUME EvidenceInv, AddressInv, UNCHANGED fillVars,
         SwitchToMain("others", "follow_up") \/ SwitchToMain("tidying", "filled")
  PROVE  AddressInv'
  <1>1. /\ \/ pc = "others" /\ pc' = "follow_up"
           \/ pc = "tidying" /\ pc' = "filled"
        /\ rest = {} /\ current' = main /\ main \in Windows
        /\ UNCHANGED <<tabs, opened, faults, main, rest, fill, form, produced, sent>>
    BY DEF SwitchToMain, SwitchTo, localVars, fillVars
  <1>2. Windows' = Windows
    BY <1>1 DEF Windows
  <1>3. FormInv'
    BY <1>1 DEF AddressInv, FormInv
  <1>4. WindowsInv'
    BY <1>1, <1>2 DEF AddressInv, WindowsInv, GetPcs, FillPcs, FormPcs, Elsewhere
  <1>5. CountInv'
    BY <1>1 DEF AddressInv, CountInv, Spent, Looking, GetPcs
  <1> QED
    BY <1>3, <1>4, <1>5 DEF AddressInv

LEMMA FollowUpAddress ==
  ASSUME EvidenceInv, AddressInv, FollowUp
  PROVE  AddressInv'
  <1>1. /\ pc = "follow_up" /\ pc' = "tidy"
        /\ UNCHANGED <<opened, current, faults, main, rest, form, produced, sent>>
        /\ fill'.ret = fill.ret /\ fill'.popups = fill.popups /\ fill'.landing = fill.landing
    BY DEF EvidenceInv, Base, ChildInv, FillInit, FollowUp, localVars
  <1>2. Windows' = Windows
    <2>1. UNCHANGED tabs => Windows' = Windows
      BY DEF Windows
    <2> QED
      BY <2>1, SubmittedWindows DEF EvidenceInv, Base, FollowUp, localVars
  <1>3. FormInv'
    BY <1>1 DEF AddressInv, FormInv
  <1>4. WindowsInv'
    BY <1>1, <1>2 DEF AddressInv, WindowsInv, GetPcs, FillPcs, FormPcs, Elsewhere
  <1>5. CountInv'
    BY <1>1 DEF AddressInv, CountInv, Spent, Looking, GetPcs
  <1> QED
    BY <1>3, <1>4, <1>5 DEF AddressInv

(* A Firefox with no more than one window has only this one.               *)
LEMMA OnlyWindow ==
  ASSUME NEW w \in Windows, ~ (Cardinality(Windows) > 1)
  PROVE  Windows = {w}
  <1>1. IsFiniteSet(Windows)
    <2>1. IsFiniteSet(1 .. MaxWindows)
      BY FS_Interval, Constants
    <2> QED
      BY <2>1, FS_Subset DEF Windows, Handle
  <1>2. SUFFICES ASSUME NEW v \in Windows, v # w  PROVE FALSE
    OBVIOUS
  <1>3. IsFiniteSet({w, v}) /\ Cardinality({w, v}) = 2
    <2>1. IsFiniteSet({w}) /\ Cardinality({w}) = 1
      BY FS_Singleton
    <2>2. {w, v} = {w} \cup {v} /\ v \notin {w}
      BY <1>2
    <2> QED
      BY <2>1, <2>2, FS_AddElement
  <1>4. {w, v} \subseteq Windows
    OBVIOUS
  <1>5. Cardinality({w, v}) <= Cardinality(Windows) /\ Cardinality(Windows) \in Nat
    BY <1>1, <1>3, <1>4, FS_Subset, FS_CardinalityType
  <1> QED
    BY <1>3, <1>5

LEMMA TidyAddress ==
  ASSUME EvidenceInv, AddressInv, Tidy
  PROVE  AddressInv'
  <1>1. /\ pc = "tidy" /\ rest' = Windows \ {main}
        /\ pc' = IF Cardinality(Windows) > 1 THEN "tidying" ELSE "filled"
        /\ UNCHANGED <<tabs, opened, current, faults, main, fill, form, produced, sent>>
    BY DEF Tidy, ListWindows, localVars, fillVars, Others
  <1>2. Windows' = Windows
    BY <1>1 DEF Windows
  <1>3. FormInv'
    BY <1>1 DEF AddressInv, FormInv
  <1>4. WindowsInv'
    <2>1. /\ main \in Windows /\ current = main
          /\ \A v \in fill.popups : v \in Handle /\ v <= opened
          /\ fill.ret = "popup" => main \notin Elsewhere /\ fill.landing \notin fill.popups
      BY <1>1 DEF AddressInv, WindowsInv, FillPcs, FormPcs
    <2>2. pc' = "filled" => Windows = {main}
      BY <1>1, <2>1, OnlyWindow
    <2>3. /\ pc' \in {"tidying", "filled"} /\ Elsewhere' = Elsewhere
          /\ fill.ret = "popup" => Windows \cap Elsewhere \subseteq Windows \ {main}
      BY <1>1, <2>1 DEF Elsewhere
    <2> QED
      BY <1>1, <1>2, <2>1, <2>2, <2>3 DEF WindowsInv, FormPcs
  <1>5. CountInv'
    BY <1>1 DEF AddressInv, CountInv, Spent, Looking, GetPcs
  <1> QED
    BY <1>3, <1>4, <1>5 DEF AddressInv

LEMMA CloseOthersAddress ==
  ASSUME EvidenceInv, AddressInv, CloseListed("tidying"), UNCHANGED fillVars
  PROVE  AddressInv'
  <1>1. PICK w \in rest \cap Windows : Replace(w, <<>>) /\ current' = w /\ rest' = rest \ {w}
    BY DEF CloseListed
  <1>2. /\ pc = "tidying" /\ pc' = pc
        /\ UNCHANGED <<opened, faults, main, fill, form, produced, sent>>
    BY DEF CloseListed, localVars, fillVars
  <1>3. Windows' = Windows \ {w}
    BY <1>1, <1>2, Closed DEF EvidenceInv, Base, CloseListed, localVars
  <1>4. FormInv'
    BY <1>2 DEF AddressInv, FormInv
  <1>5. WindowsInv'
    <2>1. /\ main \in Windows /\ rest \subseteq Windows \ {main}
          /\ \A v \in fill.popups : v \in Handle /\ v <= opened
          /\ fill.ret = "popup" => /\ main \notin Elsewhere /\ fill.landing \notin fill.popups
                                   /\ Windows \cap Elsewhere \subseteq rest
      BY <1>2 DEF AddressInv, WindowsInv, FillPcs, FormPcs
    <2>2. main \in Windows' /\ rest' \subseteq Windows' \ {main} /\ Elsewhere' = Elsewhere
      BY <1>1, <1>2, <1>3, <2>1 DEF Elsewhere
    <2>3. fill.ret = "popup" => Windows' \cap Elsewhere \subseteq rest'
      BY <1>1, <1>3, <2>1
    <2> QED
      BY <1>2, <2>1, <2>2, <2>3 DEF WindowsInv, FormPcs
  <1>6. CountInv'
    BY <1>2 DEF AddressInv, CountInv, Spent, Looking, GetPcs
  <1> QED
    BY <1>4, <1>5, <1>6 DEF AddressInv

LEMMA FilledAddress ==
  ASSUME EvidenceInv, AddressInv, Filled
  PROVE  AddressInv'
  <1>1. /\ pc = "filled"
        /\ UNCHANGED <<tabs, opened, current, faults, main, rest, form, produced, sent>>
        /\ fill'.ret = fill.ret /\ fill'.popups = fill.popups /\ fill'.landing = fill.landing
        /\ \/ pc' = "idle" /\ fill.ret # "popup"
           \/ pc' = "close_popup" /\ fill.ret = "popup"
    BY DEF EvidenceInv, Base, ChildInv, FillInit, Filled, Return, Done, driverVars, localVars
  <1>2. /\ Windows' = Windows /\ Elsewhere' = Elsewhere
        /\ Usable' <=> Usable
    BY <1>1 DEF Windows, Elsewhere, Usable
  <1>3. /\ main \in Windows /\ current = main
        /\ fill.ret = "popup" => Windows \cap Elsewhere = {}
    BY <1>1 DEF AddressInv, WindowsInv, FormPcs
  <1>4. FormInv'
    BY <1>1 DEF AddressInv, FormInv
  <1>5. WindowsInv'
    BY <1>1, <1>2 DEF AddressInv, WindowsInv, GetPcs, FillPcs, FormPcs
  <1>6. CountInv'
    <2>1. Usable
      BY <1>3 DEF Usable
    <2> QED
      BY <1>1, <1>2, <1>3, <2>1 DEF AddressInv, CountInv, Spent, Looking, GetPcs
  <1> QED
    BY <1>4, <1>5, <1>6 DEF AddressInv

-----------------------------------------------------------------------------
(* The links and the windows that they open.                               *)
LEMMA ChooseLinkAddress ==
  ASSUME EvidenceInv, AddressInv, ChooseLink
  PROVE  AddressInv'
  <1>1. /\ pc = "links" /\ pc' = "click" /\ Usable
        /\ UNCHANGED <<tabs, opened, current, faults, main, rest, form, produced, sent>>
        /\ fill'.ret = "clicked" /\ fill'.popups = fill.popups
    BY DEF EvidenceInv, Base, ChildInv, FillInit, ChooseLink, driverVars
  <1>2. FormInv'
    BY <1>1 DEF AddressInv, FormInv
  <1>3. WindowsInv'
    BY <1>1 DEF AddressInv, WindowsInv, FormPcs
  <1>4. CountInv'
    BY <1>1 DEF AddressInv, CountInv, Spent
  <1> QED
    BY <1>2, <1>3, <1>4 DEF AddressInv

LEMMA ClickLinkAddress ==
  ASSUME EvidenceInv, AddressInv, ClickLink \/ GoBack
  PROVE  AddressInv'
  <1>1. /\ \/ pc = "click" /\ pc' = "search"
           \/ pc = "back" /\ pc' = "popups"
        /\ UNCHANGED <<opened, current, faults, main, rest, fill, form, produced, sent>>
    BY DEF ClickLink, GoBack, localVars, fillVars
  <1>2. pc = "back" => command = "FILL_FORMS"
    BY DEF ClickLink, GoBack
  <1>3. FormInv'
    BY <1>1 DEF AddressInv, FormInv
  <1>4. WindowsInv'
    BY <1>1, <1>2 DEF AddressInv, WindowsInv, GetPcs, FillPcs, FormPcs
  <1>5. CountInv'
    BY <1>1 DEF AddressInv, CountInv, Spent, Looking
  <1> QED
    BY <1>3, <1>4, <1>5 DEF AddressInv

LEMMA ListPopupsAddress ==
  ASSUME EvidenceInv, AddressInv, ListPopups
  PROVE  AddressInv'
  <1>1. /\ pc = "popups"
        /\ UNCHANGED <<tabs, opened, current, faults, main, rest, form, produced, sent>>
        /\ \/ pc' = "popup" /\ fill'.popups = Windows \ {fill.landing} /\ fill'.landing = fill.landing
           \/ pc' = "links" /\ fill' = fill
    BY DEF EvidenceInv, Base, ChildInv, FillInit, ListPopups, driverVars, localVars, Others
  <1>2. \A w \in Windows : w \in Handle /\ w <= opened
    BY TopOfWindow DEF EvidenceInv, Base
  <1>3. FormInv'
    BY <1>1 DEF AddressInv, FormInv
  <1>4. WindowsInv'
    BY <1>1, <1>2 DEF AddressInv, WindowsInv, GetPcs, FillPcs, FormPcs
  <1>5. CountInv'
    BY <1>1 DEF AddressInv, CountInv, Spent, Looking
  <1> QED
    BY <1>3, <1>4, <1>5 DEF AddressInv

LEMMA LookAtPopupAddress ==
  ASSUME EvidenceInv, AddressInv, NEW w \in Handle, LookAtPopup(w)
  PROVE  AddressInv'
  <1>1. /\ pc = "popup" /\ pc' = "search" /\ w \in fill.popups /\ w \in Windows /\ current' = w
        /\ UNCHANGED <<tabs, opened, faults, main, rest, form, produced, sent>>
        /\ fill'.ret = "popup" /\ fill'.popups = fill.popups \ {w} /\ fill'.landing = fill.landing
    BY DEF EvidenceInv, Base, ChildInv, FillInit, LookAtPopup, SwitchTo, localVars
  <1>2. FormInv'
    BY <1>1 DEF AddressInv, FormInv
  <1>3. WindowsInv'
    <2>1. fill.landing \notin fill.popups /\ \A v \in fill.popups : v \in Handle /\ v <= opened
      BY <1>1 DEF AddressInv, WindowsInv, FillPcs
    <2> QED
      BY <1>1, <2>1 DEF WindowsInv, FormPcs, Elsewhere
  <1>4. CountInv'
    <2>1. ~ Spent
      BY <1>1 DEF AddressInv, CountInv, Elsewhere
    <2> QED
      BY <1>1, <2>1 DEF AddressInv, CountInv, Spent
  <1> QED
    BY <1>2, <1>3, <1>4 DEF AddressInv

LEMMA ClosePopupAddress ==
  ASSUME EvidenceInv, AddressInv, ClosePopup
  PROVE  AddressInv'
  <1>1. /\ pc = "close_popup" /\ pc' = "popup" /\ Usable
        /\ UNCHANGED <<opened, current, faults, main, rest, fill, form, produced, sent>>
    BY DEF ClosePopup, localVars, fillVars
  <1>2. Windows' = Windows \ {current} /\ ~ Usable'
    BY <1>1, Closed DEF EvidenceInv, Base, ClosePopup, Usable, localVars
  <1>3. FormInv'
    BY <1>1 DEF AddressInv, FormInv
  <1>4. WindowsInv'
    BY <1>1 DEF AddressInv, WindowsInv, GetPcs, FillPcs, FormPcs
  <1>5. CountInv'
    BY <1>1, <1>2 DEF AddressInv, CountInv, Spent, Looking, GetPcs, Elsewhere
  <1> QED
    BY <1>3, <1>4, <1>5 DEF AddressInv

LEMMA PopupsDoneAddress ==
  ASSUME EvidenceInv, AddressInv, PopupsDone
  PROVE  AddressInv'
  <1>1. /\ pc = "popup" /\ pc' \in {"idle", "links"} /\ fill.landing \in Windows
        /\ UNCHANGED <<opened, faults, main, rest, fill, form, produced, sent>>
    BY DEF PopupsDone, SwitchTo, Done, localVars, fillVars
  <1>2. FormInv'
    BY <1>1 DEF AddressInv, FormInv
  <1>3. WindowsInv'
    BY <1>1 DEF AddressInv, WindowsInv, GetPcs, FillPcs, FormPcs
  <1>4. CountInv'
    <2>1. ~ Spent
      BY <1>1 DEF AddressInv, CountInv, Elsewhere
    <2> QED
      BY <1>1, <2>1 DEF AddressInv, CountInv, Spent
  <1> QED
    BY <1>2, <1>3, <1>4 DEF AddressInv

(* Once an address is asked for, a call raises by a fault or because its   *)
(* window is closed; then no form is looked for any more.                  *)
LEMMA FillRaisesAddress ==
  ASSUME EvidenceInv, AddressInv, FillRaises
  PROVE  AddressInv'
  <1>1. PICK w \in FillNeeded : Raises(w)
    BY DEF FillRaises
  <1>2. /\ pc \in FillLabels /\ command = "FILL_FORMS" /\ pc' \in {"failed", "links"}
        /\ UNCHANGED <<tabs, opened, current, main, rest, fill, form, produced, sent>>
        /\ faults' \in {faults, faults + 1} /\ (w \in Windows => faults' = faults + 1)
    BY <1>1, RaisesCounts DEF FillRaises, fillVars
  <1>3. /\ faults' \in Nat /\ produced' \in Nat /\ produced' <= faults' + 1 /\ IsFiniteSet(sent')
        /\ Spent' => Spent /\ faults' = faults
    BY <1>2, CountKept DEF AddressInv
  <1>4. faults \in Nat /\ faults + 1 # faults
    BY DEF AddressInv, CountInv
  <1>5. Spent' => w \notin Windows
    BY <1>2, <1>3, <1>4
  <1>6. pc # "popup" =>
          w \in (IF pc \notin {"tidying", "others"} THEN {current} ELSE IF rest = {} THEN {main} ELSE rest)
    BY <1>2 DEF FillNeeded, Needed, FillLabels
  <1>7. pc \in FormPcs \ {"produce"} => w \in Windows
    BY <1>6 DEF AddressInv, WindowsInv, FormPcs
  <1>8. Spent' => pc = "popup"
    <2>1. pc = "close_popup" /\ Spent => w \in Windows
      BY <1>6 DEF AddressInv, CountInv, Usable
    <2>2. pc \in Looking => ~ Spent
      BY DEF AddressInv, CountInv
    <2>3. pc \in Looking \cup FormPcs \cup {"popup", "close_popup"}
      BY <1>2 DEF FillLabels, Looking, FormPcs
    <2>4. Spent' => pc \notin FormPcs \ {"produce"} /\ pc # "close_popup" /\ pc \notin Looking
      BY <1>3, <1>5, <1>7, <2>1, <2>2
    <2> QED
      BY <2>3, <2>4 DEF Looking
  <1>9. FormInv'
    BY <1>2 DEF AddressInv, FormInv
  <1>10. WindowsInv'
    BY <1>2 DEF AddressInv, WindowsInv, GetPcs, FillPcs, FormPcs, FillLabels
  <1>11. CountInv'
    <2>1. Spent' => ~ Usable /\ sent # {}
      BY <1>3, <1>8 DEF AddressInv, CountInv
    <2>2. Usable' <=> Usable
      BY <1>2 DEF Usable, Windows
    <2> QED
      BY <1>2, <1>3, <2>1, <2>2 DEF CountInv, Looking, GetPcs
  <1> QED
    BY <1>9, <1>10, <1>11 DEF AddressInv

-----------------------------------------------------------------------------
(* The steps between the commands, and those of the pages.                 *)
LEMMA ExecuteCommandAddress ==
  ASSUME EvidenceInv, AddressInv, execute_command
  PROVE  AddressInv'
  <1>1. /\ fill'.popups = {} /\ fill'.ret = "landed" /\ sent' = {} /\ produced' = 0
        /\ UNCHANGED <<opened, faults>>
    BY DEF execute_command, FillInit, driverVars
  <1>2. pc' \in {"get", "profile", "record", "cookies", "custom"}
    <2>1. Head(todo) \in Kind
      BY TakenNeedsVisit DEF EvidenceInv, Base, ChildInv, execute_command
    <2> QED
      BY <2>1 DEF execute_command, Entry, Kind, FreeKinds, VisitKinds, PageKinds
  <1>3. FormInv' /\ WindowsInv'
    BY <1>1, <1>2 DEF FormInv, WindowsInv, FillPcs, FormPcs
  <1>4. CountInv'
    <2>1. faults \in Nat /\ 0 \in Nat /\ 0 <= faults + 1 /\ 0 # faults + 1
      BY DEF AddressInv, CountInv
    <2> QED
      BY <1>1, <2>1, FS_EmptySet DEF CountInv, Spent
  <1> QED
    BY <1>3, <1>4 DEF AddressInv

LEMMA OpenPopupAddress ==
  ASSUME EvidenceInv, AddressInv, OpenPopup, UNCHANGED <<commandVars, fillVars>>
  PROVE  AddressInv'
  <1>1. /\ UNCHANGED <<current, faults, pc, command, main, rest, fill, form, produced, sent>>
        /\ \A w \in Handle : w <= opened => (w \in Windows' <=> w \in Windows)
        /\ opened <= opened' /\ opened \in Nat /\ opened' \in Nat
    BY PoppedUp, Constants DEF EvidenceInv, Base, KeepsDriver, TabsInv, commandVars, fillVars
  <1>2. \A w \in Handle : w <= opened => w <= opened'
    BY <1>1, Constants
  <1>3. \A w \in Windows : w \in Windows'
    BY <1>1, TopOfWindow DEF EvidenceInv, Base
  <1>4. Usable' <=> Usable
    BY <1>1, CurrentWindow DEF EvidenceInv, Base, Usable
  <1>5. pc \in FillPcs => Windows' \cap Elsewhere = Windows \cap Elsewhere /\ Elsewhere' = Elsewhere
    <2>1. ASSUME pc \in FillPcs, NEW w \in Elsewhere
          PROVE  w \in Handle /\ w <= opened
      BY <2>1 DEF AddressInv, WindowsInv, Elsewhere, EvidenceInv, Base, ChildInv
    <2> QED
      BY <1>1, <2>1 DEF Elsewhere
  <1>6. FormInv'
    BY <1>1 DEF AddressInv, FormInv
  <1>7. WindowsInv'
    <2>1. Elsewhere' = Elsewhere
      BY <1>1 DEF Elsewhere
    <2> QED
      BY <1>1, <1>2, <1>3, <1>5, <2>1 DEF AddressInv, WindowsInv, FormPcs, FillPcs
  <1>8. CountInv'
    BY <1>1, <1>4, <1>5 DEF AddressInv, CountInv, Spent, FillPcs
  <1> QED
    BY <1>6, <1>7, <1>8 DEF AddressInv

LEMMA AddressStep ==
  ASSUME EvidenceInv, AddressInv, [Next]_vars
  PROVE  AddressInv'
  <1>1. CASE UNCHANGED vars
    BY <1>1 DEF vars, AddressInv, FormInv, WindowsInv, CountInv, Spent, Elsewhere, Usable, Windows,
          driverVars, commandVars, fillVars
  <1>2. CASE Build
    BY <1>2, AddressQuiet DEF Build, driverVars, commandVars
  <1>3. CASE Execute \/ ManagerGet
    <2>1. \A s : execute_command_sequence(s) =>
            pc = "script" /\ pc' = "idle" /\ UNCHANGED fillVars /\ faults' = faults
      BY DEF execute_command_sequence, driverVars
    <2> QED
      BY <1>3, <2>1, AddressQuiet DEF Execute, ManagerGet
  <1>4. CASE OpenPopup /\ UNCHANGED <<commandVars, fillVars, sequence, todo, url>>
    BY <1>4, OpenPopupAddress
  <1>5. CASE execute_command
    BY <1>5, ExecuteCommandAddress
  <1>6. CASE VisitDone \/ CommandFailed
    BY <1>6, AddressQuiet DEF VisitDone, CommandFailed, driverVars
  <1>7. CASE (BrowserCommand \/ LoadPage(url)) /\ UNCHANGED <<fillVars, sequence, todo, url>>
    BY <1>7, BrowserAddress
  <1>8. CASE FillForms /\ UNCHANGED <<sequence, todo, url>>
    <2>1. NoMoreLinks => AddressInv'
      BY AddressQuiet DEF NoMoreLinks, Done, driverVars
    <2>2. CommandRaises({"links"}) /\ UNCHANGED fillVars => AddressInv'
      BY RaisesCounts, AddressQuiet DEF CommandRaises
    <2> QED
      BY <1>8, <2>1, <2>2, FindFormAddress, ProduceAddress, SubmitFormAddress, ResultAddress,
         FollowUpAddress, TidyAddress, FilledAddress, ListOthersAddress, OtherWindowAddress, LookAtPopupAddress,
         BackToMainAddress, CloseOthersAddress, ChooseLinkAddress, ClickLinkAddress,
         ListPopupsAddress, ClosePopupAddress, PopupsDoneAddress, FillRaisesAddress DEF FillForms
  <1> QED
    BY <1>1, <1>2, <1>3, <1>4, <1>5, <1>6, <1>7, <1>8 DEF Next, Child

LEMMA AddressInitially == Init => AddressInv
  <1> SUFFICES ASSUME Init PROVE AddressInv
    OBVIOUS
  <1>1. FormInv /\ WindowsInv
    BY DEF Init, FormInv, WindowsInv, GetPcs, FillPcs, FormPcs
  <1>2. CountInv
    BY FS_EmptySet DEF Init, DriverInit, CountInv, Spent
  <1> QED
    BY <1>1, <1>2 DEF AddressInv

(* fill_forms signs a site up with one address, unless a call raised; each *)
(* address that it asked for went out with a form, and each form that was  *)
(* sent takes the address in one of its fields: whatever the forms, the    *)
(* windows that pages open, and the calls that raise.                      *)
THEOREM OneAddress == Spec => []OneAddressPerSite
  <1>1. AddressInv => OneAddressPerSite
    <2>1. SUFFICES ASSUME AddressInv PROVE OneAddressPerSite
      OBVIOUS
    <2>2. /\ faults \in Nat /\ produced \in Nat /\ produced <= faults + 1
          /\ pc # "submit" => produced <= Cardinality(sent) + faults
      <3>1. /\ faults \in Nat /\ produced \in Nat /\ produced <= faults + 1 /\ IsFiniteSet(sent)
            /\ pc # "submit" /\ produced = faults + 1 => sent # {}
        BY <2>1 DEF AddressInv, CountInv, Spent
      <3>2. Cardinality(sent) \in Nat /\ (sent # {} => Cardinality(sent) # 0)
        BY <3>1, FS_CardinalityType, FS_EmptySet
      <3> QED
        BY <3>1, <3>2
    <2>3. \A f \in sent : \/ "email" \in Typed(f)
                          \/ \E i \in DOMAIN f.fields :
                               _is_email_input(f.fields[i]) /\ Ambiguous(f.fields[i])
      BY <2>1 DEF AddressInv, FormInv, TakesAddress
    <2> QED
      BY <2>2, <2>3 DEF OneAddressPerSite
  <1>2. Spec => []AddressInv
    BY DriverOnItsPage, AddressInitially, AddressStep, PTL DEF Spec
  <1> QED
    BY <1>1, <1>2, PTL

-----------------------------------------------------------------------------
(* What is recorded.  The windows that the visit listed, to close them,    *)
(* are all its own, or closed; one that is opened later may not be.        *)
AfterGet == FillPcs \cup {"got", "links", "back", "record", "cookies", "custom"}
ListedMine == listed <= opened /\ \A w \in Handle : w <= listed => Mine(w)
ListedInv ==
  /\ listed \in Nat
  /\ pc \in {"load", "list"} => main \in Windows
  /\ pc = "close" => listed <= opened /\ \A w \in Handle : w <= listed => Mine(w) \/ w \in rest
  /\ pc \in AfterGet => ListedMine
  /\ pc \in {"idle", "profile"} => ListedMine \/ NeedsVisit(todo)
Good(e) ==
  /\ e.visit = visit /\ (e.of = visit \/ e.late)
  /\ ~dropped /\ e.kind \notin DebugKinds => e.of = visit /\ e.frame = 0
Recorded    == \A e \in evidence : Good(e)
RecordedInv == ListedInv /\ Recorded

LEMMA Numbers ==
  ASSUME TabsInv
  PROVE  opened \in Nat /\ visit \in Nat /\ Handle \subseteq Nat
  BY Constants DEF TabsInv

LEMMA ListedMineKept ==
  ASSUME TabsInv, KeepsDriver, ListedMine, listed \in Nat, UNCHANGED listed
  PROVE  ListedMine'
  <1>1. opened \in Nat /\ opened' \in Nat /\ opened <= opened' /\ Handle \subseteq Nat /\ listed <= opened
    BY Constants DEF KeepsDriver, TabsInv, ListedMine
  <1>2. listed' <= opened'
    BY <1>1
  <1>3. ASSUME NEW w \in Handle, w <= listed'  PROVE Mine(w)'
    <2>1. w <= listed /\ w <= opened
      BY <1>1, <1>3
    <2> QED
      BY <2>1 DEF KeepsDriver, KeepsMine, ListedMine
  <1> QED
    BY <1>2, <1>3 DEF ListedMine

(* A closed window shows nothing.                                          *)
LEMMA ClosedMine ==
  ASSUME TabsInv, NEW w \in Handle, w \notin Windows
  PROVE  Mine(w)
  <1>1. tabs[w] = <<>>
    BY DEF Windows
  <1> QED
    BY <1>1 DEF Mine

(* Steps that neither visit nor list.                                      *)
LEMMA QuietListed ==
  ASSUME EvidenceInv, ListedInv, KeepsDriver, UNCHANGED <<listed, todo>>,
         \/ pc \in AfterGet /\ pc' \in AfterGet \cup {"idle", "failed"}
         \/ pc' = "failed"
         \/ pc = "profile" /\ pc' = "idle"
  PROVE  ListedInv'
  <1>1. ListedMine => ListedMine'
    BY ListedMineKept DEF EvidenceInv, Base, ListedInv
  <1>2. NeedsVisit(todo) => NeedsVisit(todo)'
    BY DEF NeedsVisit
  <1>3. pc' \notin {"load", "list", "close"}
    BY DEF AfterGet, FillPcs
  <1>4. pc' \in AfterGet => ListedMine'
    <2>1. "failed" \notin AfterGet /\ "idle" \notin AfterGet
      BY DEF AfterGet, FillPcs
    <2> QED
      BY <1>1, <2>1 DEF ListedInv
  <1>5. pc' \in {"idle", "profile"} => (ListedMine \/ NeedsVisit(todo))'
    <2>1. pc' \in {"idle", "profile"} => ListedMine \/ NeedsVisit(todo)
      BY DEF ListedInv, AfterGet, FillPcs
    <2> QED
      BY <1>1, <1>2, <2>1
  <1>6. listed' \in Nat
    BY DEF ListedInv
  <1> QED
    BY <1>3, <1>4, <1>5, <1>6 DEF ListedInv

LEMMA QuietRecorded ==
  ASSUME Recorded, UNCHANGED <<visit, evidence>>, dropped => dropped', dropped' \in BOOLEAN
  PROVE  Recorded'
  BY DEF Recorded, Good

(* The page of a window that the driver works in, whenever it was opened.  *)
LEMMA GoodRecording ==
  ASSUME TabsInv, ListedMine, listed \in Nat, NEW kind, NEW w \in Windows, NEW shown, NEW f,
         \/ shown = Top(w)
         \/ shown.visit = visit
  PROVE  LET e == Recording(kind, w, shown, f) IN
         e.kind = kind /\ e.frame = f /\ e.visit = visit /\ (e.of = visit \/ e.late)
  <1> DEFINE e == Recording(kind, w, shown, f)
  <1>1. /\ e.kind = kind /\ e.frame = f /\ e.visit = visit
        /\ e.of = (IF shown.page = Blank THEN visit ELSE shown.visit)
        /\ e.late <=> w > listed
    BY DEF Recording
  <1>2. w \in Handle /\ w \in Nat /\ (Mine(w) => Top(w).page = Blank \/ Top(w).visit = visit)
    BY TopOfWindow, Constants
  <1>3. w > listed \/ Mine(w)
    BY <1>2 DEF ListedMine
  <1>4. w > listed \/ e.of = visit
    BY <1>1, <1>2, <1>3
  <1> HIDE DEF e
  <1>5. e.of = visit \/ e.late
    BY <1>1, <1>4, Zenon
  <1>6. e.kind = kind /\ e.frame = f /\ e.visit = visit /\ (e.of = visit \/ e.late)
    BY <1>1, <1>5, Zenon
  <1> QED
    BY <1>6, Zenon DEF e

(* fill_forms records what it does, as debug recordings.                   *)
LEMMA DebugRecorded ==
  ASSUME TabsInv, ListedMine, listed \in Nat, Recorded, UNCHANGED <<visit, dropped>>,
         NEW w \in Windows, NEW new, Debug(new),
         \A e \in new : \E kind \in DebugKinds : \E f, shown :
           e = Recording(kind, w, shown, f) /\ (shown = Top(w) \/ shown.visit = visit)
  PROVE  Recorded'
  <1>1. \A e \in new : e.visit = visit /\ (e.of = visit \/ e.late) /\ e.kind \in DebugKinds
    <2>1. SUFFICES ASSUME NEW e \in new
                   PROVE  e.visit = visit /\ (e.of = visit \/ e.late) /\ e.kind \in DebugKinds
      OBVIOUS
    <2>2. PICK kind \in DebugKinds : \E f, shown :
            e = Recording(kind, w, shown, f) /\ (shown = Top(w) \/ shown.visit = visit)
      OBVIOUS
    <2> QED
      BY <2>2, GoodRecording
  <1>2. \A e \in evidence' : e \in evidence \/ e \in new
    BY DEF Debug
  <1>3. ASSUME NEW e \in new  PROVE Good(e)'
    BY <1>1, <1>3 DEF Good
  <1>4. ASSUME NEW e \in evidence  PROVE Good(e)'
    BY <1>4 DEF Recorded, Good
  <1> QED
    BY <1>2, <1>3, <1>4 DEF Recorded

(* The visit: a tab of its own, the page, and the windows listed and       *)
(* closed.                                                                 *)
LEMMA VisitListed ==
  ASSUME EvidenceInv, ListedInv, KeepsDriver, EvidenceInv',
         \/ GetWebsite \/ LoadPage(url)
         \/ ListWindows("list", "close", "got") \/ CloseListed("close") \/ SwitchToMain("close", "got")
  PROVE  ListedInv'
  <1>1. CASE GetWebsite
    <2>1. Usable' /\ main' = current' /\ pc' = "load" /\ listed' = listed
      BY <1>1, Blanked DEF EvidenceInv, Base, GetWebsite
    <2> QED
      BY <2>1 DEF ListedInv, Usable, AfterGet, FillPcs
  <1>2. CASE LoadPage(url)
    <2>1. /\ pc = "load" /\ pc' = "list" /\ UNCHANGED <<main, listed, visit>> /\ Usable
          /\ Visit(url, visit) \/ UNCHANGED tabs
          /\ url \in Page
      BY <1>2 DEF LoadPage, localVars, EvidenceInv, Base, ChildInv
    <2>2. Windows' = Windows
      BY <2>1, SubmittedWindows DEF EvidenceInv, Base, Windows
    <2> QED
      BY <2>1, <2>2 DEF ListedInv, AfterGet, FillPcs
  <1>3. CASE ListWindows("list", "close", "got")
    <2>1. /\ pc = "list" /\ listed' = opened /\ opened' = opened /\ rest' = Windows \ {main}
          /\ UNCHANGED <<tabs, visit, main>>
          /\ pc' = IF Cardinality(Windows) > 1 THEN "close" ELSE "got"
      BY <1>3 DEF ListWindows, Others
    <2>2. main \in Windows /\ Mine(main)
      BY <2>1 DEF ListedInv, EvidenceInv, GetRoute
    <2>3. \A w \in Handle : Mine(w)' <=> Mine(w)
      BY <2>1 DEF Mine
    <2>4. \A w \in Handle : w \in Windows \ {main} \/ Mine(w)
      BY <2>2, ClosedMine DEF EvidenceInv, Base
    <2>5. listed' \in Nat /\ listed' <= opened'
      BY <2>1, Numbers DEF EvidenceInv, Base
    <2>6. pc' = "got" => \A w \in Handle : Mine(w)'
      <3>1. pc' = "got" => Windows = {main}
        BY <2>1, <2>2, OnlyWindow
      <3> QED
        BY <2>3, <2>4, <3>1
    <2>7. pc' \in {"close", "got"} /\ \A w \in Handle : w \in rest' \/ Mine(w)'
      BY <2>1, <2>3, <2>4
    <2> QED
      BY <2>5, <2>6, <2>7 DEF ListedInv, ListedMine, AfterGet, FillPcs
  <1>4. CASE CloseListed("close")
    <2>1. PICK w \in rest \cap Windows : Replace(w, <<>>) /\ current' = w /\ rest' = rest \ {w}
      BY <1>4 DEF CloseListed
    <2>2. pc = "close" /\ pc' = pc /\ frame' = 0 /\ UNCHANGED <<opened, listed, visit>>
      BY <1>4 DEF CloseListed, localVars
    <2>3. w \notin Windows'
      BY <2>1, <2>2, Closed DEF EvidenceInv, Base
    <2>4. listed <= opened /\ \A v \in Handle : v <= listed => Mine(v) \/ v \in rest
      BY <2>2 DEF ListedInv
    <2>5. ASSUME NEW v \in Handle, v <= listed'  PROVE Mine(v)' \/ v \in rest'
      <3>1. CASE v = w
        <4>1. tabs'[w] = <<>>
          BY <2>3, <2>5, <3>1 DEF Windows
        <4> QED
          BY <3>1, <4>1 DEF Mine
      <3>2. CASE v # w
        <4>1. v \in Nat /\ opened \in Nat /\ listed \in Nat /\ v <= listed /\ v <= opened
          BY <2>2, <2>4, <2>5, Numbers DEF EvidenceInv, Base, ListedInv
        <4> QED
          BY <2>1, <2>4, <3>2, <4>1 DEF KeepsDriver, KeepsMine
      <3> QED
        BY <3>1, <3>2
    <2>6. listed' \in Nat /\ listed' <= opened'
      BY <2>2, <2>4 DEF ListedInv
    <2> QED
      BY <2>2, <2>5, <2>6 DEF ListedInv, AfterGet, FillPcs
  <1>5. CASE SwitchToMain("close", "got")
    <2>1. /\ pc = "close" /\ pc' = "got" /\ rest = {} /\ UNCHANGED listed
      BY <1>5 DEF SwitchToMain, localVars
    <2>2. ListedMine /\ listed \in Nat
      BY <2>1 DEF ListedInv, ListedMine
    <2>3. ListedMine' /\ listed' \in Nat
      BY <2>1, <2>2, ListedMineKept DEF EvidenceInv, Base
    <2> QED
      BY <2>1, <2>3 DEF ListedInv
  <1> QED
    BY <1>1, <1>2, <1>3, <1>4, <1>5

(* The other steps of the commands that fill in no form.                   *)
LEMMA BrowserQuiet ==
  ASSUME EvidenceInv,
         \/ GetDone \/ BrowseLink \/ BrowseDone \/ BrowseBack \/ BrowseRaises
         \/ RecordPage \/ DumpCookies \/ DumpProfile \/ RunCustomFunction
         \/ \E labels : CommandRaises(labels)
  PROVE  /\ UNCHANGED <<listed, visit, dropped>>
         /\ \/ pc \in AfterGet /\ pc' \in AfterGet \cup {"idle", "failed"}
            \/ pc' = "failed"
            \/ pc = "profile" /\ pc' = "idle"
         /\ RecordPage \/ UNCHANGED evidence
  <1>1. CASE GetDone
    <2>1. command \in {"GET", "BROWSE", "FILL_FORMS"}
      BY <1>1 DEF EvidenceInv, Base, ChildInv, GetDone, GetPcs, VisitKinds
    <2> QED
      BY <1>1, <2>1 DEF GetDone, Done, AfterGet, FillPcs, localVars
  <1>2. CASE BrowseLink \/ BrowseDone \/ BrowseBack \/ BrowseRaises
    BY <1>2 DEF BrowseLink, BrowseDone, BrowseBack, BrowseRaises, Done, AfterGet, localVars
  <1>3. CASE RecordPage \/ DumpCookies \/ DumpProfile \/ RunCustomFunction
    BY <1>3 DEF RecordPage, DumpCookies, DumpProfile, RunCustomFunction, Done, AfterGet, localVars
  <1>4. CASE \E labels : CommandRaises(labels)
    BY <1>4 DEF CommandRaises, localVars
  <1> QED
    BY <1>1, <1>2, <1>3, <1>4

LEMMA RecordPageRecorded ==
  ASSUME EvidenceInv, RecordedInv, RecordPage
  PROVE  Recorded'
  <1>1. \A kind \in {"screenshot", "source", "links"} : Record(kind) => Recorded'
    <2>1. SUFFICES ASSUME NEW kind \in {"screenshot", "source", "links"}, Record(kind)
                   PROVE  Recorded'
      OBVIOUS
    <2>0. PICK e : e = Recording(kind, current, Top(current), frame)
      OBVIOUS
    <2>2. /\ pc = "record" /\ current \in Windows /\ ListedMine /\ listed \in Nat
          /\ UNCHANGED <<visit, dropped>> /\ evidence' = evidence \cup {e}
      BY <2>0, <2>1 DEF RecordPage, Record, Usable, RecordedInv, ListedInv, AfterGet, localVars
    <2>3. e.frame = frame /\ e.visit = visit /\ (e.of = visit \/ e.late)
      BY <2>0, <2>2, GoodRecording DEF EvidenceInv, Base
    <2>4. ~dropped => frame = 0 /\ e.of = visit
      <3>1. ~dropped => frame = 0 /\ (Top(current).page = Blank \/ Top(current).visit = visit)
        BY <2>2, TopOfWindow DEF EvidenceInv, Base, RecordRoute, Here, Usable
      <3> QED
        BY <2>0, <3>1 DEF Recording
    <2>5. Good(e)'
      BY <2>2, <2>3, <2>4 DEF Good
    <2>6. \A a \in evidence : Good(a)'
      BY <2>2 DEF RecordedInv, Recorded, Good
    <2> QED
      BY <2>2, <2>5, <2>6 DEF Recorded
  <1>2. UNCHANGED evidence => Recorded'
    BY DEF RecordedInv, Recorded, Good, RecordPage, localVars
  <1>3. command \in {"SAVE_SCREENSHOT", "DUMP_PAGE_SOURCE", "EXTRACT_LINKS"}
    BY DEF EvidenceInv, Base, ChildInv, RecordPage
  <1>4. Record("screenshot") \/ Record("source") \/ Record("links") \/ UNCHANGED evidence
    BY <1>3 DEF RecordPage, save_screenshot, dump_page_source, extract_links
  <1> QED
    BY <1>1, <1>2, <1>4

LEMMA BrowserRecorded ==
  ASSUME EvidenceInv, RecordedInv, BrowserCommand \/ LoadPage(url),
         UNCHANGED <<fillVars, sequence, todo, url>>
  PROVE  RecordedInv'
  <1>1. KeepsDriver /\ EvidenceInv'
    BY BrowserKeeps
  <1>2. CASE \/ GetWebsite \/ LoadPage(url)
             \/ ListWindows("list", "close", "got") \/ CloseListed("close") \/ SwitchToMain("close", "got")
    <2>1. ListedInv'
      BY <1>1, <1>2, VisitListed DEF RecordedInv
    <2>2. UNCHANGED <<visit, evidence, dropped>>
      BY <1>2 DEF GetWebsite, LoadPage, ListWindows, CloseListed, SwitchToMain, localVars
    <2>3. Recorded'
      BY <2>2, QuietRecorded DEF RecordedInv, EvidenceInv, Base, ChildInv
    <2> QED
      BY <2>1, <2>3 DEF RecordedInv
  <1>3. CASE \/ GetDone \/ BrowseLink \/ BrowseDone \/ BrowseBack \/ BrowseRaises
             \/ RecordPage \/ DumpCookies \/ DumpProfile \/ RunCustomFunction
             \/ \E labels : CommandRaises(labels)
    <2>1. /\ UNCHANGED <<listed, visit, dropped>>
          /\ \/ pc \in AfterGet /\ pc' \in AfterGet \cup {"idle", "failed"}
             \/ pc' = "failed"
             \/ pc = "profile" /\ pc' = "idle"
          /\ RecordPage \/ UNCHANGED evidence
      BY <1>3, BrowserQuiet
    <2>2. ListedInv'
      BY <1>1, <2>1, QuietListed DEF RecordedInv
    <2>3. UNCHANGED evidence => Recorded'
      BY <2>1, QuietRecorded DEF RecordedInv, EvidenceInv, Base, ChildInv
    <2>4. Recorded'
      BY <2>1, <2>3, RecordPageRecorded
    <2> QED
      BY <2>2, <2>4 DEF RecordedInv
  <1> QED
    BY <1>2, <1>3 DEF BrowserCommand

-----------------------------------------------------------------------------
(* The steps of fill_forms.                                                *)
LEMMA FillQuiet ==
  ASSUME EvidenceInv, FillForms
  PROVE  /\ UNCHANGED <<listed, visit>> /\ dropped' \in BOOLEAN /\ (dropped => dropped')
         /\ pc \in AfterGet /\ pc' \in AfterGet \cup {"idle", "failed"}
         /\ \/ UNCHANGED evidence
            \/ UNCHANGED dropped /\ (\/ FindForm \/ SubmitForm \/ Result \/ FollowUp
                                     \/ \E w \in Handle : OtherWindow(w))
  <1>0. dropped \in BOOLEAN /\ fill.ret \in {"landed", "clicked", "popup"}
    BY DEF EvidenceInv, Base, ChildInv
  <1>1. CASE FindForm
    BY <1>0, <1>1 DEF FindForm, Return, Done, AfterGet, FillPcs
  <1>2. CASE Produce \/ SubmitForm \/ Result \/ FollowUp \/ \E w \in Handle : OtherWindow(w)
    BY <1>0, <1>2 DEF Produce, SubmitForm, Result, FollowUp, OtherWindow, AfterGet, FillPcs, localVars
  <1>3. CASE Tidy \/ ListWindows("windows", "others", "follow_up")
    BY <1>0, <1>3 DEF Tidy, ListWindows, AfterGet, FillPcs
  <1>4. CASE \/ SwitchToMain("others", "follow_up") \/ SwitchToMain("tidying", "filled")
             \/ CloseListed("tidying")
    BY <1>0, <1>4 DEF SwitchToMain, CloseListed, AfterGet, FillPcs, localVars
  <1>5. CASE Filled
    BY <1>0, <1>5 DEF Filled, Return, Done, AfterGet, FillPcs, localVars
  <1>6. CASE ChooseLink \/ NoMoreLinks \/ ClickLink \/ GoBack \/ ListPopups \/ ClosePopup \/ PopupsDone
             \/ \E w \in Handle : LookAtPopup(w)
    BY <1>0, <1>6 DEF ChooseLink, NoMoreLinks, ClickLink, GoBack, ListPopups, ClosePopup, PopupsDone,
       LookAtPopup, Done, AfterGet, FillPcs, localVars
  <1>7. CASE FillRaises \/ CommandRaises({"links"})
    BY <1>0, <1>7 DEF FillRaises, CommandRaises, FillLabels, AfterGet, FillPcs, localVars
  <1> QED
    BY <1>1, <1>2, <1>3, <1>4, <1>5, <1>6, <1>7 DEF FillForms

(* The page after a form was sent.                                         *)
LEMMA SubmittedTop ==
  ASSUME TabsInv, FrameInv, Usable, Submitted, UNCHANGED <<current, visit>>
  PROVE  Top(current)' = Top(current) \/ Top(current)'.visit = visit
  <1>1. CASE UNCHANGED tabs
    BY <1>1 DEF Top
  <1>2. CASE frame = 0 /\ \E p \in Document.after : Visit(p, visit)
    <2>1. PICK p \in Page : Visit(p, visit)
      BY <1>2, LeadsToPages
    <2>2. PICK e : e = Loaded(p, visit)
      OBVIOUS
    <2>3. e \in HistoryEntry /\ e.visit = visit
      BY <2>2 DEF Loaded, HistoryEntry, TabsInv
    <2>4. tabs' = [tabs EXCEPT ![current] = Append(tabs[current], e)]
      BY <2>1, <2>2 DEF Visit, Replace
    <2>5. current \in Handle /\ tabs[current] \in Seq(HistoryEntry)
      BY DEF Usable, Windows, TabsInv
    <2>6. PICK h : h = Append(tabs[current], e)
      OBVIOUS
    <2>7. h[Len(h)] = e
      BY <2>3, <2>5, <2>6, Longer
    <2>8. tabs'[current] = h
      BY <2>4, <2>5, <2>6 DEF TabsInv
    <2>9. Top(current)' = e
      BY <2>7, <2>8 DEF Top
    <2> QED
      BY <2>3, <2>9
  <1> QED
    BY <1>1, <1>2 DEF Submitted, Follow

LEMMA DebugKindsOfForms ==
  /\ \A w, f : FormSource(w, f) = Recording("form source", w, Top(w), f)
  /\ \A w, shown, f : FormScreenshot(w, shown, f) = Recording("form screenshot", w, shown, f)
  /\ "form source" \in DebugKinds /\ "form screenshot" \in DebugKinds
  BY DEF FormSource, FormScreenshot, DebugKinds

LEMMA FillRecorded ==
  ASSUME EvidenceInv, RecordedInv, FillForms, UNCHANGED <<sequence, todo, url>>
  PROVE  RecordedInv'
  <1>1. KeepsDriver /\ EvidenceInv'
    BY FillFormsKeep
  <1>2. /\ UNCHANGED <<listed, visit>> /\ dropped' \in BOOLEAN /\ (dropped => dropped')
        /\ pc \in AfterGet /\ pc' \in AfterGet \cup {"idle", "failed"}
        /\ \/ UNCHANGED evidence
           \/ UNCHANGED dropped /\ (\/ FindForm \/ SubmitForm \/ Result \/ FollowUp
                                    \/ \E w \in Handle : OtherWindow(w))
    BY FillQuiet
  <1>3. ListedInv'
    BY <1>1, <1>2, QuietListed DEF RecordedInv
  <1>4. ListedMine /\ listed \in Nat /\ TabsInv /\ FrameInv /\ Recorded
    BY <1>2 DEF RecordedInv, ListedInv, EvidenceInv, Base
  <1>5. UNCHANGED evidence => Recorded'
    BY <1>2, <1>4, QuietRecorded
  <1> SUFFICES Recorded'
    BY <1>3 DEF RecordedInv
  <1>6. CASE UNCHANGED dropped /\ (FindForm \/ SubmitForm \/ Result)
    <2>1. current \in Windows
      BY <1>6 DEF FindForm, SubmitForm, Result, Usable
    <2>2. \/ UNCHANGED evidence
          \/ \E f : Debug({FormSource(current, f)})
          \/ \E f : Debug({FormScreenshot(current, Top(current), f)})
      BY <1>6 DEF FindForm, SubmitForm, Result
    <2>3. ASSUME NEW f, Debug({FormSource(current, f)})  PROVE Recorded'
      BY <1>2, <1>4, <1>6, <2>1, <2>3, DebugRecorded, DebugKindsOfForms
    <2>4. ASSUME NEW f, Debug({FormScreenshot(current, Top(current), f)})  PROVE Recorded'
      BY <1>2, <1>4, <1>6, <2>1, <2>4, DebugRecorded, DebugKindsOfForms
    <2> QED
      BY <1>5, <2>2, <2>3, <2>4, Zenon
  <1>7. ASSUME NEW w \in Windows, NEW f, NEW shown, FollowUpRecorded(w, f, shown), UNCHANGED dropped,
               shown = Top(w) \/ shown.visit = visit
        PROVE  Recorded'
    <2>1. Debug({FormSource(w, f), FormScreenshot(w, Top(w), f), FormScreenshot(w, shown, f)})
      BY <1>7 DEF FollowUpRecorded
    <2> QED
      BY <1>2, <1>4, <1>7, <2>1, DebugRecorded, DebugKindsOfForms
  <1>8. CASE UNCHANGED dropped /\ FollowUp
    <2>1. current \in Windows /\ Usable /\ UNCHANGED <<current, visit>>
          /\ \/ UNCHANGED evidence
             \/ Submitted /\ FollowUpRecorded(current, frame, Top(current)')
      BY <1>8 DEF FollowUp, Usable, localVars
    <2>2. Submitted => Top(current)' = Top(current) \/ Top(current)'.visit = visit
      BY <1>4, <2>1, SubmittedTop
    <2> QED
      BY <1>5, <1>7, <1>8, <2>1, <2>2, Zenon
  <1>9. CASE UNCHANGED dropped /\ \E w \in Handle : OtherWindow(w)
    <2>1. PICK w \in Windows :
            \/ UNCHANGED evidence
            \/ \E shown \in {Top(w)} \cup {Loaded(p, visit) : p \in Dom(Top(w).page).after} :
                 FollowUpRecorded(w, 0, shown)
      BY <1>9 DEF OtherWindow
    <2>2. \A p : Loaded(p, visit).visit = visit
      BY DEF Loaded
    <2> QED
      BY <1>5, <1>7, <1>9, <2>1, <2>2, Zenon
  <1> QED
    BY <1>2, <1>5, <1>6, <1>8, <1>9, Zenon

-----------------------------------------------------------------------------
(* The steps between the commands, and those of the pages.                 *)
LEMMA BetweenRecorded ==
  ASSUME EvidenceInv, RecordedInv,
         Build \/ Execute \/ ManagerGet \/ execute_command \/ VisitDone \/ CommandFailed
  PROVE  RecordedInv'
  <1>0. listed \in Nat /\ dropped \in BOOLEAN
    BY DEF RecordedInv, ListedInv, EvidenceInv, Base, ChildInv
  <1>1. CASE Build
    BY <1>1 DEF Build, RecordedInv, ListedInv, ListedMine, Mine, Recorded, Good, NeedsVisit, Windows,
       driverVars, commandVars
  <1>2. ASSUME NEW s, execute_command_sequence(s), NeedsVisit(s.commands_with_timeout)
        PROVE  RecordedInv'
    BY <1>0, <1>2 DEF execute_command_sequence, RecordedInv, ListedInv, Recorded, NeedsVisit, AfterGet,
       FillPcs
  <1>3. CASE Execute
    BY <1>2, <1>3 DEF Execute, EvidenceInv, SequenceInv
  <1>4. CASE ManagerGet
    <2>1. PICK kind \in {"GET", "BROWSE"} : execute_command_sequence(Queued(NewSequence, kind))
      BY <1>4 DEF ManagerGet
    <2>2. kind \in Kind \ PageKinds
      BY DEF Kind, FreeKinds, VisitKinds, PageKinds
    <2>3. NeedsVisit(Queued(NewSequence, kind).commands_with_timeout)
      BY <2>2, EmptySequence, QueuedKeepsSequence
    <2> QED
      BY <1>2, <2>1, <2>3
  <1>5. CASE execute_command
    <2> DEFINE kind == Head(todo)
    <2>1. /\ pc = "idle" /\ todo' = Tail(todo) /\ pc' = Entry(kind)
          /\ UNCHANGED <<driverVars, visit, listed, evidence, dropped>>
      BY <1>5 DEF execute_command
    <2>2. /\ kind \in Kind
          /\ NeedsVisit(todo) => kind \notin PageKinds
          /\ NeedsVisit(todo) /\ kind \notin VisitKinds => NeedsVisit(todo')
      BY <1>5, TakenNeedsVisit DEF EvidenceInv, Base, ChildInv, execute_command
    <2> HIDE DEF kind
    <2>3. \/ kind \in VisitKinds /\ pc' = "get"
          \/ kind = "DUMP_PROF" /\ pc' = "profile" /\ kind \notin VisitKinds
          \/ kind \in PageKinds /\ pc' \in {"record", "cookies", "custom"}
      BY <2>1, <2>2 DEF Kind, FreeKinds, VisitKinds, PageKinds, Entry
    <2>4. ListedMine \/ NeedsVisit(todo)
      BY <2>1 DEF RecordedInv, ListedInv
    <2>5. ListedMine => ListedMine'
      BY <2>1 DEF ListedMine, Mine, driverVars
    <2>6. pc' \in {"record", "cookies", "custom"} => ListedMine'
      BY <2>2, <2>3, <2>4, <2>5
    <2>7. pc' = "profile" => ListedMine' \/ NeedsVisit(todo')
      BY <2>2, <2>3, <2>4, <2>5
    <2>8. pc' \in {"get", "profile", "record", "cookies", "custom"}
      BY <2>3
    <2>9. ListedInv'
      <3>1. NeedsVisit(todo') => NeedsVisit(todo)'
        BY DEF NeedsVisit
      <3> QED
        BY <1>0, <2>1, <2>6, <2>7, <2>8, <3>1 DEF ListedInv, AfterGet, FillPcs
    <2>10. Recorded'
      BY <1>0, <2>1, QuietRecorded DEF RecordedInv
    <2> QED
      BY <2>9, <2>10 DEF RecordedInv
  <1>6. CASE VisitDone \/ CommandFailed
    <2>1. pc' = "script" /\ UNCHANGED <<listed, visit, evidence, dropped>>
      BY <1>6 DEF VisitDone, CommandFailed
    <2>2. ListedInv'
      BY <1>0, <2>1 DEF ListedInv, AfterGet, FillPcs
    <2>3. Recorded'
      BY <1>0, <2>1, QuietRecorded DEF RecordedInv
    <2> QED
      BY <2>2, <2>3 DEF RecordedInv
  <1> QED
    BY <1>1, <1>3, <1>4, <1>5, <1>6

LEMMA PopupRecorded ==
  ASSUME EvidenceInv, RecordedInv, OpenPopup, UNCHANGED <<commandVars, fillVars, sequence, todo, url>>
  PROVE  RecordedInv'
  <1>1. KeepsDriver /\ \A w \in Handle : w <= opened => (w \in Windows' <=> w \in Windows)
    BY PoppedUp DEF EvidenceInv, Base, commandVars
  <1>2. UNCHANGED <<pc, main, rest, listed, visit, todo, evidence, dropped>>
    BY DEF commandVars
  <1>3. Recorded'
    BY <1>2, QuietRecorded DEF RecordedInv, EvidenceInv, Base, ChildInv
  <1>4. ListedMine => ListedMine'
    BY <1>1, <1>2, ListedMineKept DEF EvidenceInv, Base, RecordedInv, ListedInv
  <1>5. main \in Windows => main' \in Windows'
    BY <1>1, <1>2, TopOfWindow DEF EvidenceInv, Base
  <1>6. pc = "close" => listed' <= opened' /\ \A w \in Handle : w <= listed' => Mine(w)' \/ w \in rest'
    <2>1. SUFFICES ASSUME pc = "close"
                   PROVE  listed' <= opened' /\ \A w \in Handle : w <= listed' => Mine(w)' \/ w \in rest'
      OBVIOUS
    <2>2. listed <= opened /\ \A w \in Handle : w <= listed => Mine(w) \/ w \in rest
      BY <2>1 DEF RecordedInv, ListedInv
    <2>3. listed \in Nat /\ opened \in Nat /\ opened' \in Nat /\ opened <= opened' /\ Handle \subseteq Nat
      BY <1>1, Constants DEF RecordedInv, ListedInv, KeepsDriver, EvidenceInv, Base, TabsInv
    <2>4. \A w \in Handle : w <= listed => w <= opened
      BY <2>2, <2>3
    <2> QED
      BY <1>1, <1>2, <2>2, <2>3, <2>4 DEF KeepsDriver, KeepsMine
  <1>7. NeedsVisit(todo) => NeedsVisit(todo)'
    BY <1>2 DEF NeedsVisit
  <1>8. ListedInv'
    BY <1>2, <1>4, <1>5, <1>6, <1>7 DEF RecordedInv, ListedInv
  <1> QED
    BY <1>3, <1>8 DEF RecordedInv

LEMMA RecordedStep ==
  ASSUME EvidenceInv, RecordedInv, [Next]_vars
  PROVE  RecordedInv'
  <1>1. CASE UNCHANGED vars
    BY <1>1 DEF vars, RecordedInv, ListedInv, ListedMine, Mine, Recorded, Good, NeedsVisit, Windows,
       driverVars, commandVars
  <1> QED
    BY <1>1, BetweenRecorded, BrowserRecorded, FillRecorded, PopupRecorded DEF Next, Child

(* What a command records for a visit is of a page of that visit, or of a  *)
(* blank one, unless its window was opened after the visit listed and      *)
(* closed the windows it found.  What is recorded is not of an iframe or   *)
(* of such a window, but for what fill_forms records, and what is recorded *)
(* after it dropped an exception: however pages time out, whatever windows *)
(* they open, and wherever the visits before have left the driver.         *)
THEOREM EvidenceKept == Spec => []EvidenceOfVisit
  <1>1. Init => RecordedInv
    BY DEF Init, RecordedInv, ListedInv, Recorded, AfterGet, FillPcs
  <1>2. RecordedInv => EvidenceOfVisit
    BY DEF RecordedInv, Recorded, Good, EvidenceOfVisit
  <1> QED
    BY <1>1, <1>2, DriverOnItsPage, RecordedStep, PTL DEF Spec
=============================================================================
