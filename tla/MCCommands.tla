------------------------------ MODULE MCCommands ------------------------------
(***************************************************************************)
(* A small web for Commands: a shop whose newsletter is behind a link, in  *)
(* an iframe, or in a window that opens by itself.                         *)
(***************************************************************************)
EXTENDS Commands

Field(type, words) == [type |-> type, words |-> words, shown |-> TRUE]
Form(fields) ==
  [tag |-> "form", shown |-> TRUE, words |-> {"email"}, z |-> 0, modal |-> FALSE,
   login |-> 0, fields |-> fields, buttons |-> <<>>]
Login  == [Form(<<Field("text", {"email"}), Field("password", {})>>) EXCEPT !.login = 1]
Signup ==
  [Form(<<Field("text", {"first", "name"}), Field("text", {"newsletter"}),
          Field("checkbox", {}), Field("button", {"sign up"})>>) EXCEPT !.modal = TRUE]
Details == Form(<<Field("email", {}), Field("number", {"zip"}), Field("text", {"street"})>>)
Box     == [Details EXCEPT !.tag = "div", !.buttons = <<Field("submit", {"subscribe"})>>]
Link(to, text, href) == [to |-> to, text |-> text, href |-> href, shown |-> TRUE, internal |-> TRUE]

Page0 == EmptyDoc
MCDoc ==
  [ shop   |-> [Page0 EXCEPT !.links = {Link("letter", {"newsletter"}, {}), Link("news", {}, {"/article"}),
                                        Link("away", {"unsubscribe", "subscribe"}, {})}],
    letter |-> [Page0 EXCEPT !.forms = <<Login, Signup>>, !.after = {"more"}],
    more   |-> [Page0 EXCEPT !.forms = <<Details>>],
    news   |-> [Page0 EXCEPT !.frames = <<"more">>, !.popups = {"offer"}],
    away   |-> Page0,
    offer  |-> [Page0 EXCEPT !.inputs = <<[field |-> Field("email", {}),
                                           parents |-> <<[Box EXCEPT !.tag = "p"], Box>>]>>],
    land   |-> [Page0 EXCEPT !.links = {Link("us", {}, {"/us/"})}, !.popups = {"away", "offer"}],
    us     |-> [Page0 EXCEPT !.url = {"/us/"}, !.popups = {"offer"},
                  !.links = {Link("news", {}, {"/us/"}), Link("away", {}, {"/article"})}] ]

Filling  == {"FILL_FORMS", "DUMP_PAGE_SOURCE"}
Browsing == {"GET", "BROWSE", "SAVE_SCREENSHOT", "EXTRACT_LINKS", "DUMP_PROFILE_COOKIES",
             "DUMP_PROF", "RUN_CUSTOM_FUNCTION"}
All == Filling \cup Browsing
=============================================================================
