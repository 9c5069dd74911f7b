------------------------------ MODULE FormFinder ------------------------------
(***************************************************************************)
(* The decisions of custom_commands: which link to follow, which form to   *)
(* fill in and what to type into it.  A text is the set of the keywords it *)
(* contains, one keyword for those that a table treats alike.              *)
(*                                                                         *)
(* A field is [type, words, shown]; a form [tag, shown, words, z, modal,   *)
(* login, fields, buttons]; an input outside of forms [field, parents],    *)
(* its parents innermost first; a link [to, text, href, shown, internal].  *)
(***************************************************************************)
EXTENDS Integers, Sequences, FiniteSets

(* The least of a set of indices, 0 if there is none.                      *)
First(indices) == IF indices = {} THEN 0 ELSE CHOOSE i \in indices : \A j \in indices : i <= j

Row(type, word, rank)        == [type |-> type, word |-> word, rank |-> rank, flags |-> {}]
Flagged(word, rank, flags)   == [Row("href", word, rank) EXCEPT !.flags = flags]

_LINK_TEXT_RANK ==
  << Row("text", "newsletter", 10), Row("text", "subscribe", 9), Row("text", "inbox", 8),
     Row("text", "email", 7), Row("text", "sale alert", 6), Row("text", "sign up", 5),
     Row("text", "register", 4), Row("href", "/article", 3),
     Flagged("news/", 3, {"IN_NEW_URL_ONLY"}), Row("href", "/year", 2),
     Flagged("/us/", 1, {"STAY_ON_PAGE", "IN_NEW_URL_ONLY"}) >>
_LINK_RANK_SKIP == 6
_LINK_TEXT_BLACKLIST == {"unsubscribe", "mobile", "phone"}
_KEYWORDS_EMAIL  == {"email", "subscribe", "newsletter"}
_KEYWORDS_SUBMIT == {"submit", "sign up", "subscribe", "register"}
_FORM_CONTAINER_SEARCH_LIMIT == 4

_element_contains_text(element, words) == element.words \cap words # {}

(* The row of the table that a link matches first, 0 for none.             *)
Ranks(row, link, currentUrl) ==
  IF row.type = "text" THEN row.word \in link.text
  ELSE /\ row.word \in link.href
       /\ "IN_NEW_URL_ONLY" \in row.flags => row.word \notin currentUrl
RankRow(link, currentUrl) ==
  First({i \in DOMAIN _LINK_TEXT_RANK : Ranks(_LINK_TEXT_RANK[i], link, currentUrl)})

(* The links worth a click, as [to, rank, stay].                           *)
MatchLinks(links, currentUrl, visited) ==
  LET worth == {l \in links : /\ l.shown /\ l.internal /\ l.to \notin visited
                              /\ l.text \cap _LINK_TEXT_BLACKLIST = {}
                              /\ RankRow(l, currentUrl) # 0}
  IN {[to |-> l.to, rank |-> _LINK_TEXT_RANK[RankRow(l, currentUrl)].rank,
       stay |-> "STAY_ON_PAGE" \in _LINK_TEXT_RANK[RankRow(l, currentUrl)].flags] : l \in worth}

(* The links come shuffled.  The search ends at the first one of a high    *)
(* rank; when it takes too long, at any that matched.                      *)
BestLinks(matches, slow) ==
  LET skip == {l \in matches : l.rank >= _LINK_RANK_SKIP}
  IN IF slow THEN matches
     ELSE IF skip # {} THEN skip
     ELSE {l \in matches : \A m \in matches : m.rank <= l.rank}

_is_email_input(field) ==
  \/ field.type = "email"
  \/ field.type = "text" /\ _element_contains_text(field, _KEYWORDS_EMAIL)

EmailShown(fields) == \E i \in DOMAIN fields : fields[i].shown /\ _is_email_input(fields[i])

(* An <input> or a <button> with the text of a submit button.              *)
_has_submit_button(container) ==
  \/ \E i \in DOMAIN container.fields :
       /\ container.fields[i].shown
       /\ container.fields[i].type \in {"submit", "button", "image"}
       /\ _element_contains_text(container.fields[i], _KEYWORDS_SUBMIT)
  \/ \E i \in DOMAIN container.buttons :
       /\ container.buttons[i].shown
       /\ container.buttons[i].type \notin {"reset", "menu"}
       /\ _element_contains_text(container.buttons[i], _KEYWORDS_SUBMIT)

Fit(form) ==
  form.shown /\ _element_contains_text(form, _KEYWORDS_EMAIL) /\ EmailShown(form.fields)

(* The rank of a form, compared from the left.                             *)
Score(form) ==
  << form.z, IF form.modal THEN 1 ELSE 0, -form.login,
     Cardinality({i \in DOMAIN form.fields : form.fields[i].shown}) >>
Higher(s, t) == \E i \in 1 .. 4 : s[i] > t[i] /\ \A j \in 1 .. i - 1 : s[j] = t[j]

NoForm == [tag |-> "none"]

(* The container with a submit button closest to an input.                 *)
Container(loose) ==
  LET near == First({i \in 1 .. _FORM_CONTAINER_SEARCH_LIMIT \cap DOMAIN loose.parents :
                       /\ loose.parents[i].tag \in {"div", "span"}
                       /\ _has_submit_button(loose.parents[i])})
  IN IF near = 0 THEN NoForm ELSE loose.parents[near]

(* The first of the highest forms, or else the first such container.       *)
_find_newsletter_form(doc) ==
  LET fit   == {i \in DOMAIN doc.forms : Fit(doc.forms[i])}
      best  == First({i \in fit : \A j \in fit :
                        ~Higher(Score(doc.forms[j]), Score(doc.forms[i]))})
      loose == First({i \in DOMAIN doc.inputs :
                        /\ doc.inputs[i].field.shown /\ _is_email_input(doc.inputs[i].field)
                        /\ Container(doc.inputs[i]) # NoForm})
  IN IF best # 0 THEN doc.forms[best]
     ELSE IF loose # 0 THEN Container(doc.inputs[loose]) ELSE NoForm

(* What is typed into a text field: the first rule that its attributes     *)
(* match, and the address when none does.                                  *)
NameValue(field) ==
  IF _element_contains_text(field, {"first"}) THEN "first_name"
  ELSE IF _element_contains_text(field, {"last"}) THEN "last_name"
  ELSE IF _element_contains_text(field, {"user"}) THEN "user" ELSE "full_name"
StreetValue(field) ==
  IF _element_contains_text(field, {"2"}) THEN "street2"
  ELSE IF _element_contains_text(field, {"3"}) THEN "nothing" ELSE "street1"
TextRules(field) ==
  << <<{"company"}, "company">>, <<{"title"}, "title">>, <<{"name"}, NameValue(field)>>,
     <<{"zip"}, "zip">>, <<{"city"}, "city">>, <<{"state"}, "state">>,
     <<_KEYWORDS_EMAIL, "email">>, <<{"street"}, StreetValue(field)>>, <<{"phone"}, "tel">>,
     <<{"search"}, "nothing">>, <<{"optional"}, "nothing">> >>
TextValue(field) ==
  LET rule == First({i \in DOMAIN TextRules(field) :
                       _element_contains_text(field, TextRules(field)[i][1])})
  IN IF rule = 0 THEN "email" ELSE TextRules(field)[rule][2]

(* What a field gets.                                                      *)
FieldValue(field) ==
  CASE field.type = "text" -> TextValue(field)
    [] field.type = "number" -> IF _element_contains_text(field, {"phone"}) THEN "tel" ELSE "zip"
    [] field.type \in {"checkbox", "radio"} -> "checked"
    [] field.type \in {"password", "tel"} -> field.type
    [] field.type \in {"submit", "button", "image", "reset", "hidden", "search"} -> "nothing"
    [] OTHER -> "email"

Typed(form) == {FieldValue(form.fields[i]) : i \in {j \in DOMAIN form.fields : form.fields[j].shown}}

(* How a form is sent: by its button; without one by a key in a text field *)
(* and, when it is a form, by submit() too.                                *)
Sent(form) ==
  IF _has_submit_button(form) THEN {"click"}
  ELSE (IF \E i \in DOMAIN form.fields : form.fields[i].shown
                                        /\ form.fields[i].type \in {"email", "text"}
        THEN {"return"} ELSE {}) \cup (IF form.tag = "form" THEN {"submit"} ELSE {})
=============================================================================
