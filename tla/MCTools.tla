-------------------------------- MODULE MCTools --------------------------------
(***************************************************************************)
(* Small instances of what Tools puts together.                            *)
(***************************************************************************)
EXTENDS Tools

MCScripts ==
  {"crawl_click", "crawl_tag", "crawl_tag_screenshots", "crawl_signup", "crawl_mailinglist_signup",
   "demo", "demo_mailinglists"}

Browser(mail, random, noFlash) ==
  [spoof_mailclient |-> mail, random_attributes |-> random, disable_flash |-> noFlash,
   tp_cookies |-> "always", features |-> {}, adblock_list |-> FALSE,
   extension_enabled |-> ~mail, save_javascript |-> random, proxy |-> noFlash]
MCParams ==
  {Browser(TRUE, TRUE, FALSE), Browser(FALSE, FALSE, TRUE),
   [Browser(FALSE, TRUE, TRUE) EXCEPT !.features = {"donottrack", "adblock-plus"}]}

(* All strings of up to three items, and some headers of several strings.  *)
Item(key, val) == [key |-> key, val |-> val]
Items ==
  {Item("sid", "1"), Item("sid", "2"), Item("uid", "3"), Item("uid", None), Item("a\"b", "4"),
   Item("path", "\"/p\""), Item("$path", "\"/q\""), Item("secure", None), Item("$domain", None)}
Strings == UNION {[1 .. n -> Items] : n \in 0 .. 3}
Pair    == <<Item("sid", "1"), Item("path", "/p"), Item("uid", "3")>>
Broken  == <<Item("sid", "1"), Item("a\"b", "4")>>
Single  == <<Item("uid", "3")>>

MCIllegal == {"a\"b"}
MCQuoted == [s \in {"\"/p\"", "\"/q\""} |-> IF s = "\"/p\"" THEN "/p" ELSE "/q"]
Url == [hostname |-> "a.org", directory |-> "/"]
Header(url, strings) == [strings |-> strings, url |-> url]
MCRecorded ==
  {[request  |-> <<Header(None, <<s, t>>), Header(None, <<u>>)>>,
    response |-> <<Header(Url, <<Single>>)>>] : s, t, u \in {Pair, Broken, Single}}
  \cup {[request  |-> <<>>,
         response |-> <<Header(Url, <<s>>), Header(Url, <<Single, Pair>>)>>] : s \in Strings}

(* co.uk and com are public suffixes.                                      *)
MCWhole == {<<"uk">>, <<"co", "uk">>, <<"com">>}
MCHosts ==
  {<<"shop", "co", "uk">>, <<"www", "shop", "co", "uk">>, <<"news", "uk">>, <<"a", "b", "com">>,
   <<"com">>, <<"localhost">>, <<"10", "0", "0", "1">>, None}
MCLabels ==
  {"a", "b", "co", "com", "localhost", "news", "shop", "uk", "www"}
MCAddresses == {<<"10", "0", "0", "1">>}

(* Two scripts of one hash, and one that cannot be decoded.                *)
Answer(content, encoding) ==
  [js_type |-> encoding # "gzip", js_url |-> encoding = "gzip", encoding |-> encoding,
   sound |-> content # "broken", content |-> content]
MCResponse == <<Answer("a", "identity"), Answer("b", "gzip"), Answer("broken", "deflate")>>
MCHashOf   == [c \in {"a", "b", "broken"} |-> IF c = "broken" THEN 2 ELSE 1]
=============================================================================
