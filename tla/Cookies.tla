-------------------------------- MODULE Cookies --------------------------------
(***************************************************************************)
(* Cookie.py and the parsing of build_cookie_table.py: from the value of a *)
(* Cookie or Set-Cookie header to rows.                                    *)
(*                                                                         *)
(* A header string is a sequence of items "key" or "key=value": [key, val],*)
(* val None in the first case.  The pattern lets a double quote into a key *)
(* that Morsel.set does not: Illegal are the keys that have one.           *)
(***************************************************************************)
EXTENDS Sequences, FiniteSets, SequencesExt, PythonNone

CONSTANTS
  Illegal,   \* keys with a character that is not legal
  Dotted,    \* domains that begin with a dot
  Dates,     \* strings that one of DATE_FORMATS fits, after 1900
  Quoted     \* a function: strings in double quotes to what they stand for

Reserved == {"expires", "path", "comment", "domain", "max-age", "secure", "httponly", "version"}
Flags    == {"secure", "httponly"}
SetFlag  == "<True>"  \* the value True, and no string

(* "$path" pertains to the cookie mechanism; a cookie is named otherwise.  *)
Dollar(a) == "$" \o a

ASSUME DollarAssumption ==
  \A a, b \in Reserved : Dollar(a) \notin Reserved /\ (Dollar(a) = Dollar(b) => a = b)

Morsel == [value |-> None, attrs |-> [a \in Reserved |-> ""]]

(* BaseCookie while it parses: its morsels by name, and the name of the    *)
(* one that attributes are for.                                            *)
NoCookies == [morsels |-> [k \in {} |-> Morsel], latest |-> None, error |-> FALSE]

(* A CookieError out of the constructor leaves none of them.               *)
CookieError == [NoCookies EXCEPT !.error = TRUE]

(* __set: a name that comes again keeps its morsel and what is set in it.  *)
Set(cookie, key, val) ==
  LET m == IF key \in DOMAIN cookie.morsels THEN cookie.morsels[key] ELSE Morsel
  IN [cookie EXCEPT !.morsels = [k \in DOMAIN @ \cup {key} |->
                                   IF k = key THEN [m EXCEPT !.value = val] ELSE @[k]],
                    !.latest = key]

SetAttribute(cookie, attr, val) ==
  IF cookie.latest = None THEN cookie
  ELSE [cookie EXCEPT !.morsels[cookie.latest].attrs[attr] = val]

(* Quotes and escapes are taken out of an attribute, and left in a value.  *)
_unquote(s) == IF s \in DOMAIN Quoted THEN Quoted[s] ELSE s

ParseItem(cookie, item) ==
  IF cookie.error THEN cookie
  ELSE IF item.key \in {Dollar(a) : a \in Reserved}
  THEN SetAttribute(cookie, CHOOSE a \in Reserved : item.key = Dollar(a), item.val)
  ELSE IF item.key \in Reserved /\ item.val = None
  THEN IF item.key \in Flags THEN SetAttribute(cookie, item.key, SetFlag) ELSE cookie
  ELSE IF item.key \in Reserved THEN SetAttribute(cookie, item.key, _unquote(item.val))
  ELSE IF item.val = None THEN cookie
  ELSE IF item.key \in Illegal THEN CookieError
  ELSE Set(cookie, item.key, item.val)

ParseString(string) ==
  LET cookie[n \in 0 .. Len(string)] ==
        IF n = 0 THEN NoCookies ELSE ParseItem(cookie[n - 1], string[n])
  IN cookie[Len(string)]

(* The attributes of a Set-Cookie row.                                     *)
OrNone(s) == IF s \in {"", None} THEN None ELSE s
get_domain(domain, url) ==
  IF domain = "" THEN url.hostname ELSE IF domain \in Dotted THEN domain ELSE "." \o domain
get_path(path, url) == IF path = "" THEN url.directory ELSE path
select_date_format(date) == IF date \in Dates THEN date ELSE None

parse_cookie_attributes(attrs, url) ==
  [domain   |-> get_domain(attrs["domain"], url),
   path     |-> get_path(attrs["path"], url),
   expires  |-> select_date_format(attrs["expires"]),
   max_age  |-> OrNone(attrs["max-age"]),
   httponly |-> attrs["httponly"] = SetFlag,
   secure   |-> attrs["secure"] = SetFlag,
   comment  |-> OrNone(attrs["comment"]),
   version  |-> OrNone(attrs["version"])]

(* Of the attributes of a Set-Cookie string, these must not be None: where *)
(* "$domain" or "$expires" comes without a value, get_domain or strptime   *)
(* raises, and it is no CookieError.                                       *)
CannotParse(string, url) ==
  LET cookie == ParseString(string) IN
  /\ url # None /\ ~cookie.error
  /\ \E k \in DOMAIN cookie.morsels :
       None \in {cookie.morsels[k].attrs[a] : a \in {"domain", "expires"}}

(* A string with an illegal key gives no rows at all.                      *)
parse_cookies(string, url) ==
  LET cookie == ParseString(string) IN
  IF cookie.error THEN {}
  ELSE {[name |-> k, value |-> cookie.morsels[k].value,
         attrs |-> IF url = None THEN None
                   ELSE parse_cookie_attributes(cookie.morsels[k].attrs, url)]
          : k \in DOMAIN cookie.morsels}
-----------------------------------------------------------------------------
(* What the rows of a string should be, said without parsing it: every     *)
(* name once, with its last value, and with the last value that is given   *)
(* for each attribute between an item of that name and the next cookie.    *)
Starts(string, i) ==
  /\ string[i].val # None
  /\ string[i].key \notin Reserved
  /\ \A a \in Reserved : string[i].key # Dollar(a)
Names(string) == {string[i].key : i \in {j \in DOMAIN string : Starts(string, j)}}
Owner(string, i) ==
  LET starts == {j \in 1 .. i : Starts(string, j)}
  IN IF starts = {} THEN None ELSE string[Max(starts)].key
Gives(string, i, attr) ==
  \/ string[i].key = attr /\ (string[i].val # None \/ attr \in Flags)
  \/ string[i].key = Dollar(attr)
Given(item, attr) ==
  IF item.key # attr THEN item.val
  ELSE IF item.val = None THEN SetFlag ELSE _unquote(item.val)
AttributeOf(string, name, attr) ==
  LET given == {i \in DOMAIN string : Gives(string, i, attr) /\ Owner(string, i) = name}
  IN IF given = {} THEN "" ELSE Given(string[Max(given)], attr)
ValueOf(string, name) ==
  string[Max({i \in DOMAIN string : Starts(string, i) /\ string[i].key = name})].val

RowsOf(string, url) ==
  IF \E n \in Names(string) : n \in Illegal THEN {}
  ELSE {[name |-> n, value |-> ValueOf(string, n),
         attrs |-> IF url = None THEN None
                   ELSE parse_cookie_attributes([a \in Reserved |-> AttributeOf(string, n, a)], url)]
          : n \in Names(string)}
=============================================================================
