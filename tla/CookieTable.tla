------------------------------ MODULE CookieTable ------------------------------
(***************************************************************************)
(* build_http_cookie_table: the cookies of all recorded headers, in two    *)
(* tables.  It may be interrupted and run again.                           *)
(***************************************************************************)
EXTENDS Cookies, Naturals

CONSTANTS
  Recorded,    \* databases: for each kind a sequence of headers [strings, url],
               \* url None for requests
  COMMIT,      \* rows after which they are committed: 10000
  MaxRuns      \* bound: runs of the script

Kinds == {"request", "response"}

ASSUME CookieTableAssumption ==
  /\ COMMIT \in Nat \ {0} /\ MaxRuns \in Nat
  /\ \A db \in Recorded : \A t \in Kinds :
       /\ DOMAIN db[t] \subseteq Nat
       /\ \A id \in DOMAIN db[t] :
            LET strings == db[t][id].strings IN
            /\ strings \in Seq({strings[i] : i \in DOMAIN strings})
            /\ \A n \in DOMAIN strings :
                 /\ strings[n] \in Seq({strings[n][i] : i \in DOMAIN strings[n]})
                 /\ \A i \in DOMAIN strings[n] : strings[n][i].key # None

VARIABLES
  headers,      \* the database: headers[t][id]
  table,        \* the tables of cookies, committed: sequences of [header, row]
  uncommitted,  \* rows of this run that are not committed
  selected,     \* ids that the query gave and that are still to come
  commit, last_commit,
  phase,        \* "off", "request", "response"
  runs, built   \* runs so far (bounded by MaxRuns); one has been complete

cookieTableVars == <<headers, table, uncommitted, selected, commit, last_commit, phase, runs, built>>

CookieTableInit ==
  /\ headers \in Recorded
  /\ table = [t \in Kinds |-> <<>>] /\ uncommitted = <<>> /\ selected = {}
  /\ commit = 0 /\ last_commit = 0 /\ phase = "off" /\ runs = 0 /\ built = FALSE

(* Headers that have rows are not selected again.                          *)
SelectedAll(t) == DOMAIN headers[t]

Selected(t) == {id \in DOMAIN headers[t] : \A i \in DOMAIN table[t] : table[t][i].header # id}
Begin(t) ==
  phase' = t /\ selected' = Selected(t) /\ commit' = 0 /\ last_commit' = 0

Build ==
  /\ phase = "off" /\ runs < MaxRuns
  /\ runs' = runs + 1
  /\ Begin("request")
  /\ UNCHANGED <<headers, table, uncommitted, built>>

(* The rows of a header; its strings are parsed one by one.                *)
HeaderRows(h) ==
  LET rows[n \in 0 .. Len(h.strings)] ==
        IF n = 0 THEN <<>> ELSE rows[n - 1] \o SetToSeq(parse_cookies(h.strings[n], h.url))
  IN rows[Len(h.strings)]

Inserts(id) ==
  LET rows == HeaderRows(headers[phase][id])
  IN [i \in DOMAIN rows |-> [header |-> id, row |-> rows[i]]]

Commit(rows) == table' = [table EXCEPT ![phase] = @ \o rows] /\ uncommitted' = <<>>

FirstSelected == CHOOSE id \in selected : \A j \in selected : id <= j
Raises(id) ==
  \E n \in DOMAIN headers[phase][id].strings :
    CannotParse(headers[phase][id].strings[n], headers[phase][id].url)

(* All rows of a header, and then perhaps a commit: when the number of     *)
(* rows is a multiple of COMMIT, exactly.                                  *)
ParseHeader ==
  /\ phase # "off" /\ selected # {} /\ ~Raises(FirstSelected)
  /\ LET rows == uncommitted \o Inserts(FirstSelected)
         n    == commit + Len(Inserts(FirstSelected))
     IN /\ selected' = selected \ {FirstSelected}
        /\ commit' = n
        /\ IF n % COMMIT = 0 /\ n # 0 /\ n # last_commit
           THEN Commit(rows) /\ last_commit' = n
           ELSE uncommitted' = rows /\ UNCHANGED <<table, last_commit>>
  /\ UNCHANGED <<headers, phase, runs, built>>

FinishRequests ==
  /\ phase = "request" /\ selected = {}
  /\ Commit(uncommitted)
  /\ Begin("response")
  /\ UNCHANGED <<headers, runs, built>>

FinishResponses ==
  /\ phase = "response" /\ selected = {}
  /\ Commit(uncommitted)
  /\ phase' = "off" /\ built' = TRUE
  /\ UNCHANGED <<headers, selected, commit, last_commit, runs>>

(* What is not committed is rolled back when the script ends early ...      *)
RolledBack ==
  /\ phase' = "off" /\ uncommitted' = <<>> /\ selected' = {}
  /\ UNCHANGED <<headers, table, commit, last_commit, runs, built>>

(* ... at any time, or at a header that it cannot parse, in every run.     *)
Interrupt == phase # "off" /\ RolledBack

HeaderRaises == phase # "off" /\ selected # {} /\ Raises(FirstSelected) /\ RolledBack

CookieTableNext == Build \/ ParseHeader \/ FinishRequests \/ FinishResponses
  \/ Interrupt \/ HeaderRaises
-----------------------------------------------------------------------------
(* However often the script is interrupted and run again, the cookies of a *)
(* header are in the table once each or not at all, and all of them are    *)
(* there when a run has been complete.                                     *)
RowsInTable(t, id) == {i \in DOMAIN table[t] : table[t][i].header = id}
Expected(h) ==
  LET sum[n \in 0 .. Len(h.strings)] ==
        IF n = 0 THEN 0 ELSE sum[n - 1] + Cardinality(RowsOf(h.strings[n], h.url))
  IN sum[Len(h.strings)]
RowsOfHeader(h) == UNION {RowsOf(h.strings[n], h.url) : n \in DOMAIN h.strings}

CookieRowsOnce ==
  \A t \in Kinds : \A id \in DOMAIN headers[t] :
    LET h    == headers[t][id]
        rows == RowsInTable(t, id)
    IN \/ rows = {} /\ (built => Expected(h) = 0)
       \/ /\ Cardinality(rows) = Expected(h)
          /\ {table[t][i].row : i \in rows} = RowsOfHeader(h)
=============================================================================
