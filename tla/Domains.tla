-------------------------------- MODULE Domains --------------------------------
(***************************************************************************)
(* domain_utils: hostnames and the Public Suffix List, which the children  *)
(* of a crawl load from a file that the first of them downloads.           *)
(*                                                                         *)
(* A hostname is a sequence of labels; the list is a set of suffixes.      *)
(***************************************************************************)
EXTENDS Naturals, Sequences, FiniteSets, PythonNone

CONSTANTS
  Loaders,     \* children that load the list
  Whole,       \* the Public Suffix List
  Torn,        \* what a file has that is not written to its end
  Labels,      \* what stands between the dots of a hostname
  Hosts,       \* hostnames of the URLs the children ask for; None, or an address
  Addresses    \* hostnames that are IP addresses

ASSUME DomainsAssumption ==
  Hosts \ (Addresses \cup {None}) \subseteq Seq(Labels) \ {<<>>}

VARIABLES
  psl_file,  \* the list that the file has, or None
  loading,   \* what each child does: "check", "fetch", "write", "read", "loaded"
  psl        \* wrapper.psl of each child

domainVars == <<psl_file, loading, psl>>

Suffix(s, n) == SubSeq(s, Len(s) - n + 1, Len(s))

(* get_public_suffix of the package: the longest rule that fits, the last  *)
(* label if none does; then one label more, if there is one.               *)
PublicSuffix(list, host) ==
  LET fits == {n \in 1 .. Len(host) : Suffix(host, n) \in list} \cup {1}
      n    == CHOOSE n \in fits : \A m \in fits : m <= n
  IN IF n < Len(host) THEN Suffix(host, n + 1) ELSE host

get_ps_plus_1(list, host) ==
  IF host \in Addresses \cup {None} THEN host ELSE PublicSuffix(list, host)

hostname_subpartsShort(list, host, include_ps) ==
  LET base == PublicSuffix(list, host)
      cut  == Len(host) - Len(base)
  IN IF host \in Addresses THEN <<host>>
     ELSE IF Len(base) < 2 THEN <<>>
     ELSE [k \in 1 .. cut - 1 |-> SubSeq(host, k, Len(host))] \o <<base>>

hostname_subparts(list, host, include_ps) ==
  LET base == PublicSuffix(list, host)
      cut  == Len(host) - Len(base)
  IN IF host \in Addresses THEN <<host>>
     ELSE IF Len(base) < 2 THEN <<>>
     ELSE [k \in 1 .. cut |-> SubSeq(host, k, Len(host))] \o <<base>>
            \o (IF include_ps THEN <<Tail(base)>> ELSE <<>>)

DomainsInit ==
  /\ psl_file = None /\ loading = [p \in Loaders |-> "check"]
  /\ psl = [p \in Loaders |-> None]

Goes(p, to) == loading' = [loading EXCEPT ![p] = to]

(* get_psl: the file is there, or it is downloaded; opening it empties it. *)
CheckCache(p) ==
  /\ loading[p] = "check"
  /\ Goes(p, IF psl_file = None THEN "fetch" ELSE "read")
  /\ UNCHANGED <<psl_file, psl>>

OpenCache(p) ==
  /\ loading[p] = "fetch"
  /\ psl_file' = Torn /\ Goes(p, "write")
  /\ UNCHANGED psl

WriteCache(p) ==
  /\ loading[p] = "write"
  /\ psl_file' = Whole /\ Goes(p, "read")
  /\ UNCHANGED psl

(* load_psl: the list is kept as long as the child lives.                  *)
ReadCache(p) ==
  /\ loading[p] = "read"
  /\ psl' = [psl EXCEPT ![p] = psl_file] /\ Goes(p, "loaded")
  /\ UNCHANGED psl_file

(* A child that is killed is started anew; the file stays as it is.        *)
Restarted(p) ==
  /\ loading[p] \in {"fetch", "write"}
  /\ Goes(p, "check")
  /\ UNCHANGED <<psl_file, psl>>

DomainsNext ==
  \E p \in Loaders :
    CheckCache(p) \/ OpenCache(p) \/ WriteCache(p) \/ ReadCache(p) \/ Restarted(p)
-----------------------------------------------------------------------------
(* What is registered of a host under a public suffix.                     *)
Named == {host \in Hosts \ (Addresses \cup {None}) : Suffix(host, 1) \in Whole /\ host \notin Whole}
Registered(host) ==
  Suffix(host, CHOOSE n \in 2 .. Len(host) :
                 /\ Suffix(host, n - 1) \in Whole
                 /\ \A k \in n .. Len(host) : Suffix(host, k) \notin Whole)

(* With the whole list, the PS+1 of a host is what is registered, and the  *)
(* parts of the host are all names from it down to that.                   *)
SitesToldApart ==
  \A p \in Loaders : psl[p] = Whole =>
    \A host \in Named :
      /\ get_ps_plus_1(psl[p], host) = Registered(host)
      /\ LET parts == hostname_subparts(psl[p], host, FALSE)
         IN {parts[n] : n \in DOMAIN parts} =
              {Suffix(host, n) : n \in Len(Registered(host)) .. Len(host)}

(* get_ps_plus_1 returns the PS+1 of a URL, whichever child asks.          *)
ReturnsPsPlusOne ==
  \A p \in Loaders : psl[p] # None =>
    \A host \in Named : get_ps_plus_1(psl[p], host) = Registered(host)
=============================================================================
