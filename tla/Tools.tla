--------------------------------- MODULE Tools ---------------------------------
(***************************************************************************)
(* The parts of a crawl that share no state with each other.  An instance  *)
(* runs one of them: "part" says which.                                    *)
(***************************************************************************)
EXTENDS CrawlScript, Profiles, CookieTable, LogServer, Domains, Proxy

CONSTANT Parts  \* the parts that are run

VARIABLE part

vars == <<part, scriptVars, profileVars, cookieTableVars, logVars, domainVars, proxyPartVars>>

Init ==
  /\ part \in Parts
  /\ CrawlScriptInit /\ ProfilesInit /\ CookieTableInit /\ LogServerInit /\ DomainsInit /\ ProxyInit
  /\ part # "script" => script = CHOOSE x \in Scripts : TRUE
  /\ part # "profile" => tar = None /\ params = CHOOSE x \in Params : TRUE
  /\ part # "cookies" => headers = CHOOSE x \in Recorded : TRUE

OfProxy(A) ==
  /\ part = "proxy" /\ A
  /\ UNCHANGED <<part, scriptVars, profileVars, cookieTableVars, logVars, domainVars>>

Next ==
  \/ /\ part = "script" /\ CrawlScriptNext
     /\ UNCHANGED <<part, profileVars, cookieTableVars, logVars, domainVars, proxyPartVars>>
  \/ /\ part = "profile" /\ ProfilesNext
     /\ UNCHANGED <<part, scriptVars, cookieTableVars, logVars, domainVars, proxyPartVars>>
  \/ /\ part = "cookies" /\ CookieTableNext
     /\ UNCHANGED <<part, scriptVars, profileVars, logVars, domainVars, proxyPartVars>>
  \/ /\ part = "log" /\ LogServerNext
     /\ UNCHANGED <<part, scriptVars, profileVars, cookieTableVars, domainVars, proxyPartVars>>
  \/ /\ part = "domains" /\ DomainsNext
     /\ UNCHANGED <<part, scriptVars, profileVars, cookieTableVars, logVars, proxyPartVars>>
  \/ OfProxy(ProxyNext)

(* The thread of the proxy and the child's keep running, and the           *)
(* TaskManager waits for an answer.                                        *)
Fairness ==
  /\ WF_vars(OfProxy(pc # "closed" /\ ProxyThread))
  /\ WF_vars(OfProxy(WaitForProxy)) /\ WF_vars(OfProxy(RestartChild))

Spec     == Init /\ [][Next]_vars
FairSpec == Spec /\ Fairness
=============================================================================
