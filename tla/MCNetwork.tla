------------------------------ MODULE MCNetwork ------------------------------
(* The network client's redirect chains, the HTTP cache, the cookie jar, and *)
(* the two protocol servers, checked side by side: the first state says      *)
(* which part runs, the others stay as they begin.                           *)
EXTENDS FetchChain, HttpCache, CookieJar, CdpConnection, WebDriver, TLC

VARIABLE part

MCOrigins == {"a", "b", "c"}
MCSiteOf == [o \in MCOrigins |-> IF o = "c" THEN "s2" ELSE "s1"]
MCRequests ==
    [mode : RequestModes, credentials : {"omit", "include"}, redirect : {"follow", "manual", "error"},
     method : {"GET", "POST", "PUT"}, origin : {"a"}, url : {"a", "c"}, initiator : {"a", NoOrigin},
     policy : {"strict-origin-when-cross-origin"}, auth : BOOLEAN]
    \cup
    [mode : {"navigate"}, credentials : {"same-origin"}, redirect : {"follow"}, method : {"GET"},
     origin : {"a", "b"}, url : MCOrigins, initiator : {"a"}, policy : ReferrerPolicies, auth : {FALSE}]

\* Three keys, one opaque.
MCKeys == {"a", "b", "o"}
MCSizes == [k \in MCKeys |-> IF k = "b" THEN 2 ELSE 1]
MCRequest(key, mode, hdr, conditional, integrity) ==
    [key |-> key, mode |-> mode, hdr |-> hdr, conditional |-> conditional, integrity |-> integrity]
MCPageRequests ==
    {MCRequest("a", m, 1, FALSE, 0) : m \in CacheModes} \cup
    { MCRequest("a", "default", 2, FALSE, 0), MCRequest("a", "default", 1, FALSE, 1),
      MCRequest("a", "default", 1, TRUE, 0), MCRequest("b", "default", 1, FALSE, 0),
      MCRequest("o", "default", 1, FALSE, 0) }
MCHeads ==
    { [age |-> 1, vary |-> "hdr", etag |-> TRUE, noStore |-> FALSE, cross |-> FALSE],
      [age |-> 0, vary |-> "hdr", etag |-> TRUE, noStore |-> TRUE, cross |-> FALSE],
      [age |-> 1, vary |-> "*", etag |-> FALSE, noStore |-> FALSE, cross |-> TRUE] }

\* Two hosts below one registrable domain, and cookie lines that differ where a rule looks.
MCPrefixOf == [n |-> "", host |-> "__Host-"]
MCSuffixes == {<<"com">>}
MCSite == <<"com", "x">>
MCSub == <<"com", "x", "a">>
MCLine(name, life, domain, path, secure, httpOnly, sameSite) ==
    [name |-> name, life |-> life, domain |-> domain, path |-> path,
     secure |-> secure, httpOnly |-> httpOnly, sameSite |-> sameSite]
MCLines ==
    { MCLine("n", SessionCookie, NoAttribute, NoAttribute, FALSE, FALSE, "Default"),
      MCLine("n", 3, MCSite, <<"">>, FALSE, FALSE, "Lax"),
      MCLine("n", 1, MCSite, <<"">>, TRUE, TRUE, "None"),
      MCLine("n", 0, NoAttribute, <<"p">>, FALSE, FALSE, "Strict"),
      MCLine("n", 2, <<"com">>, <<"p">>, TRUE, FALSE, "Default"),
      MCLine("n", 2, MCSite, <<"p">>, TRUE, FALSE, "None"),
      MCLine("host", 2, NoAttribute, <<"">>, TRUE, TRUE, "Strict"),
      MCLine("host", 2, MCSite, <<"">>, TRUE, FALSE, "Lax") }
MCContexts ==
    { [kind |-> "http", ours |-> TRUE, navigation |-> FALSE, safe |-> TRUE],
      [kind |-> "script", ours |-> TRUE, navigation |-> FALSE, safe |-> TRUE],
      [kind |-> "http", ours |-> FALSE, navigation |-> TRUE, safe |-> FALSE] }
MCUrls ==
    { [host |-> MCSub, path |-> <<"p", "q">>, trustworthy |-> TRUE],
      [host |-> MCSite, path |-> <<"p">>, trustworthy |-> FALSE] }

\* A client that works on windows, one that works on elements, one that executes scripts.
ThreeClients ==
    { {"new_session", "new_window", "close_window", "switch_window", "delete_session", "navigate"},
      {"new_session", "switch_window", "find_element", "element_click"},
      {"new_session", "switch_window", "execute"} }

NetworkInit ==
    /\ part \in {"fetch", "cache", "cookies", "cdp", "webdriver"}
    /\ FetchInit /\ CacheInit /\ JarInit /\ CdpInit /\ WdInit
    /\ part # "fetch" => request = CHOOSE r \in Requests : TRUE
    /\ part # "cdp" => openTabs = {}
    /\ part # "webdriver" => client = CHOOSE c \in Clients : TRUE

NetworkNext ==
    \/ part = "fetch" /\ FetchNext /\ UNCHANGED <<part, cacheVars, jarVars, cdpVars, wdVars>>
    \/ part = "cache" /\ CacheNext /\ UNCHANGED <<part, fetchVars, jarVars, cdpVars, wdVars>>
    \/ part = "cookies" /\ JarNext /\ UNCHANGED <<part, fetchVars, cacheVars, cdpVars, wdVars>>
    \/ part = "cdp" /\ CdpNext /\ UNCHANGED <<part, fetchVars, cacheVars, jarVars, wdVars>>
    \/ part = "webdriver" /\ WdNext /\ UNCHANGED <<part, fetchVars, cacheVars, jarVars, cdpVars>>

NetworkSpec ==
    NetworkInit /\ [][NetworkNext]_<<part, fetchVars, cacheVars, jarVars, cdpVars, wdVars>>

\* Two tabs of a CDP client, or two dials, of which no action prefers one.
PeerSymmetry == Permutations(Targets) \cup Permutations(Fetchers)

\* No step of the cookie jar loses or redates a cookie it should keep, none of
\* a CDP connection repeats an event, none of a WebDriver server reuses a handle.
NetworkSteps == [][JarSteps /\ CdpSteps /\ WdSteps]_<<jarVars, cdpVars, wdVars>>
=============================================================================
