------------------------------ MODULE CookieJar ------------------------------
(* The cookie store (cookies/src/lib.rs): Set-Cookie lines of responses and *)
(* of document.cookie, the Cookie header, the quotas and the profile's      *)
(* snapshot, which a later process restores. A domain is its labels from    *)
(* the top, a path its segments ("/" is <<"">>, "/p/" is <<"p", "">>), and  *)
(* a line is what the parser made of it. Values are left out but for the    *)
(* prefix rule of a nameless cookie; time is the wall clock, which the      *)
(* model lets only advance.                                                 *)
EXTENDS Integers, Sequences, FiniteSets, SequencesExt, FiniteSetsExt

CONSTANTS
    PrefixOf,        \* cookie name -> "", "__Secure-", "__Host-" or "hidden"
    PublicSuffixes,  \* domains of the public suffix list
    CookieLines,           \* parsed Set-Cookie lines: name, life, domain, path, secure, httpOnly, sameSite
    CookieUrls,            \* request URLs: host, path, trustworthy
    CookieContexts,        \* kind of access, whether the request is same-site, a navigation, of a safe method
    MaxLife,         \* MAX_LIFETIME
    PerDomain,       \* MAX_COOKIES_PER_DOMAIN
    MaxCookies,      \* MAX_COOKIES
    MaxTime          \* bound of the clock

SessionCookie == 0 - 1       \* expiry of a session cookie
NoAttribute == <<"absent">> \* a missing Domain or Path attribute
ASSUME JarAssumption ==
    /\ {MaxLife, PerDomain, MaxCookies} \subseteq Nat \ {0} /\ PerDomain <= MaxCookies /\ MaxTime \in Nat
    /\ CookieContexts \subseteq [kind : {"http", "script"}, ours : BOOLEAN, navigation : BOOLEAN, safe : BOOLEAN]
    /\ \A l \in CookieLines :
        /\ l.name \in DOMAIN PrefixOf /\ l.life \in Int
        /\ {l.secure, l.httpOnly} \subseteq BOOLEAN
        /\ l.sameSite \in {"Strict", "Lax", "None", "Default"}

VARIABLES
    jar,        \* CookieJar.cookies
    clock,      \* wall clock
    did         \* history: the last operation and who asked for it

jarVars == <<jar, clock, did>>

\* How an operation reaches the jar: CookieOp without its clock.
CookieOps == {[url |-> u, kind |-> c.kind, ours |-> c.ours, navigation |-> c.navigation, safe |-> c.safe] : u \in CookieUrls, c \in CookieContexts}

----------------------------------------------------------------------------
(* Matching rules. *)

DomainMatch(host, domain) == IsPrefix(domain, host)
\* path_match: a path that ends in "/" covers everything below it.
PathMatch(req, path) ==
    \/ IsPrefix(path, req)
    \/ Last(path) = "" /\ IsPrefix(Front(path), req) /\ Len(req) >= Len(path)
DefaultPath(req) == IF Len(req) > 1 THEN Front(req) ELSE <<"">>

\* same_cookie_identity.
CookieIdentity(c) == <<c.name, c.domain, c.hostOnly, c.path>>

\* overlays_secure_cookie.
Overlays(cookies, c) ==
    /\ ~c.secure
    /\ \E i \in DOMAIN cookies :
        /\ cookies[i].secure /\ cookies[i].name = c.name
        /\ DomainMatch(cookies[i].domain, c.domain) \/ DomainMatch(c.domain, cookies[i].domain)
        /\ PathMatch(c.path, cookies[i].path)

\* cookie_prefixes_ok; path is NoAttribute when the line named none.
PrefixesOk(c, path) ==
    CASE PrefixOf[c.name] = "__Secure-" -> c.secure
      [] PrefixOf[c.name] = "__Host-" -> c.secure /\ c.hostOnly /\ path = <<"">>
      [] OTHER -> PrefixOf[c.name] # "hidden"

\* cookie_expiry: life is Max-Age in clock units, SessionCookie when absent.
Expiry(life, now) == IF life = SessionCookie THEN SessionCookie ELSE IF life <= 0 THEN now ELSE now + Min({life, MaxLife})
Unexpired(c, now) == c.expiry = SessionCookie \/ c.expiry > now
EvictExpired(cookies, now) == SelectSeq(cookies, LAMBDA c : Unexpired(c, now))

\* cookie_scope: a domain attribute that is a public suffix counts only for
\* the host itself, and then as none.
ScopeOk(l, url) ==
    \/ l.domain = NoAttribute
    \/ l.domain \in PublicSuffixes /\ l.domain = url.host
    \/ l.domain \notin PublicSuffixes /\ DomainMatch(url.host, l.domain)
Scoped(l, url, now) ==
    LET hostOnly == l.domain = NoAttribute \/ l.domain \in PublicSuffixes IN
    [name |-> l.name, domain |-> IF hostOnly THEN url.host ELSE l.domain, hostOnly |-> hostOnly,
     path |-> IF l.path = NoAttribute THEN DefaultPath(url.path) ELSE l.path,
     secure |-> l.secure, httpOnly |-> l.httpOnly, sameSite |-> l.sameSite,
     expiry |-> Expiry(l.life, now), created |-> now, accessed |-> now]

----------------------------------------------------------------------------
(* Quotas. *)

Older(a, b) == a.accessed < b.accessed \/ (a.accessed = b.accessed /\ a.created < b.created)
\* The order evict_one takes the minimum of: plain cookies of a domain first.
Sooner(a, b, domain) ==
    IF domain # NoAttribute /\ a.secure # b.secure THEN ~a.secure ELSE Older(a, b)
VictimOf(cookies, domain) ==
    LET among == {i \in DOMAIN cookies : domain = NoAttribute \/ cookies[i].domain = domain}
    IN  CHOOSE i \in among : \A j \in among \ {i} :
            \/ Sooner(cookies[i], cookies[j], domain)
            \/ i < j /\ ~Sooner(cookies[j], cookies[i], domain)
EvictOne(cookies, domain) == RemoveAt(cookies, VictimOf(cookies, domain))

DomainCount(cookies, d) == Cardinality({i \in DOMAIN cookies : cookies[i].domain = d})
OverQuota(cookies) == {d \in {cookies[i].domain : i \in DOMAIN cookies} : DomainCount(cookies, d) > PerDomain}
\* evict_excess: one cookie at a time, the domains over quota first.
ExcessTotalOnly(cookies) == IF Len(cookies) > MaxCookies THEN EvictOne(cookies, NoAttribute) ELSE cookies
EvictExcess(cookies) ==
    LET step(s, i) ==
            IF OverQuota(s) # {} THEN EvictOne(s, CHOOSE d \in OverQuota(s) : TRUE)
            ELSE IF Len(s) > MaxCookies THEN EvictOne(s, NoAttribute) ELSE s
    IN  FoldLeft(step, cookies, [i \in 1..Len(cookies) |-> i])

----------------------------------------------------------------------------
(* StoreCookie, read, save and restore. *)

\* The cookie the jar holds under c's identity, as a set.
Held(cookies, c) == {cookies[i] : i \in {i \in DOMAIN cookies : CookieIdentity(cookies[i]) = CookieIdentity(c)}}

\* receive_cookie.
AcceptsCookie(cookies, l, op, c) ==
    /\ ScopeOk(l, op.url)
    /\ c.secure => op.url.trustworthy
    /\ c.httpOnly => op.kind = "http"
    /\ op.url.trustworthy \/ ~Overlays(cookies, c)
    /\ c.sameSite = "None" => c.secure
    /\ c.sameSite = "None" \/ op.ours \/ op.navigation
    /\ PrefixesOk(c, l.path)
    /\ op.kind = "script" => \A old \in Held(cookies, c) : ~old.httpOnly

DatedNow(cookies, c) == c
\* The stored form: a replaced cookie keeps its creation time.
Dated(cookies, c) == [c EXCEPT !.created = IF Held(cookies, c) = {} THEN @ ELSE (CHOOSE old \in Held(cookies, c) : TRUE).created]

PutCookie(cookies, c) == Append(SelectSeq(cookies, LAMBDA old : CookieIdentity(old) # CookieIdentity(c)), c)
StoredJar(cookies, c, now) ==
    LET put == PutCookie(cookies, Dated(cookies, c))
    IN  IF Unexpired(c, now) THEN EvictExcess(put) ELSE Front(put)

StoreCookie(l, op) ==
    LET live == EvictExpired(jar, clock)
        c == Scoped(l, op.url, clock)
        ok == AcceptsCookie(live, l, op, c)
    IN  /\ jar' = IF ok THEN StoredJar(live, c, clock) ELSE live
        /\ did' = [op |-> "store", kind |-> op.kind, trustworthy |-> op.url.trustworthy]
        /\ UNCHANGED clock

\* samesite_allows.
SameSiteAllows(c, op) ==
    \/ c.sameSite = "None" \/ op.ours
    \/ c.sameSite \in {"Lax", "Default"} /\ op.navigation /\ op.safe
\* StoredCookie::matches.
CookieMatches(c, op) ==
    /\ IF c.hostOnly THEN c.domain = op.url.host ELSE DomainMatch(op.url.host, c.domain)
    /\ PathMatch(op.url.path, c.path)
    /\ c.secure => op.url.trustworthy
    /\ c.httpOnly => op.kind = "http"
    /\ SameSiteAllows(c, op)

\* Paths are compared by their length in characters; a segment is one.
PathLength(p) == IF p = <<"">> THEN 1 ELSE IF Last(p) = "" THEN 2 * Len(p) - 1 ELSE 2 * Len(p)
SentFirst(a, b) ==
    \/ PathLength(a.path) > PathLength(b.path)
    \/ PathLength(a.path) = PathLength(b.path) /\ a.created < b.created
\* Stable sort by SentFirst.
HeaderOf(cookies) ==
    LET insert(out, c) ==
            LET at == Cardinality({i \in DOMAIN out : ~SentFirst(c, out[i])})
            IN  SubSeq(out, 1, at) \o <<c>> \o SubSeq(out, at + 1, Len(out))
    IN  FoldLeft(insert, <<>>, cookies)

HeaderFor(cookies, op) == HeaderOf(SelectSeq(cookies, LAMBDA c : CookieMatches(c, op)))

DidNow(what) == did' = [op |-> what, kind |-> "http", trustworthy |-> TRUE]
\* cookie_string: what it answers is HeaderFor the live cookies.
CookieString(op) ==
    LET live == EvictExpired(jar, clock)
        touch(c) == IF CookieMatches(c, op) THEN [c EXCEPT !.accessed = clock] ELSE c
    IN  /\ jar' = [i \in DOMAIN live |-> touch(live[i])]
        /\ DidNow("other") /\ UNCHANGED clock

ClearCookies == jar' = <<>> /\ DidNow("other") /\ UNCHANGED clock

\* snapshot.
Snapshot(cookies) == SelectSeq(cookies, LAMBDA c : c.expiry # SessionCookie)

\* sanitize: the rules of store that need no request, with the overlay rule
\* against everything restored so far.
Sane(cookies, c, now) ==
    /\ Unexpired(c, now)
    /\ c.sameSite = "None" => c.secure
    /\ c.hostOnly \/ c.domain \notin PublicSuffixes
    /\ PrefixesOk(c, c.path)
    /\ ~Overlays(cookies, c)
Capped(c, now) == IF c.expiry = SessionCookie THEN c ELSE [c EXCEPT !.expiry = Min({@, now + MaxLife})]
Restored(cookies, records, now) ==
    LET load(s, c) == IF Sane(s, c, now) THEN PutCookie(s, Capped(c, now)) ELSE s
    IN  EvictExcess(FoldLeft(load, EvictExpired(cookies, now), records))

\* A new process, at any later time, restores the last save into an empty
\* jar. What was stored after that save is lost, as if it had never been, so
\* the save may be taken at once.
RestartJar(later) ==
    /\ jar' = Restored(<<>>, Snapshot(jar), later) /\ clock' = later /\ DidNow("restart")

JarTick == clock < MaxTime /\ clock' = clock + 1 /\ DidNow("other") /\ UNCHANGED jar

JarInit ==
    /\ jar = <<>> /\ clock = 0
    /\ did = [op |-> "other", kind |-> "http", trustworthy |-> TRUE]
JarNext ==
    \/ \E l \in CookieLines, op \in CookieOps : StoreCookie(l, op)
    \/ \E op \in CookieOps : CookieString(op)
    \/ \E later \in clock..MaxTime : RestartJar(later)
    \/ ClearCookies \/ JarTick
JarSpec == JarInit /\ [][JarNext]_jarVars

----------------------------------------------------------------------------
(* Properties. *)

Cookies == [name : DOMAIN PrefixOf, domain : Seq(STRING), hostOnly : BOOLEAN, path : Seq(STRING), secure : BOOLEAN,
            httpOnly : BOOLEAN, sameSite : {"Strict", "Lax", "None", "Default"},
            expiry : {SessionCookie} \cup 0..(MaxTime + MaxLife), created : 0..MaxTime, accessed : 0..MaxTime]

\* Cookies are well formed, last used no earlier than created, and expire at
\* most MAX_LIFETIME after their last write or restore.
JarTypeOK ==
    /\ clock \in 0..MaxTime
    /\ jar \in Seq(Cookies)
    /\ \A i \in DOMAIN jar : jar[i].created <= jar[i].accessed /\ jar[i].accessed <= clock /\ jar[i].expiry <= clock + MaxLife

\* However cookies came into the jar, by response, script or restore, there
\* is one per name, domain, host-only flag and path (lib.rs:
\* same_cookie_identity).
OnePerIdentity == \A i, j \in DOMAIN jar : CookieIdentity(jar[i]) = CookieIdentity(jar[j]) => i = j

\* The quotas hold between operations, a restore's too (lib.rs:
\* evict_excess).
WithinQuota == OverQuota(jar) = {} /\ Len(jar) <= MaxCookies

\* The storage-model rules hold of every cookie the jar holds, so none can enter by one door that another would refuse.
RulesHold ==
    \A i \in DOMAIN jar :
        /\ jar[i].sameSite = "None" => jar[i].secure
        /\ PrefixOf[jar[i].name] = "__Host-" => jar[i].secure /\ jar[i].hostOnly /\ jar[i].path = <<"">>
        /\ jar[i].domain \in PublicSuffixes => jar[i].hostOnly

StillHeld(c) == \E i \in DOMAIN jar' : jar'[i] = c
LiveCookie(c) == Unexpired(c, clock)
RoomForOne == Len(jar) < MaxCookies /\ \A d \in {jar[i].domain : i \in DOMAIN jar} : DomainCount(jar, d) < PerDomain

\* A script's store neither changes nor deletes a live HttpOnly cookie, and
\* an untrustworthy one no live Secure cookie, unless a quota evicts it
\* (lib.rs: receive_cookie).
OthersUntouched ==
    did'.op = "store" /\ RoomForOne =>
      \A i \in DOMAIN jar : LiveCookie(jar[i]) =>
         /\ jar[i].httpOnly /\ did'.kind = "script" => StillHeld(jar[i])
         /\ jar[i].secure /\ ~did'.trustworthy => StillHeld(jar[i])

\* A cookie that is written again while it lives keeps its creation time, and
\* with it its place in the Cookie header (lib.rs: receive_cookie).
CreationKept ==
    did'.op = "store" =>
      \A i \in DOMAIN jar, j \in DOMAIN jar' :
         LiveCookie(jar[i]) /\ CookieIdentity(jar[i]) = CookieIdentity(jar'[j]) => jar'[j].created = jar[i].created

\* What the domain quota evicts: no Secure cookie while the domain has a
\* plain one (lib.rs: evict_one).
EvictsPlainFirst ==
    did'.op = "store" /\ Len(jar) < MaxCookies /\ Len(jar') = Len(EvictExpired(jar, clock)) =>
      \A i \in DOMAIN jar : LiveCookie(jar[i]) /\ jar[i].secure /\ Held(jar', jar[i]) = {}
         => \A j \in DOMAIN jar' : jar'[j].domain = jar[i].domain => jar'[j].secure

\* The Cookie header lists longer paths first and older cookies first within
\* one length, and names a cookie once (lib.rs: cookie_string).
HeaderOrdered ==
    \A op \in CookieOps : LET out == HeaderFor(EvictExpired(jar, clock), op) IN
        \A i, j \in DOMAIN out : i < j =>
            /\ PathLength(out[i].path) >= PathLength(out[j].path)
            /\ PathLength(out[i].path) = PathLength(out[j].path) => out[i].created <= out[j].created
            /\ CookieIdentity(out[i]) # CookieIdentity(out[j])

\* The jar after any sequence of responses, scripts, reads and restarts: one
\* cookie per identity, within the quotas, by the rules, sent in order.
JarSafe ==
    /\ JarTypeOK /\ OnePerIdentity /\ WithinQuota /\ RulesHold
    /\ HeaderOrdered

\* A restart keeps every saved cookie that has not expired, times and order
\* included, except a plain cookie that overlays a Secure one saved before
\* it: store lets a trustworthy page set that one, restore does not.
RestartKeeps ==
    did'.op = "restart" =>
      LET lives == SelectSeq(jar, LAMBDA c : c.expiry # SessionCookie /\ Unexpired(c, clock'))
      IN  jar' = SelectSeq(lives, LAMBDA c : ~Overlays(SubSeq(lives, 1, CHOOSE i \in DOMAIN lives : lives[i] = c), c))

\* What no operation on the jar may do.
JarSteps == [OthersUntouched /\ CreationKept /\ EvictsPlainFirst /\ RestartKeeps]_jarVars
=============================================================================
