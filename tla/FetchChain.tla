----------------------------- MODULE FetchChain -----------------------------
(* One request of the network client (net/client.rs send): the hops of its  *)
(* redirect chain, the CORS rules of each hop with their preflight          *)
(* (net/cors.rs), the request state a redirect rewrites, Sec-Fetch-Site and *)
(* the referrer (net/referrer.rs). Servers answer as they like. A URL is    *)
(* its origin and whether it names a user; a header is modelled when a rule *)
(* reads it.                                                                *)
EXTENDS Integers, Sequences, FiniteSets, SequencesExt, FiniteSetsExt

CONSTANTS
    Origins,        \* origins
    SiteOf,         \* origin -> its site, cookies::origins_same_site
    Trustworthy,    \* origins that are potentially trustworthy
    Requests,       \* the requests a caller may send
    Redirections,   \* what a redirect may say of the referrer policy; "" for nothing
    MaxRedirects    \* max_redirects

NoOrigin == "none"
RequestModes == {"navigate", "no-cors", "same-origin", "cors"}
ReferrerPolicies == {"no-referrer", "no-referrer-when-downgrade", "same-origin", "origin", "strict-origin",
                     "origin-when-cross-origin", "strict-origin-when-cross-origin", "unsafe-url"}

ASSUME FetchAssumption ==
    /\ NoOrigin \notin Origins /\ Trustworthy \subseteq Origins /\ DOMAIN SiteOf = Origins
    /\ MaxRedirects \in Nat \ {0}
    /\ \A r \in Requests :
        /\ r.mode \in RequestModes /\ r.credentials \in {"omit", "same-origin", "include"}
        /\ r.redirect \in {"follow", "error", "manual"} /\ r.method \in {"GET", "POST", "PUT"}
        /\ {r.origin, r.url} \subseteq Origins /\ r.initiator \in Origins \cup {NoOrigin}
        /\ r.policy \in ReferrerPolicies /\ r.auth \in BOOLEAN

VARIABLES
    request,    \* the request as the caller gave it
    hop,        \* Hop: url, user, method, body, auth, type, previous, tainted, crossed
    fetchSite,  \* fetch_site, 0 for none
    referrer,   \* the determined referrer: [o, full], or NoReferrer
    policy,     \* referrer_policy
    followed,   \* redirects followed
    phase,      \* what the call waits for
    result,     \* how it ended
    chain,      \* history: the origins of the URL list
    sent,       \* history: the requests on the wire, preflights too
    checked     \* history: the hops whose response passed the CORS check

fetchVars == <<request, hop, fetchSite, referrer, policy, followed, phase, result, chain, sent, checked>>

NoReferrer == [o |-> NoOrigin, full |-> FALSE]

----------------------------------------------------------------------------
(* Pure rules. *)

\* FetchSite: 1 same origin, 2 same site, 3 cross site.
Between(a, b) == IF a = b THEN 1 ELSE IF SiteOf[a] = SiteOf[b] THEN 2 ELSE 3
Widen(site, init, to) == IF site = 0 \/ init = NoOrigin THEN site ELSE Max({site, Between(init, to)})

\* determine_referrer.
Downgrade(from, to) == from \in Trustworthy /\ to \notin Trustworthy
DetermineReferrer(p, ref, to) ==
    LET full == ref
        bare == [ref EXCEPT !.full = FALSE]
        here == ref.o = to
        down == Downgrade(ref.o, to)
    IN  IF ref = NoReferrer THEN NoReferrer
        ELSE CASE p = "no-referrer" -> NoReferrer
               [] p = "origin" -> bare
               [] p = "unsafe-url" -> full
               [] p = "strict-origin" -> IF down THEN NoReferrer ELSE bare
               [] p = "same-origin" -> IF here THEN full ELSE NoReferrer
               [] p = "origin-when-cross-origin" -> IF here THEN full ELSE bare
               [] p = "no-referrer-when-downgrade" -> IF down THEN NoReferrer ELSE full
               [] p = "strict-origin-when-cross-origin" -> IF here THEN full ELSE IF down THEN NoReferrer ELSE bare

\* hop_taint; "refused" is the network error.
HopTaint(r, o) ==
    IF r.origin = o \/ r.mode = "navigate" THEN "basic"
    ELSE IF r.mode = "cors" THEN "cors"
    ELSE IF r.mode = "no-cors" /\ r.redirect # "manual" THEN "opaque" ELSE "refused"

\* apply_tainting: what the hop to its own URL acquires.
Taints(r, h) == h.previous # NoOrigin /\ h.previous # h.url /\ r.origin # h.previous
Tainted(r, h) ==
    [h EXCEPT !.type = IF HopTaint(r, h.url) = "basic" THEN @ ELSE HopTaint(r, h.url),
              !.crossed = @ \/ h.url # r.origin,
              !.tainted = @ \/ Taints(r, h),
              !.previous = h.url]

SerializedOrigin(r, h) == IF h.tainted THEN "null" ELSE r.origin

\* cors_check: allow is the origin the response allows, vouch its
\* Access-Control-Allow-Credentials.
CorsCheck(r, h, allow, vouch) ==
    \/ r.credentials # "include" /\ allow = "*"
    \/ allow = SerializedOrigin(r, h) /\ (r.credentials = "include" => vouch)

\* needs_preflight: a page's authorization header is not safelisted.
NeedsPreflight(h) == h.method = "PUT" \/ h.auth
\* preflight_ok over what the answer lists: "*" does not cover authorization.
PreflightOk(r, h, allow, vouch, lists) ==
    /\ CorsCheck(r, h, allow, vouch)
    /\ h.method = "PUT" => "PUT" \in lists \/ (r.credentials # "include" /\ "*" \in lists)
    /\ h.auth => "authorization" \in lists

----------------------------------------------------------------------------
(* Sending a hop. *)

Wire(kind, h) ==
    [kind |-> kind, url |-> h.url, hop |-> Len(chain),
     origin |-> IF kind = "preflight" \/ h.type = "cors" \/ h.method # "GET" THEN SerializedOrigin(request, h) ELSE NoOrigin,
     method |-> h.method, body |-> h.body /\ kind = "request", auth |-> h.auth /\ kind = "request",
     site |-> fetchSite, referrer |-> referrer, policy |-> policy]
Stop(why) == phase' = "done" /\ result' = why

\* exchange up to the request: apply_tainting, the budget, the preflight.
StartHop ==
    LET h == Tainted(request, hop) IN
    /\ phase = "start"
    /\ \/ HopTaint(request, hop.url) = "refused" /\ Stop("refused") /\ UNCHANGED <<hop, sent>>
       \/ HopTaint(request, hop.url) # "refused" /\ Stop("timeout") /\ UNCHANGED <<hop, sent>>
       \/ /\ HopTaint(request, hop.url) # "refused"
          /\ hop' = h
          /\ LET first == IF h.type = "cors" /\ NeedsPreflight(h) THEN "preflight" ELSE "request" IN
             phase' = first /\ sent' = Append(sent, Wire(first, h))
          /\ UNCHANGED result
    /\ UNCHANGED <<request, fetchSite, referrer, policy, followed, chain, checked>>

\* cors_preflight.
Allowed == Origins \cup {"*", "null", "absent"}
AnswerPreflight ==
    /\ phase = "preflight"
    /\ \E allow \in Allowed, vouch \in BOOLEAN, lists \in SUBSET {"*", "PUT", "authorization"} :
        IF PreflightOk(request, hop, allow, vouch, lists)
        THEN phase' = "request" /\ sent' = Append(sent, Wire("request", hop)) /\ UNCHANGED result
        ELSE Stop("refused") /\ UNCHANGED sent
    /\ UNCHANGED <<request, hop, fetchSite, referrer, policy, followed, chain, checked>>

----------------------------------------------------------------------------
(* The response. *)

CorsGateNever(allow, vouch) == TRUE
CorsGate(allow, vouch) == hop.type = "cors" => CorsCheck(request, hop, allow, vouch)
Filtered(manual) == IF manual THEN "opaqueredirect" ELSE hop.type

\* apply_redirect_policy.
Rewritten(h, status, o, user) ==
    LET toGet == (status = 302 /\ h.method = "POST") \/ (status = 303 /\ h.method # "GET") IN
    [h EXCEPT !.url = o, !.user = user, !.method = IF toGet THEN "GET" ELSE @,
              !.body = @ /\ ~toGet, !.auth = @ /\ h.url = o]
NextHop(h, status, o, user) == Rewritten(h, status, o, user)

\* The referrer a redirect starts from is the one the last hop sent.
NextSource == referrer

Fail == phase = "request" /\ Stop("error")
        /\ UNCHANGED <<request, hop, fetchSite, referrer, policy, followed, chain, sent, checked>>

\* classify_response and the redirect steps of send.
RefusesCredentials(o, user) ==
    user /\ (hop.type = "cors" \/ (request.mode = "cors" /\ request.origin # o))
AtLimit == followed = MaxRedirects
Follow(status, o, user, p) ==
    IF AtLimit
    THEN Stop("limit") /\ UNCHANGED <<hop, fetchSite, referrer, policy, followed, chain>>
    ELSE \/ Stop("refused") /\ UNCHANGED <<hop, fetchSite, referrer, policy, followed, chain>>    \* on_redirect
         \/ /\ hop' = NextHop(hop, status, o, user)
            /\ policy' = IF p = "" THEN policy ELSE p
            /\ fetchSite' = Widen(fetchSite, request.initiator, o)
            /\ referrer' = DetermineReferrer(policy', NextSource, o)
            /\ followed' = followed + 1 /\ chain' = Append(chain, o)
            /\ phase' = "start" /\ UNCHANGED result
Answer ==
    /\ phase = "request"
    /\ \E allow \in (IF hop.type = "cors" THEN Allowed ELSE {"absent"}), vouch \in BOOLEAN, status \in {200, 302, 303, 307} :
        /\ checked' = IF hop.type = "cors" /\ CorsCheck(request, hop, allow, vouch) THEN checked \cup {Len(chain)} ELSE checked
        /\ IF ~CorsGate(allow, vouch)
           THEN Stop("refused") /\ UNCHANGED <<hop, fetchSite, referrer, policy, followed, chain>>
           ELSE IF status = 200 \/ request.redirect = "manual"
           THEN Stop(Filtered(status # 200)) /\ UNCHANGED <<hop, fetchSite, referrer, policy, followed, chain>>
           ELSE \E o \in Origins, user \in BOOLEAN, p \in Redirections :
                IF RefusesCredentials(o, user) \/ request.redirect = "error"
                THEN Stop("refused") /\ UNCHANGED <<hop, fetchSite, referrer, policy, followed, chain>>
                ELSE Follow(status, o, user, p)
    /\ UNCHANGED <<request, sent>>

----------------------------------------------------------------------------

FetchInit ==
    /\ request \in Requests
    /\ hop = [url |-> request.url, user |-> FALSE, method |-> request.method, body |-> request.method # "GET", auth |-> request.auth,
              type |-> "basic", previous |-> NoOrigin, tainted |-> FALSE, crossed |-> FALSE]
    /\ fetchSite = IF request.initiator = NoOrigin THEN 0 ELSE Between(request.initiator, request.url)
    /\ policy = request.policy
    /\ referrer = DetermineReferrer(policy, [o |-> request.origin, full |-> TRUE], request.url)
    /\ followed = 0 /\ phase = "start" /\ result = "none"
    /\ chain = <<request.url>> /\ sent = <<>> /\ checked = {}
FetchNext == StartHop \/ AnswerPreflight \/ Fail \/ Answer
FetchSpec == FetchInit /\ [][FetchNext]_fetchVars

----------------------------------------------------------------------------
(* Properties. *)

\* Type invariant; the hops are bounded by the redirect limit.
FetchTypeOK ==
    /\ phase \in {"start", "preflight", "request", "done"} /\ fetchSite \in 0..3
    /\ hop.url \in Origins /\ hop.type \in {"basic", "cors", "opaque"}
    /\ followed \in 0..MaxRedirects /\ Len(chain) = followed + 1

\* FetchSite::widen: the header names the widest relationship of the whole
\* URL list, or none for a request of the user agent.
FetchSiteWidest ==
    \A i \in DOMAIN sent :
        sent[i].site = IF request.initiator = NoOrigin THEN 0
                       ELSE Max({Between(request.initiator, chain[j]) : j \in 1..sent[i].hop})

\* apply_tainting: the serialized origin is null exactly when the URL list
\* left an origin that is not the request's own for another one.
OriginNullExactly ==
    \A i \in DOMAIN sent : sent[i].origin # NoOrigin =>
        (sent[i].origin = "null" <=> \E j \in 2..sent[i].hop : chain[j - 1] # chain[j] /\ chain[j - 1] # request.origin)

\* cors_gate: a result that is readable across an origin went through the
\* check on every hop since the first one that crossed it, redirects included.
Crossed == {j \in DOMAIN chain : chain[j] # request.origin}
ReadableIsChecked ==
    /\ result = "basic" /\ request.mode # "navigate" => Crossed = {}
    /\ result = "cors" => Crossed # {} /\ Min(Crossed)..Len(chain) \subseteq checked

\* cors_preflight: a request that needs a preflight is sent right after one
\* for the same hop, after any redirect.
PreflightFirst ==
    \A i \in DOMAIN sent :
        LET w == sent[i] IN
        w.kind = "request" /\ (w.method = "PUT" \/ w.auth) /\ request.mode = "cors" /\ (\E j \in 1..w.hop : chain[j] # request.origin) =>
            i > 1 /\ sent[i - 1].kind = "preflight" /\ sent[i - 1].hop = w.hop

\* apply_redirect_policy: the caller's authorization header stays with the
\* origin it was written for, and a request rewritten to GET has no body.
CarriesOnlyItsOwn ==
    \A i \in DOMAIN sent :
        /\ sent[i].auth => \A j \in 1..sent[i].hop : chain[j] = chain[1]
        /\ sent[i].body => sent[i].method = request.method /\ request.method # "GET"

\* determine_referrer on every hop: the referrer only shrinks along a chain,
\* and a strict policy never lets it cross a downgrade.
ReferrerShrinks ==
    /\ \A i, j \in DOMAIN sent : i < j =>
        /\ sent[j].referrer \in {NoReferrer, sent[i].referrer, [sent[i].referrer EXCEPT !.full = FALSE]}
    /\ \A i \in DOMAIN sent :
        sent[i].referrer # NoReferrer /\ sent[i].policy \in {"strict-origin", "strict-origin-when-cross-origin", "no-referrer-when-downgrade"} =>
            ~Downgrade(sent[i].referrer.o, sent[i].url)

\* What every request of a redirect chain carries, and what its response may be
\* read as, depends on the whole chain and not on the last hop.
FetchSafe ==
    /\ FetchTypeOK /\ FetchSiteWidest /\ OriginNullExactly /\ ReadableIsChecked
    /\ PreflightFirst /\ CarriesOnlyItsOwn /\ ReferrerShrinks
=============================================================================
