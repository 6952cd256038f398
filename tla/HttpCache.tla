------------------------------ MODULE HttpCache ------------------------------
(* The HTTP cache of a storage partition (browser/network.rs): concurrent   *)
(* page fetches that read it, revalidate what they read and store what they *)
(* get. The server's content has versions; a body is the version and the    *)
(* request header it was made for. The response is stored when its body is  *)
(* complete, which DialStreams models chunk by chunk.                       *)
EXTENDS Integers, FiniteSets, FiniteSetsExt

CONSTANTS
    Keys,         \* CacheKey: method, URL, mode, credentials, initiator and partition
    OpaqueKeys,   \* those whose responses are opaque
    SizeOf,       \* key -> bytes of its bodies
    Fetchers,     \* concurrent dials
    PageRequests, \* requests: key, mode, hdr, conditional, integrity (0, or the version it names)
    Heads,        \* response heads: age (max-age), vary, etag, noStore, cross (final URL elsewhere)
    MaxEntries,   \* CACHE_MAX_ENTRIES
    MaxBytes,     \* CACHE_MAX_BYTES
    MaxVersion, MaxClock, MaxFetches   \* bounds of the instance

CacheModes == {"default", "no-store", "reload", "no-cache", "force-cache", "only-if-cached"}
ASSUME CacheAssumption ==
    /\ OpaqueKeys \subseteq Keys /\ SizeOf \in [Keys -> Nat \ {0}]
    /\ MaxEntries \in Nat \ {0} /\ MaxBytes \in Nat /\ \A k \in Keys : SizeOf[k] <= MaxBytes
    /\ \A r \in PageRequests : r.key \in Keys /\ r.mode \in CacheModes /\ r.conditional \in BOOLEAN /\ r.integrity \in Nat
    /\ \A h \in Heads : h.age \in Nat /\ h.vary \in {"", "hdr", "*"} /\ {h.etag, h.noStore, h.cross} \subseteq BOOLEAN

NothingStored == [v |-> 0]

VARIABLES
    store,      \* key -> CachedResponse or NothingStored
    version,    \* the server's current content
    monotonic,  \* the cache clock
    fetcher,    \* per dial: where it is, its request, the entry it read, the answer on its way
    delivered,  \* history: the body a fetch has just resolved with
    begun       \* fetches begun

cacheVars == <<store, version, monotonic, fetcher, delivered, begun>>

IdleFetcher == [at |-> "idle"]
NoDelivery == [how |-> "none"]

----------------------------------------------------------------------------
(* Rules. *)

VaryMatches(entry, r) == entry.head.vary = "" \/ (entry.head.vary = "hdr" /\ entry.hdr = r.hdr)
\* fresh: spent at age = max-age.
Fresh(entry) == monotonic - entry.at < entry.head.age

\* cached_hit: what a dial may use of the cache.
CachedHit(r) ==
    IF ~r.conditional /\ store[r.key] # NothingStored /\ VaryMatches(store[r.key], r) THEN store[r.key] ELSE NothingStored

\* cached_response: answered without a dial; OnlyIfCached never dials.
Answers(r, entry) ==
    \/ r.mode \in {"only-if-cached", "force-cache"} /\ entry # NothingStored
    \/ r.mode = "default" /\ entry # NothingStored /\ Fresh(entry)
RefusedByMode(r, entry) == r.mode = "only-if-cached" /\ (entry # NothingStored => entry.head.cross)
IntegrityOk(r, v) == r.integrity \in {0, v}

\* should_store of a 2xx answer.
ShouldStore(r, head) == ~r.conditional /\ r.mode # "no-store" /\ r.key \notin OpaqueKeys /\ ~head.noStore

Filled(c) == {k \in Keys : c[k] # NothingStored}
\* One more entry of this size fits beside K.
FitsBeside(K, size) == Cardinality(K) < MaxEntries /\ MapThenSumSet(LAMBDA k : SizeOf[k], K) + size <= MaxBytes
\* insert_cached evicts the oldest entry, the one to be replaced among the
\* others, until the new one fits. The hash map breaks ties of age.
Survivors(c, size) ==
    {K \in SUBSET Filled(c) : LET gone == Filled(c) \ K IN
        /\ FitsBeside(K, size)
        /\ \A x \in gone, y \in K : c[x].at <= c[y].at
        /\ gone = {} \/ \E x \in gone : ~FitsBeside(K \cup {x}, size) /\ \A y \in gone : c[y].at <= c[x].at}
InsertCached(k, entry) ==
    \E K \in Survivors(store, SizeOf[k]) :
        store' = [j \in Keys |-> IF j = k THEN entry ELSE IF j \in K THEN store[j] ELSE NothingStored]

----------------------------------------------------------------------------
(* One dial. *)

Entry(v, for, head, hdr) == [v |-> v, for |-> for, head |-> head, hdr |-> hdr, at |-> monotonic]
Deliver(how, r, v, for, since) == delivered' = [how |-> how, r |-> r, v |-> v, for |-> for, since |-> since]

\* cache_read, and the request of a miss with the validator it carries.
BeginFetch(d, r) ==
    LET entry == CachedHit(r) IN
    /\ fetcher[d] = IdleFetcher /\ begun < MaxFetches /\ begun' = begun + 1
    /\ \/ /\ RefusedByMode(r, entry)
          /\ delivered' = NoDelivery /\ UNCHANGED fetcher
       \/ /\ ~RefusedByMode(r, entry) /\ Answers(r, entry)
          /\ IF IntegrityOk(r, entry.v) THEN Deliver("hit", r, entry.v, entry.for, version) ELSE delivered' = NoDelivery
          /\ UNCHANGED fetcher
       \/ /\ ~RefusedByMode(r, entry) /\ ~Answers(r, entry)
          /\ fetcher' = [fetcher EXCEPT ![d] = [at |-> "sent", r |-> r, stored |-> entry, since |-> version,
                           etag |-> IF r.mode \in {"default", "no-cache"} /\ entry # NothingStored /\ entry.head.etag THEN entry.v ELSE 0]]
          /\ delivered' = NoDelivery
    /\ UNCHANGED <<store, version, monotonic>>

\* The server answers with what it has when the request arrives.
Serve(d, head) ==
    /\ fetcher[d].at = "sent"
    /\ LET f == fetcher[d] IN
       fetcher' = [fetcher EXCEPT ![d] = [at |-> "served", r |-> f.r, stored |-> f.stored, since |-> f.since,
                     status |-> IF f.etag = version THEN 304 ELSE 200, v |-> version, head |-> head]]
    /\ delivered' = NoDelivery /\ UNCHANGED <<store, version, monotonic, begun>>

\* A redirect the policy refuses, an error status or a failed transfer ends
\* the dial and stores nothing.
FailFetch(d) ==
    /\ fetcher[d].at = "served"
    /\ fetcher' = [fetcher EXCEPT ![d] = IdleFetcher] /\ delivered' = NoDelivery
    /\ UNCHANGED <<store, version, monotonic, begun>>

MergedLive(f) == LET e == store[f.r.key] IN IF e = NothingStored THEN [v |-> f.v, for |-> f.r.hdr] ELSE [v |-> e.v, for |-> f.r.hdr]
\* merge_not_modified keeps the body the dial read from the cache.
Merged(f) == [v |-> f.stored.v, for |-> f.stored.for]

\* remember_response.
Remember(r, v, for, head) ==
    IF ShouldStore(r, head) THEN InsertCached(r.key, Entry(v, for, head, r.hdr)) ELSE UNCHANGED store

\* send_head with a 304: Done, stored again with the new head. Integrity
\* metadata is not checked on this path.
NotModified(d) ==
    LET f == fetcher[d] IN
    /\ f.at = "served" /\ f.status = 304 /\ f.stored # NothingStored
    /\ Remember(f.r, Merged(f).v, Merged(f).for, f.head)
    /\ Deliver("merged", f.r, Merged(f).v, Merged(f).for, f.since)
    /\ fetcher' = [fetcher EXCEPT ![d] = IdleFetcher]
    /\ UNCHANGED <<version, monotonic, begun>>

\* A 200 read to its end, integrity checked on the collected bytes.
Complete(d) ==
    LET f == fetcher[d] IN
    /\ f.at = "served" /\ f.status = 200
    /\ IF IntegrityOk(f.r, f.v)
       THEN Remember(f.r, f.v, f.r.hdr, f.head) /\ Deliver("network", f.r, f.v, f.r.hdr, f.since)
       ELSE UNCHANGED store /\ delivered' = NoDelivery
    /\ fetcher' = [fetcher EXCEPT ![d] = IdleFetcher]
    /\ UNCHANGED <<version, monotonic, begun>>

Publish == version < MaxVersion /\ version' = version + 1 /\ delivered' = NoDelivery /\ UNCHANGED <<store, monotonic, fetcher, begun>>
Second == monotonic < MaxClock /\ monotonic' = monotonic + 1 /\ delivered' = NoDelivery /\ UNCHANGED <<store, version, fetcher, begun>>

CacheInit ==
    /\ store = [k \in Keys |-> NothingStored] /\ version = 1 /\ monotonic = 0
    /\ fetcher = [d \in Fetchers |-> IdleFetcher] /\ delivered = NoDelivery /\ begun = 0
CacheNext ==
    \/ \E d \in Fetchers :
        \/ \E r \in PageRequests : BeginFetch(d, r)
        \/ \E head \in Heads : Serve(d, head)
        \/ FailFetch(d) \/ NotModified(d) \/ Complete(d)
    \/ Publish \/ Second
CacheSpec == CacheInit /\ [][CacheNext]_cacheVars

----------------------------------------------------------------------------
(* Properties. *)

\* What the cache holds, may be used at all, and fits its two limits.
CacheTypeOK ==
    /\ MapThenSumSet(LAMBDA k : SizeOf[k], Filled(store)) <= MaxBytes /\ Cardinality(Filled(store)) <= MaxEntries
    /\ \A k \in Filled(store) :
        /\ k \notin OpaqueKeys /\ store[k].v \in 1..version /\ store[k].at <= monotonic
        /\ ~store[k].head.noStore

\* A fetch that may not be answered from the cache alone resolves with
\* content the server had at some moment of that fetch, however dials
\* overtake one another and whatever they store in between (network.rs:
\* cache_read, send_head, merge_not_modified).
RevalidatedIsCurrent ==
    delivered.how \in {"network", "merged"} => delivered.v >= delivered.since

\* Only a mode that asks for it resolves with a stored response it did not
\* validate, and stored bodies go to requests that agree on the header the
\* responses vary by, after any number of replacements and validations
\* (network.rs: cached_response, vary_matches).
HitsAreAllowed ==
    /\ delivered.how = "hit" => delivered.r.mode \in {"default", "force-cache", "only-if-cached"}
    /\ delivered.how # "none" /\ (\A h \in Heads : h.vary # "") => delivered.for = delivered.r.hdr

\* A cache shared by dials that overtake one another gives out nothing that is
\* older than the fetch asked for or meant for another request.
CacheSafe ==
    CacheTypeOK /\ RevalidatedIsCurrent /\ HitsAreAllowed
=============================================================================
