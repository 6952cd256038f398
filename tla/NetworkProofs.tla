---------------------------- MODULE NetworkProofs ----------------------------
(***************************************************************************)
(* Theorems about two parts of the network side of the browser: the HTTP   *)
(* cache (HttpCache) and a CDP connection with its sessions and            *)
(* subscriptions (CdpConnection), for every value of their constants.      *)
(***************************************************************************)
EXTENDS HttpCache, CdpConnection, FiniteSetTheorems, TLAPS

(***************************************************************************)
(* The HTTP cache.                                                          *)
(*                                                                         *)
(* A dial keeps the entry it read, and its 304 answers the validator of     *)
(* that entry: so it was the server's content when the answer was made,     *)
(* whatever other dials have stored since.                                  *)
(***************************************************************************)

AllVary == \A h \in Heads : h.vary # ""

(* A stored response: content the server had, stored in the past with a     *)
(* head that allows it; and made for the header it is stored under, when    *)
(* all responses vary by it.                                                *)
EntryOk(e) ==
    /\ e.v \in Nat \ {0} /\ e.v <= version
    /\ e.at \in Nat /\ e.at <= monotonic
    /\ e.head \in Heads /\ ~e.head.noStore
    /\ AllVary => e.for = e.hdr

StoreInv ==
    /\ store = [k \in Keys |-> store[k]]
    /\ \A k \in Keys : store[k] # NothingStored => EntryOk(store[k]) /\ k \notin OpaqueKeys
    /\ IsFiniteSet(Filled(store)) /\ Cardinality(Filled(store)) <= MaxEntries

ClockInv == version \in Nat \ {0} /\ monotonic \in Nat

(* What a dial read from the cache when it began. *)
ReadOk(f) ==
    /\ f.r \in PageRequests
    /\ f.stored # NothingStored => EntryOk(f.stored) /\ VaryMatches(f.stored, f.r)
    /\ f.since \in Nat /\ f.since <= version

DialOk(f) ==
    \/ f = IdleFetcher
    \/ /\ f.at = "sent" /\ ReadOk(f)
       /\ f.etag # 0 => f.stored # NothingStored /\ f.etag = f.stored.v
    \/ /\ f.at = "served" /\ ReadOk(f)
       /\ f.v \in Nat \ {0} /\ f.since <= f.v /\ f.v <= version /\ f.head \in Heads
       /\ f.status = 304 => f.stored # NothingStored /\ f.stored.v = f.v

DialsInv == fetcher = [d \in Fetchers |-> fetcher[d]] /\ \A d \in Fetchers : DialOk(fetcher[d])

CacheInv == ClockInv /\ StoreInv /\ DialsInv /\ RevalidatedIsCurrent /\ HitsAreAllowed

-----------------------------------------------------------------------------
(* Evicting the oldest entries and storing one more keeps the cache within  *)
(* its limit of entries.                                                    *)
LEMMA InsertKeeps ==
    ASSUME CacheInv, NEW k \in Keys, k \notin OpaqueKeys, NEW e, EntryOk(e), InsertCached(k, e),
           version' = version, monotonic' = monotonic
    PROVE  StoreInv'
<1>1. PICK K \in Survivors(store, SizeOf[k]) :
         store' = [j \in Keys |-> IF j = k THEN e ELSE IF j \in K THEN store[j] ELSE NothingStored]
    BY DEF InsertCached
<1>2. K \subseteq Filled(store) /\ Cardinality(K) < MaxEntries
    BY <1>1 DEF Survivors, FitsBeside
<1>3. Filled(store') \subseteq K \cup {k}
    BY <1>1 DEF Filled
<1>4. IsFiniteSet(K) /\ Cardinality(K) \in Nat
    BY <1>2, FS_Subset, FS_CardinalityType DEF CacheInv, StoreInv
<1>5. IsFiniteSet(K \cup {k}) /\ Cardinality(K \cup {k}) <= Cardinality(K) + 1
  <2>1. /\ IsFiniteSet(K \cup {k})
        /\ Cardinality(K \cup {k}) = IF k \in K THEN Cardinality(K) ELSE Cardinality(K) + 1
      BY <1>4, FS_AddElement
  <2> QED BY <2>1, <1>4
<1>6. IsFiniteSet(Filled(store')) /\ Cardinality(Filled(store')) <= Cardinality(K \cup {k})
    BY <1>3, <1>5, FS_Subset
<1>7. Cardinality(Filled(store')) <= MaxEntries
  <2>1. Cardinality(Filled(store')) \in Nat /\ Cardinality(K \cup {k}) \in Nat
      BY <1>5, <1>6, FS_CardinalityType
  <2>2. MaxEntries \in Nat
      BY CacheAssumption DEF CacheAssumption
  <2> QED BY <2>1, <2>2, <1>2, <1>4, <1>5, <1>6
<1>8. \A j \in Keys : store'[j] # NothingStored => EntryOk(store'[j]) /\ j \notin OpaqueKeys
  <2>2. \A j \in Keys : store'[j] = IF j = k THEN e ELSE IF j \in K THEN store[j] ELSE NothingStored
      BY <1>1
  <2>3. \A j \in Keys : store[j] # NothingStored => EntryOk(store[j]) /\ j \notin OpaqueKeys
      BY DEF CacheInv, StoreInv
  <2> QED BY <2>2, <2>3
<1>9. store' = [j \in Keys |-> store'[j]]
    BY <1>1
<1>10. Filled(store)' = Filled(store')
    BY DEF Filled
<1>11. \A j \in Keys : (store[j] # NothingStored => EntryOk(store[j]) /\ j \notin OpaqueKeys)'
    BY <1>8 DEF EntryOk, AllVary
<1> QED BY <1>6, <1>7, <1>9, <1>10, <1>11 DEF StoreInv

(* remember_response stores what it may, or leaves the cache as it is. *)
LEMMA RememberKeeps ==
    ASSUME CacheInv, NEW r \in PageRequests, NEW v \in Nat \ {0}, v <= version, NEW for, NEW head \in Heads,
           AllVary => for = r.hdr,
           Remember(r, v, for, head), version' = version, monotonic' = monotonic
    PROVE  StoreInv'
<1>1. CASE ShouldStore(r, head)
  <2>1. r.key \in Keys /\ r.key \notin OpaqueKeys /\ ~head.noStore
      BY <1>1, CacheAssumption DEF CacheAssumption, ShouldStore
  <2>2. EntryOk(Entry(v, for, head, r.hdr))
      BY <2>1 DEF EntryOk, Entry, CacheInv, ClockInv
  <2>3. InsertCached(r.key, Entry(v, for, head, r.hdr))
      BY <1>1 DEF Remember
  <2> QED BY <2>1, <2>2, <2>3, InsertKeeps
<1>2. CASE ~ShouldStore(r, head)
  <2>1. store' = store
      BY <1>2 DEF Remember
  <2> QED BY <2>1 DEF CacheInv, StoreInv, EntryOk, AllVary, Filled
<1> QED BY <1>1, <1>2

(* Time, new content and a cache that is left alone take nothing away. *)
LEMMA LaterOk ==
    ASSUME CacheInv, version' \in Nat, version' >= version, monotonic' \in Nat, monotonic' >= monotonic
    PROVE  /\ \A e : EntryOk(e) => EntryOk(e)'
           /\ \A f : DialOk(f) => DialOk(f)'
           /\ store' = store => StoreInv'
<1>0. version \in Nat /\ monotonic \in Nat
    BY DEF CacheInv, ClockInv
<1>1. ASSUME NEW e, EntryOk(e) PROVE EntryOk(e)'
  <2>1. e.v <= version' /\ e.at <= monotonic'
      BY <1>0, <1>1 DEF EntryOk
  <2> QED BY <1>1, <2>1 DEF EntryOk, AllVary
<1>2. ASSUME NEW f, ReadOk(f) PROVE ReadOk(f)'
  <2>1. f.since <= version'
      BY <1>0, <1>2 DEF ReadOk
  <2> QED BY <1>1, <1>2, <2>1 DEF ReadOk, VaryMatches
<1>3. ASSUME NEW f, DialOk(f) PROVE DialOk(f)'
  <2>1. CASE f = IdleFetcher
      BY <2>1 DEF DialOk, IdleFetcher
  <2>2. CASE f.at = "sent" /\ ReadOk(f) /\ (f.etag # 0 => f.stored # NothingStored /\ f.etag = f.stored.v)
      BY <2>2, <1>2 DEF DialOk
  <2>3. CASE /\ f.at = "served" /\ ReadOk(f)
             /\ f.v \in Nat \ {0} /\ f.since <= f.v /\ f.v <= version /\ f.head \in Heads
             /\ f.status = 304 => f.stored # NothingStored /\ f.stored.v = f.v
    <3>1. f.v <= version'
        BY <2>3 DEF CacheInv, ClockInv
    <3> QED BY <2>3, <3>1, <1>2 DEF DialOk
  <2> QED BY <1>3, <2>1, <2>2, <2>3 DEF DialOk
<1>4. ASSUME store' = store PROVE StoreInv'
  <2>1. Filled(store)' = Filled(store)
      BY <1>4 DEF Filled
  <2> QED BY <1>1, <1>4, <2>1 DEF CacheInv, StoreInv
<1> QED BY <1>1, <1>3, <1>4

(* One dial changes. *)
LEMMA DialKeeps ==
    ASSUME CacheInv, NEW d \in Fetchers, NEW f, DialOk(f), fetcher' = [fetcher EXCEPT ![d] = f],
           version' = version, monotonic' = monotonic
    PROVE  DialsInv'
<1>1. \A x : DialOk(x) => DialOk(x)'
    BY LaterOk DEF CacheInv, ClockInv
<1>2. \A x \in Fetchers : fetcher'[x] = IF x = d THEN f ELSE fetcher[x]
    BY DEF CacheInv, DialsInv
<1>3. fetcher' = [x \in Fetchers |-> fetcher'[x]]
    BY DEF CacheInv, DialsInv
<1> QED BY <1>1, <1>2, <1>3 DEF CacheInv, DialsInv

(* A fetch that resolves with nothing. *)
LEMMA NothingDelivered ==
    ASSUME delivered' = NoDelivery
    PROVE  RevalidatedIsCurrent' /\ HitsAreAllowed'
BY DEF NoDelivery, RevalidatedIsCurrent, HitsAreAllowed

(* What a dial may use of the cache is the entry of its key, made for a     *)
(* request that agrees with it on the header.                               *)
LEMMA HitOk ==
    ASSUME CacheInv, NEW r \in PageRequests, CachedHit(r) # NothingStored
    PROVE  EntryOk(CachedHit(r)) /\ VaryMatches(CachedHit(r), r)
<1>1. r.key \in Keys
    BY CacheAssumption DEF CacheAssumption
<1> QED BY <1>1 DEF CachedHit, CacheInv, StoreInv

(* Where all responses vary, an entry that matches was made for the header  *)
(* of the request.                                                          *)
LEMMA MadeForRequest ==
    ASSUME NEW e, EntryOk(e), NEW r, VaryMatches(e, r), AllVary
    PROVE  e.for = r.hdr
BY DEF EntryOk, VaryMatches, AllVary

-----------------------------------------------------------------------------
LEMMA BeginFetchKeeps ==
    ASSUME CacheInv, NEW d \in Fetchers, NEW r \in PageRequests, BeginFetch(d, r)
    PROVE  CacheInv'
<1> DEFINE entry == CachedHit(r)
<1>1. UNCHANGED <<store, version, monotonic>>
    BY DEF BeginFetch
<1>2. ClockInv' /\ StoreInv' /\ \A f : DialOk(f) => DialOk(f)'
    BY <1>1, LaterOk DEF CacheInv, ClockInv
<1>3. entry # NothingStored => EntryOk(entry) /\ VaryMatches(entry, r)
    BY HitOk
<1>4. CASE fetcher' = fetcher /\ delivered' = NoDelivery
    BY <1>2, <1>4, NothingDelivered DEF CacheInv, DialsInv
<1>5. CASE /\ Answers(r, entry) /\ fetcher' = fetcher
           /\ Deliver("hit", r, entry.v, entry.for, version)
  <2>1. delivered'.how = "hit" /\ delivered'.r = r /\ delivered'.for = entry.for
      BY <1>5 DEF Deliver
  <2>2. entry # NothingStored /\ r.mode \in {"default", "force-cache", "only-if-cached"}
      BY <1>5 DEF Answers
  <2>3. RevalidatedIsCurrent'
      BY <2>1 DEF RevalidatedIsCurrent
  <2>4. AllVary => entry.for = r.hdr
      BY <1>3, <2>2, MadeForRequest
  <2>5. HitsAreAllowed'
      BY <2>1, <2>2, <2>4 DEF HitsAreAllowed, AllVary
  <2> QED BY <1>2, <1>5, <2>3, <2>5 DEF CacheInv, DialsInv
<1>6. CASE /\ delivered' = NoDelivery
           /\ fetcher' = [fetcher EXCEPT ![d] = [at |-> "sent", r |-> r, stored |-> entry, since |-> version,
                etag |-> IF r.mode \in {"default", "no-cache"} /\ entry # NothingStored /\ entry.head.etag THEN entry.v ELSE 0]]
  <2> DEFINE tag == IF r.mode \in {"default", "no-cache"} /\ entry # NothingStored /\ entry.head.etag THEN entry.v ELSE 0
             f == [at |-> "sent", r |-> r, stored |-> entry, since |-> version, etag |-> tag]
  <2>1. tag # 0 => entry # NothingStored /\ tag = entry.v
      OBVIOUS
  <2>2. fetcher' = [fetcher EXCEPT ![d] = f]
      BY <1>6
  <2> HIDE DEF tag, entry
  <2>3. f.at = "sent" /\ f.r = r /\ f.stored = entry /\ f.since = version /\ f.etag = tag
      OBVIOUS
  <2> HIDE DEF f
  <2>4. ReadOk(f)
      BY <2>3, <1>3 DEF ReadOk, CacheInv, ClockInv
  <2>5. DialOk(f)
      BY <2>1, <2>3, <2>4 DEF DialOk
  <2>6. DialsInv'
      BY <2>2, <2>5, <1>1, DialKeeps
  <2> QED BY <1>2, <1>6, <2>6, NothingDelivered DEF CacheInv
<1>7. \/ fetcher' = fetcher /\ delivered' = NoDelivery
      \/ Answers(r, entry) /\ fetcher' = fetcher /\ Deliver("hit", r, entry.v, entry.for, version)
      \/ /\ delivered' = NoDelivery
         /\ fetcher' = [fetcher EXCEPT ![d] = [at |-> "sent", r |-> r, stored |-> entry, since |-> version,
              etag |-> IF r.mode \in {"default", "no-cache"} /\ entry # NothingStored /\ entry.head.etag THEN entry.v ELSE 0]]
    BY DEF BeginFetch
<1> QED BY <1>4, <1>5, <1>6, <1>7

LEMMA ServeKeeps ==
    ASSUME CacheInv, NEW d \in Fetchers, NEW head \in Heads, Serve(d, head)
    PROVE  CacheInv'
<1> DEFINE f == fetcher[d]
           status == IF f.etag = version THEN 304 ELSE 200
           g == [at |-> "served", r |-> f.r, stored |-> f.stored, since |-> f.since,
                 status |-> status, v |-> version, head |-> head]
<1>1. UNCHANGED <<store, version, monotonic>> /\ delivered' = NoDelivery /\ f.at = "sent"
    BY DEF Serve
<1>2. fetcher' = [fetcher EXCEPT ![d] = g]
    BY DEF Serve
<1>3. ReadOk(f) /\ (f.etag # 0 => f.stored # NothingStored /\ f.etag = f.stored.v)
    BY <1>1 DEF CacheInv, DialsInv, DialOk, IdleFetcher
<1>4. version \in Nat \ {0}
    BY DEF CacheInv, ClockInv
<1>5. status = 304 => f.stored # NothingStored /\ f.stored.v = version
    BY <1>3, <1>4
<1>6. /\ g.at = "served" /\ g.r = f.r /\ g.stored = f.stored /\ g.since = f.since /\ g.status = status
      /\ g.v = version /\ g.head = head
    OBVIOUS
<1> HIDE DEF g, f, status
<1>7. ReadOk(g) /\ g.since <= version
    BY <1>3, <1>6 DEF ReadOk
<1>8. DialOk(g)
    BY <1>4, <1>5, <1>6, <1>7 DEF DialOk
<1>9. DialsInv'
    BY <1>1, <1>2, <1>8, DialKeeps
<1> QED BY <1>1, <1>9, LaterOk, NothingDelivered DEF CacheInv, ClockInv

LEMMA FailFetchKeeps ==
    ASSUME CacheInv, NEW d \in Fetchers, FailFetch(d)
    PROVE  CacheInv'
<1>1. UNCHANGED <<store, version, monotonic>> /\ delivered' = NoDelivery /\ fetcher' = [fetcher EXCEPT ![d] = IdleFetcher]
    BY DEF FailFetch
<1>2. DialsInv'
    BY <1>1, DialKeeps DEF DialOk
<1> QED BY <1>1, <1>2, LaterOk, NothingDelivered DEF CacheInv, ClockInv

(* The answer of a dial, as the server made it. *)
LEMMA ServedOk ==
    ASSUME CacheInv, NEW d \in Fetchers, fetcher[d].at = "served"
    PROVE  /\ ReadOk(fetcher[d]) /\ fetcher[d].v \in Nat \ {0}
           /\ fetcher[d].since <= fetcher[d].v /\ fetcher[d].v <= version /\ fetcher[d].head \in Heads
           /\ fetcher[d].status = 304 => fetcher[d].stored # NothingStored /\ fetcher[d].stored.v = fetcher[d].v
BY DEF CacheInv, DialsInv, DialOk, IdleFetcher

LEMMA NotModifiedKeeps ==
    ASSUME CacheInv, NEW d \in Fetchers, NotModified(d)
    PROVE  CacheInv'
<1> DEFINE f == fetcher[d]
<1>1. /\ f.at = "served" /\ f.status = 304 /\ f.stored # NothingStored
      /\ Remember(f.r, f.stored.v, f.stored.for, f.head)
      /\ Deliver("merged", f.r, f.stored.v, f.stored.for, f.since)
      /\ fetcher' = [fetcher EXCEPT ![d] = IdleFetcher] /\ UNCHANGED <<version, monotonic>>
    BY DEF NotModified, Merged
<1>2. /\ ReadOk(f) /\ f.since <= f.v /\ f.v <= version /\ f.head \in Heads /\ f.stored.v = f.v /\ f.v \in Nat \ {0}
    BY <1>1, ServedOk
<1> HIDE DEF f
<1>3. f.r \in PageRequests /\ EntryOk(f.stored) /\ VaryMatches(f.stored, f.r)
    BY <1>1, <1>2 DEF ReadOk
<1>4. AllVary => f.stored.for = f.r.hdr
    BY <1>3, MadeForRequest
<1>5. StoreInv'
    BY <1>1, <1>2, <1>3, <1>4, RememberKeeps
<1>6. DialsInv'
  <2>1. DialOk(IdleFetcher)
      BY DEF DialOk
  <2>2. fetcher' = [fetcher EXCEPT ![d] = IdleFetcher] /\ version' = version /\ monotonic' = monotonic
      BY <1>1
  <2> QED BY <2>1, <2>2, DialKeeps
<1>7. /\ delivered'.how = "merged" /\ delivered'.r = f.r /\ delivered'.v = f.v
      /\ delivered'.for = f.stored.for /\ delivered'.since = f.since
    BY <1>1, <1>2 DEF Deliver
<1>8. RevalidatedIsCurrent'
    BY <1>2, <1>7 DEF RevalidatedIsCurrent, ReadOk
<1>9. HitsAreAllowed'
    BY <1>4, <1>7 DEF HitsAreAllowed, AllVary
<1> QED BY <1>1, <1>5, <1>6, <1>8, <1>9 DEF CacheInv, ClockInv

LEMMA CompleteKeeps ==
    ASSUME CacheInv, NEW d \in Fetchers, Complete(d)
    PROVE  CacheInv'
<1> DEFINE f == fetcher[d]
<1>1. /\ f.at = "served" /\ fetcher' = [fetcher EXCEPT ![d] = IdleFetcher] /\ UNCHANGED <<version, monotonic>>
      /\ \/ Remember(f.r, f.v, f.r.hdr, f.head) /\ Deliver("network", f.r, f.v, f.r.hdr, f.since)
         \/ store' = store /\ delivered' = NoDelivery
    BY DEF Complete
<1>2. /\ ReadOk(f) /\ f.since <= f.v /\ f.v <= version /\ f.head \in Heads /\ f.v \in Nat \ {0}
    BY <1>1, ServedOk
<1> HIDE DEF f
<1>3. DialsInv'
    BY <1>1, DialKeeps DEF DialOk
<1>4. CASE Remember(f.r, f.v, f.r.hdr, f.head) /\ Deliver("network", f.r, f.v, f.r.hdr, f.since)
  <2>1. StoreInv'
      BY <1>1, <1>2, <1>4, RememberKeeps DEF ReadOk
  <2>2. /\ delivered'.how = "network" /\ delivered'.r = f.r /\ delivered'.v = f.v
        /\ delivered'.for = f.r.hdr /\ delivered'.since = f.since
      BY <1>4 DEF Deliver
  <2>3. RevalidatedIsCurrent'
      BY <1>2, <2>2 DEF RevalidatedIsCurrent, ReadOk
  <2>4. HitsAreAllowed'
      BY <2>2 DEF HitsAreAllowed
  <2> QED BY <1>1, <1>3, <2>1, <2>3, <2>4 DEF CacheInv, ClockInv
<1>5. CASE store' = store /\ delivered' = NoDelivery
    BY <1>1, <1>3, <1>5, LaterOk, NothingDelivered DEF CacheInv, ClockInv
<1> QED BY <1>1, <1>4, <1>5

LEMMA CacheStep == CacheInv /\ [CacheNext]_cacheVars => CacheInv'
<1> SUFFICES ASSUME CacheInv, [CacheNext]_cacheVars PROVE CacheInv'
    OBVIOUS
<1>1. CASE Publish \/ Second
  <2>1. /\ version' \in Nat \ {0} /\ version' >= version /\ monotonic' \in Nat /\ monotonic' >= monotonic
        /\ UNCHANGED <<store, fetcher>> /\ delivered' = NoDelivery
      BY <1>1 DEF Publish, Second, CacheInv, ClockInv
  <2>2. StoreInv' /\ \A f : DialOk(f) => DialOk(f)'
      BY <2>1, LaterOk
  <2> QED BY <2>1, <2>2, NothingDelivered DEF CacheInv, ClockInv, DialsInv
<1>2. CASE UNCHANGED cacheVars
  <2>1. StoreInv' /\ \A f : DialOk(f) => DialOk(f)'
      BY <1>2, LaterOk DEF cacheVars, CacheInv, ClockInv
  <2> QED BY <1>2, <2>1 DEF cacheVars, CacheInv, ClockInv, DialsInv, RevalidatedIsCurrent, HitsAreAllowed
<1> QED BY <1>1, <1>2, BeginFetchKeeps, ServeKeeps, FailFetchKeeps, NotModifiedKeeps, CompleteKeeps
    DEF CacheNext

LEMMA CacheInitial == CacheInit => CacheInv
<1> SUFFICES ASSUME CacheInit PROVE CacheInv
    OBVIOUS
<1>1. Filled(store) = {}
    BY DEF CacheInit, Filled
<1>2. StoreInv
  <2>1. IsFiniteSet(Filled(store)) /\ Cardinality(Filled(store)) = 0
      BY <1>1, FS_EmptySet
  <2>2. MaxEntries \in Nat
      BY CacheAssumption DEF CacheAssumption
  <2>3. Cardinality(Filled(store)) <= MaxEntries
      BY <2>1, <2>2
  <2> QED BY <2>1, <2>3 DEF CacheInit, StoreInv
<1> QED BY <1>2 DEF CacheInit, CacheInv, ClockInv, DialsInv, DialOk, RevalidatedIsCurrent, HitsAreAllowed, NoDelivery

(* The invariant of the cache: for every set of keys, requests and          *)
(* response heads, every number of dials and every limit.                   *)
THEOREM CacheInvariant == CacheSpec => []CacheInv
BY CacheInitial, CacheStep, PTL DEF CacheSpec

(* A fetch that may not be answered from the cache alone resolves with      *)
(* content the server had during that fetch, however dials overtake one     *)
(* another and replace what the others read (merge_not_modified).           *)
THEOREM CacheRevalidates == CacheSpec => []RevalidatedIsCurrent
BY CacheInvariant, PTL DEF CacheInv

(* Only the modes that ask for it are answered without validation, and a    *)
(* stored body goes to requests that agree on the header the responses vary *)
(* by (cached_response, vary_matches).                                      *)
THEOREM CacheHitsAllowed == CacheSpec => []HitsAreAllowed
BY CacheInvariant, PTL DEF CacheInv



(***************************************************************************)
(* A CDP connection.                                                        *)
(***************************************************************************)

SubRecord == [tab : Targets, s : Requesters, at : Nat]
CdpEvent == [tab : Targets, s : Requesters, i : Nat]
Report == [tab : Targets, i : Nat, s : Requesters, loader : Nat]
CdpCommand == [kind : {"none", "closed"}] \cup [kind : {"create", "navigate", "await"}, tab : Targets, s : Requesters]

(* The types of the connection, field by field. *)
CdpShape ==
    /\ openTabs \subseteq born /\ born \subseteq Targets
    /\ log \in [Targets -> Seq({"navigated", "load"})]
    /\ socketTab \in Targets \cup {NoTarget}
    /\ sessions \in [Ids -> Targets \cup {NoTarget, BrowserTarget}]
    /\ nextSession \in 1..(MaxSessions + 1)
    /\ subs \subseteq SubRecord
    /\ inbox \in Seq(CdpEvent) /\ Len(inbox) <= InboxSize
    /\ loaderIds \in [Targets -> Nat] /\ current \in [Targets -> Nat] /\ nextLoader \in Nat \ {0}
    /\ autoAttach \in BOOLEAN
    /\ command \in CdpCommand
    /\ heard \in [Requesters -> Nat]
    /\ told \subseteq Report
    /\ detached \subseteq Ids /\ failed \subseteq born

(* Session ids that were not handed out yet are nowhere, a session drives a *)
(* tab that was born, and so is the tab a createTarget waits for.           *)
SessionInv ==
    /\ \A i \in Ids : i >= nextSession => sessions[i] = NoTarget /\ heard[i] = 0 /\ i \notin detached
    /\ \A j \in DOMAIN inbox : inbox[j].s < nextSession
    /\ \A i \in Ids : sessions[i] \in Targets => sessions[i] \in born
    /\ command.kind = "create" => command.tab \in born

(* A loader id that waits for its commit was reported for none, and no two  *)
(* tabs wait with the same one.                                             *)
LoaderInv ==
    /\ \A t \in Targets : loaderIds[t] < nextLoader /\ current[t] < nextLoader
    /\ \A r \in told : r.loader < nextLoader
    /\ \A t \in Targets : loaderIds[t] # 0 => \A r \in told : r.loader # loaderIds[t]
    /\ \A t, o \in Targets : loaderIds[t] # 0 /\ loaderIds[t] = loaderIds[o] => t = o

(* What a subscription has forwarded is in its tab's log.                   *)
SubsInv == SubscriptionsOwned /\ \A u \in subs : u.at <= Len(log[u.tab])

(* The events of a session wait in order, all of them newer than what it    *)
(* was sent and none newer than its subscription, or the log of its tab.    *)
(* So a subscription made while older events wait starts after them.        *)
HeardInv ==
    /\ \A j \in DOMAIN inbox : heard[inbox[j].s] < inbox[j].i
    /\ \A j, k \in DOMAIN inbox : j < k /\ inbox[j].s = inbox[k].s => inbox[j].i < inbox[k].i
    /\ \A u \in subs : heard[u.s] <= u.at /\ \A j \in DOMAIN inbox : inbox[j].s = u.s => inbox[j].i <= u.at
    /\ \A s \in Requesters : TargetOf(s) \in Targets =>
          /\ heard[s] <= Len(log[TargetOf(s)])
          /\ \A j \in DOMAIN inbox : inbox[j].s = s => inbox[j].i <= Len(log[TargetOf(s)])

CdpInv ==
    /\ CdpShape /\ SessionInv /\ LoaderInv /\ SubsInv /\ HeardInv
    /\ LoaderNamesOneDocument /\ DetachedIsDead /\ FailedCreateClosed

-----------------------------------------------------------------------------
(* New sessions: the ids from nextSession on become sessions of open tabs   *)
(* or of the browser, the others stay what they are.                        *)
SessionsGrow ==
    /\ nextSession' \in 1..(MaxSessions + 1) /\ nextSession' >= nextSession
    /\ sessions' \in [Ids -> Targets \cup {NoTarget, BrowserTarget}]
    /\ \A i \in Ids : i < nextSession \/ i >= nextSession' => sessions'[i] = sessions[i]
    /\ \A i \in Ids : i >= nextSession /\ i < nextSession' => sessions'[i] \in openTabs \cup {BrowserTarget}

(* One new session. *)
LEMMA NewSessionGrows ==
    ASSUME CdpShape, NEW t \in openTabs \cup {BrowserTarget}, NewSession(t)
    PROVE  SessionsGrow
BY CdpAssumption DEF CdpShape, NewSession, SessionsGrow, Ids

(* A session for every tab of a list. *)
LEMMA AutoAttachGrows ==
    ASSUME CdpShape, NEW s, NEW on \in BOOLEAN, SetAutoAttach(s, on)
    PROVE  SessionsGrow
<1>1. PICK list \in IF on THEN SetToSeqs(openTabs) ELSE {<<>>} :
         /\ nextSession + Len(list) <= MaxSessions + 1
         /\ nextSession' = nextSession + Len(list)
         /\ sessions' = [i \in Ids |-> IF i >= nextSession /\ i < nextSession + Len(list) THEN list[i + 1 - nextSession] ELSE sessions[i]]
    BY DEF SetAutoAttach
<1>2. IsFiniteSet(openTabs)
    BY CdpAssumption, FS_Subset DEF CdpAssumption, CdpShape
<1>3. Cardinality(openTabs) \in Nat
    BY <1>2, FS_CardinalityType
<1>4. list \in Seq(openTabs)
  <2>1. CASE on
    <3>1. list \in [1..Cardinality(openTabs) -> openTabs]
      BY <1>1, <2>1 DEF SetToSeqs
    <3> QED BY <3>1, <1>3
  <2>2. CASE ~on
    BY <1>1, <2>2
  <2> QED BY <2>1, <2>2
<1>5. Len(list) \in Nat /\ \A j \in 1..Len(list) : list[j] \in openTabs
    BY <1>4
<1>6. nextSession' \in 1..(MaxSessions + 1) /\ nextSession' >= nextSession
    BY <1>1, <1>5, CdpAssumption DEF CdpAssumption, CdpShape
<1>7. ASSUME NEW i \in Ids PROVE
         /\ i < nextSession \/ i >= nextSession' => sessions'[i] = sessions[i]
         /\ i >= nextSession /\ i < nextSession' => sessions'[i] \in openTabs
  <2>1. i \in Nat /\ nextSession \in Nat
    BY CdpAssumption DEF CdpAssumption, Ids, CdpShape
  <2>2. i >= nextSession /\ i < nextSession + Len(list) => i + 1 - nextSession \in 1..Len(list)
    BY <2>1, <1>5
  <2> QED BY <1>1, <1>5, <2>1, <2>2
<1>8. sessions' \in [Ids -> Targets \cup {NoTarget, BrowserTarget}]
  <2>1. sessions' = [i \in Ids |-> sessions'[i]]
    BY <1>1
  <2>2. ASSUME NEW i \in Ids PROVE sessions'[i] \in Targets \cup {NoTarget, BrowserTarget}
    <3>1. i \in Nat /\ nextSession \in Nat /\ nextSession' \in Nat
      BY <1>6, CdpAssumption DEF CdpAssumption, Ids, CdpShape
    <3>2. CASE i < nextSession \/ i >= nextSession'
      BY <3>2, <1>7 DEF CdpShape
    <3>3. CASE i >= nextSession /\ i < nextSession'
      BY <3>3, <1>7 DEF CdpShape
    <3> QED BY <3>1, <3>2, <3>3
  <2> QED BY <2>1, <2>2
<1> QED BY <1>6, <1>7, <1>8 DEF SessionsGrow

(* The sessions of a client's command and of a createTarget. *)
LEMMA AttachGrows ==
    ASSUME CdpShape, NEW s, NEW t, Attach(s, t)
    PROVE  SessionsGrow
BY NewSessionGrows DEF Attach

LEMMA FinishCreateGrows ==
    ASSUME CdpShape, NEW ok \in BOOLEAN, FinishCreate(ok)
    PROVE  SessionsGrow
<1>1. CASE CreateAttached(ok)
    BY <1>1, NewSessionGrows DEF FinishCreate, CreateAttached
<1>2. CASE ~CreateAttached(ok)
  <2>1. sessions' = sessions /\ nextSession' = nextSession
    BY <1>2 DEF FinishCreate
  <2> QED BY <2>1, CdpAssumption DEF CdpAssumption, SessionsGrow, CdpShape, Ids
<1> QED BY <1>1, <1>2

(* An event enters the inbox behind the others. *)
LEMMA InboxSent ==
    ASSUME NEW q \in Seq(CdpEvent), NEW e \in CdpEvent
    PROVE  /\ Append(q, e) \in Seq(CdpEvent) /\ Len(Append(q, e)) = Len(q) + 1
           /\ DOMAIN Append(q, e) = DOMAIN q \cup {Len(q) + 1}
           /\ \A j \in DOMAIN q : j < Len(q) + 1 /\ Append(q, e)[j] = q[j]
           /\ Append(q, e)[Len(q) + 1] = e
OBVIOUS

(* The first one is taken. *)
LEMMA InboxTaken ==
    ASSUME NEW q \in Seq(CdpEvent), q # <<>>
    PROVE  /\ Tail(q) \in Seq(CdpEvent) /\ Len(Tail(q)) = Len(q) - 1
           /\ Head(q) \in CdpEvent /\ Head(q) = q[1] /\ 1 \in DOMAIN q
           /\ \A j \in DOMAIN Tail(q) : j + 1 \in DOMAIN q /\ 1 < j + 1 /\ Tail(q)[j] = q[j + 1]
OBVIOUS

(* A tab's log grows by one event. *)
LEMMA LogGrows ==
    ASSUME CdpShape, NEW t \in Targets, NEW e \in {"navigated", "load"}, TabEvent(t, e)
    PROVE  /\ log' \in [Targets -> Seq({"navigated", "load"})]
           /\ \A o \in Targets : Len(log[o]) \in Nat /\ Len(log'[o]) \in Nat /\ Len(log'[o]) >= Len(log[o])
<1>1. log' = [log EXCEPT ![t] = Append(@, e)]
    BY DEF TabEvent
<1>2. Append(log[t], e) \in Seq({"navigated", "load"}) /\ Len(Append(log[t], e)) = Len(log[t]) + 1
    BY DEF CdpShape
<1>3. \A o \in Targets : log'[o] = IF o = t THEN Append(log[t], e) ELSE log[o]
    BY <1>1 DEF CdpShape
<1> QED BY <1>1, <1>2, <1>3 DEF CdpShape

(* A subscription moves on by one event. *)
LEMMA ForwardMoves ==
    ASSUME CdpShape, NEW u \in subs, Forward(u)
    PROVE  /\ u \in SubRecord /\ [tab |-> u.tab, s |-> u.s, at |-> u.at + 1] \in SubRecord
           /\ subs' = (subs \ {u}) \cup {[tab |-> u.tab, s |-> u.s, at |-> u.at + 1]}
           /\ [tab |-> u.tab, s |-> u.s, i |-> u.at + 1] \in CdpEvent
<1>1. u \in SubRecord
    BY DEF CdpShape
<1>2. [u EXCEPT !.at = @ + 1] = [tab |-> u.tab, s |-> u.s, at |-> u.at + 1]
    BY <1>1 DEF SubRecord
<1> QED BY <1>1, <1>2 DEF Forward, SubRecord, CdpEvent

(* The fields of what waits, and of the subscriptions. *)
LEMMA EventTyped ==
    ASSUME CdpShape, NEW j \in DOMAIN inbox
    PROVE  /\ j \in Nat /\ inbox[j] \in CdpEvent
           /\ inbox[j].tab \in Targets /\ inbox[j].s \in Requesters /\ inbox[j].i \in Nat
           /\ inbox[j].s \in Nat
<1>1. j \in Nat /\ inbox[j] \in CdpEvent
    BY DEF CdpShape
<1> QED BY <1>1, CdpAssumption DEF CdpEvent, Requesters, Direct, Ids

LEMMA SubTyped ==
    ASSUME CdpShape, NEW v \in subs
    PROVE  /\ v.tab \in Targets /\ v.s \in Requesters /\ v.s \in Nat /\ v.at \in Nat
           /\ Len(log[v.tab]) \in Nat
<1>1. v \in SubRecord
    BY DEF CdpShape
<1>2. v.tab \in Targets /\ v.s \in Requesters /\ v.at \in Nat
    BY <1>1 DEF SubRecord
<1> QED BY <1>2, CdpAssumption DEF CdpShape, Requesters, Direct, Ids

(* A commit takes the loader id that waits for it, or a new one. *)
LEMMA LoaderTaken ==
    ASSUME CdpShape, NEW t \in Targets
    PROVE  /\ LoaderFor(t).left = 0 /\ LoaderFor(t).id \in Nat /\ LoaderFor(t).next \in Nat \ {0}
           /\ \/ loaderIds[t] # 0 /\ LoaderFor(t).id = loaderIds[t] /\ LoaderFor(t).next = nextLoader
              \/ loaderIds[t] = 0 /\ LoaderFor(t).id = nextLoader /\ LoaderFor(t).next = nextLoader + 1
BY DEF LoaderFor, CdpShape

(* A subscription belongs to a session that was handed out. *)
LEMMA SubSession ==
    ASSUME CdpInv, NEW v \in subs
    PROVE  v.s < nextSession /\ (v.s = Direct \/ (v.s \in Ids /\ v.s # Direct))
<1>1. v.tab \in Targets /\ v.s \in Requesters /\ v.s \in Nat /\ v.tab = TargetOf(v.s)
    BY SubTyped DEF CdpInv, SubsInv, SubscriptionsOwned
<1>2. nextSession \in Nat \ {0} /\ NoTarget \notin Targets
    BY CdpAssumption DEF CdpAssumption, CdpInv, CdpShape
<1>3. CASE v.s = Direct
    BY <1>2, <1>3 DEF Direct
<1>4. CASE v.s \in Ids
  <2>1. v.s # Direct /\ v.tab = sessions[v.s]
    BY <1>1, <1>4 DEF Ids, Direct, TargetOf
  <2>2. v.s >= nextSession => sessions[v.s] = NoTarget
    BY <1>4 DEF CdpInv, SessionInv
  <2>3. v.s < nextSession
    BY <2>1, <2>2, <1>1, <1>2
  <2> QED BY <2>1, <2>3, <1>4
<1> QED BY <1>1, <1>3, <1>4 DEF Requesters

(* An id that was not handed out has no events, and no announcement. *)
LEMMA UnusedSession ==
    ASSUME CdpInv, NEW i \in Ids, i >= nextSession
    PROVE  i \in Nat /\ heard[i] = 0 /\ i \notin detached /\ \A j \in DOMAIN inbox : inbox[j].s # i
<1>1. i \in Nat /\ nextSession \in Nat
    BY CdpAssumption DEF Ids, CdpInv, CdpShape, CdpAssumption
<1>2. heard[i] = 0 /\ i \notin detached
    BY DEF CdpInv, SessionInv
<1>3. ASSUME NEW j \in DOMAIN inbox PROVE inbox[j].s # i
  <2>1. inbox[j].s \in Nat /\ inbox[j].s < nextSession
    BY EventTyped DEF CdpInv, SessionInv
  <2> QED BY <1>1, <2>1
<1> QED BY <1>1, <1>2, <1>3

(* The types are kept. *)
LEMMA CdpShapeStep == CdpInv /\ [CdpNext]_cdpVars => CdpShape'
<1> SUFFICES ASSUME CdpInv, [CdpNext]_cdpVars PROVE CdpShape'
    OBVIOUS
<1> USE CdpAssumption
<1>1. ASSUME NEW s \in Requesters, NEW t \in Targets \cup {BrowserTarget}, Attach(s, t) PROVE CdpShape'
  <2>1. SessionsGrow
      BY <1>1, AttachGrows DEF CdpInv
  <2> QED BY <1>1, <2>1 DEF CdpInv, CdpShape, CdpCommand, SessionsGrow, Attach, Command
<1>2. ASSUME NEW s \in Requesters, NEW x \in Ids, Detach(s, x) PROVE CdpShape'
    BY <1>2
       DEF CdpInv, CdpShape, CdpCommand, SubRecord, CdpEvent, Report, Requesters, Ids,
           SessionInv, SubsInv, Detach, Command, WithoutSession
<1>3. ASSUME NEW s \in Requesters, NEW on \in BOOLEAN, SetAutoAttach(s, on) PROVE CdpShape'
  <2>1. SessionsGrow
      BY <1>3, AutoAttachGrows DEF CdpInv
  <2> QED BY <1>3, <2>1 DEF CdpInv, CdpShape, CdpCommand, SessionsGrow, SetAutoAttach, Command
<1>4. ASSUME NEW s \in Requesters, NEW t \in Targets, CreateTarget(s, t) PROVE CdpShape'
    BY <1>4
       DEF CdpInv, CdpShape, CdpCommand, SubRecord, CdpEvent, Report, Requesters, Ids,
           SessionInv, SubsInv, CreateTarget, Command, connVars
<1>5. ASSUME NEW s \in Requesters, NEW t \in Targets, CloseTarget(s, t) PROVE CdpShape'
  <2>1. /\ sessions' \in [Ids -> Targets \cup {NoTarget, BrowserTarget}] /\ subs' \subseteq SubRecord
        /\ loaderIds' \in [Targets -> Nat] /\ socketTab' \in Targets \cup {NoTarget}
    <3>1. CASE t \in openTabs
      <4>1. sessions' \in [Ids -> Targets \cup {NoTarget, BrowserTarget}]
        BY <1>5, <3>1 DEF CloseTarget, CdpInv, CdpShape
      <4>2. subs' \subseteq SubRecord
        BY <1>5, <3>1 DEF CloseTarget, CdpInv, CdpShape
      <4>3. loaderIds' \in [Targets -> Nat] /\ socketTab' \in Targets \cup {NoTarget}
        BY <1>5, <3>1 DEF CloseTarget, CdpInv, CdpShape
      <4> QED BY <4>1, <4>2, <4>3
    <3>2. CASE t \notin openTabs
      BY <1>5, <3>2 DEF CloseTarget, CdpInv, CdpShape
    <3> QED BY <3>1, <3>2
  <2>2. detached' \subseteq Ids
      BY <1>5 DEF CloseTarget, SessionsOf, CdpInv, CdpShape
  <2> QED BY <1>5, <2>1, <2>2 DEF CloseTarget, CdpInv, CdpShape
<1>6. ASSUME NEW s \in Requesters, PageEnable(s) PROVE CdpShape'
  <2>1. TargetOf(s) \in Targets /\ Len(log[TargetOf(s)]) \in Nat
      BY <1>6 DEF PageEnable, OnPage, CdpInv, CdpShape
  <2>2. subs' \subseteq SubRecord
      BY <1>6, <2>1 DEF PageEnable, SubscribedAt, SubRecord, CdpInv, CdpShape
  <2> QED BY <1>6, <2>2 DEF PageEnable, CdpInv, CdpShape
<1>7. ASSUME NEW s \in Requesters, PageDisable(s) PROVE CdpShape'
    BY <1>7
       DEF CdpInv, CdpShape, CdpCommand, SubRecord, CdpEvent, Report, Requesters, Ids,
           SessionInv, SubsInv, PageDisable, Command, OnPage
<1>8. ASSUME NEW s \in Requesters, PageNavigate(s) PROVE CdpShape'
  <2>1. command' \in CdpCommand
      BY <1>8 DEF PageNavigate, OnPage, CdpCommand
  <2>2. loaderIds' \in [Targets -> Nat] /\ nextLoader' \in Nat \ {0}
      BY <1>8 DEF PageNavigate, CdpInv, CdpShape
  <2> QED BY <1>8, <2>1, <2>2 DEF PageNavigate, CdpInv, CdpShape
<1>9. ASSUME NEW s \in Requesters, Evaluate(s) PROVE CdpShape'
    BY <1>9
       DEF CdpInv, CdpShape, CdpCommand, SubRecord, CdpEvent, Report, Requesters, Ids,
           SessionInv, SubsInv, Evaluate, Command, OnPage, connVars
<1>10. ASSUME NEW s \in Requesters, CloseBrowser(s) PROVE CdpShape'
    BY <1>10
       DEF CdpInv, CdpShape, CdpCommand, SubRecord, CdpEvent, Report, Requesters, Ids,
           SessionInv, SubsInv, CloseBrowser, Command, ClosedSocket
<1>11. ASSUME NEW u \in subs, Forward(u) PROVE CdpShape'
  <2> DEFINE n == [tab |-> u.tab, s |-> u.s, at |-> u.at + 1]
             x == [tab |-> u.tab, s |-> u.s, i |-> u.at + 1]
  <2>0. n \in SubRecord /\ subs' = (subs \ {u}) \cup {n} /\ x \in CdpEvent
      BY <1>11, ForwardMoves DEF CdpInv
  <2>3. inbox' = Append(inbox, x) /\ Len(inbox) < InboxSize
      BY <1>11 DEF Forward
  <2> HIDE DEF n, x
  <2>1. subs' \subseteq SubRecord
      BY <2>0 DEF CdpInv, CdpShape
  <2>2. inbox' \in Seq(CdpEvent) /\ Len(inbox') <= InboxSize
      BY <2>0, <2>3, InboxSent DEF CdpInv, CdpShape, CdpAssumption
  <2> QED BY <1>11, <2>1, <2>2 DEF Forward, CdpInv, CdpShape
<1>12. CASE DeliverEvent
  <2> DEFINE e == Head(inbox)
  <2>1. e \in CdpEvent /\ Tail(inbox) \in Seq(CdpEvent) /\ Len(Tail(inbox)) = Len(inbox) - 1
      BY <1>12, InboxTaken DEF DeliverEvent, CdpInv, CdpShape
  <2>2. e.tab \in Targets /\ e.s \in Requesters /\ e.i \in Nat
      BY <2>1 DEF CdpEvent
  <2>3. inbox' \in Seq(CdpEvent) /\ Len(inbox') <= InboxSize
      BY <1>12, <2>1 DEF DeliverEvent, CdpInv, CdpShape, CdpAssumption
  <2>4. heard' \in [Requesters -> Nat]
      BY <1>12, <2>2 DEF DeliverEvent, CdpInv, CdpShape
  <2>5. loaderIds' \in [Targets -> Nat] /\ current' \in [Targets -> Nat] /\ nextLoader' \in Nat \ {0}
    <3>1. /\ LoaderFor(e.tab).left = 0 /\ LoaderFor(e.tab).id \in Nat /\ LoaderFor(e.tab).next \in Nat \ {0}
      BY <2>2, LoaderTaken DEF CdpInv
    <3>2. CASE log[e.tab][e.i] = "navigated"
      <4>1. /\ loaderIds' = [loaderIds EXCEPT ![e.tab] = LoaderFor(e.tab).left] /\ nextLoader' = LoaderFor(e.tab).next
            /\ current' = [current EXCEPT ![e.tab] = LoaderFor(e.tab).id]
        BY <1>12, <3>2 DEF DeliverEvent
      <4>2. loaderIds \in [Targets -> Nat] /\ current \in [Targets -> Nat]
        BY DEF CdpInv, CdpShape
      <4>3. loaderIds' \in [Targets -> Nat]
        BY <4>1, <4>2, <3>1, <2>2
      <4>4. current' \in [Targets -> Nat]
        BY <4>1, <4>2, <3>1, <2>2
      <4> QED BY <4>1, <4>3, <4>4, <3>1
    <3>3. CASE log[e.tab][e.i] # "navigated"
      BY <1>12, <3>3 DEF DeliverEvent, CdpInv, CdpShape
    <3> QED BY <3>2, <3>3
  <2>6. LoaderFor(e.tab).id \in Nat
      BY <2>2, LoaderTaken DEF CdpInv
  <2>7. told' \subseteq Report
    <3>1. [tab |-> e.tab, i |-> e.i, s |-> e.s, loader |-> LoaderFor(e.tab).id] \in Report
      BY <2>2, <2>6 DEF Report
    <3> QED BY <1>12, <3>1 DEF DeliverEvent, CdpInv, CdpShape
  <2> QED BY <1>12, <2>3, <2>4, <2>5, <2>7 DEF DeliverEvent, CdpInv, CdpShape
<1>13. CASE FinishWait
    BY <1>13
       DEF CdpInv, CdpShape, CdpCommand, SubRecord, CdpEvent, Report, Requesters, Ids,
           SessionInv, SubsInv, FinishWait, connVars, IdleCommand
<1>14. ASSUME NEW ok \in BOOLEAN, FinishCreate(ok) PROVE CdpShape'
  <2>1. SessionsGrow
      BY <1>14, FinishCreateGrows DEF CdpInv
  <2>2. openTabs' \subseteq born /\ UNCHANGED <<born, log, socketTab, subs, loaderIds, current, nextLoader, autoAttach, inbox, heard, told, detached>>
      BY <1>14 DEF FinishCreate, AfterFailedOpen, CdpInv, CdpShape
  <2>3. command' \in CdpCommand
      BY <1>14 DEF FinishCreate, IdleCommand, CdpCommand
  <2>4. failed' \subseteq born
      BY <1>14 DEF FinishCreate, CdpInv, CdpShape, SessionInv
  <2> QED BY <2>1, <2>2, <2>3, <2>4 DEF CdpInv, CdpShape, SessionsGrow
<1>15. ASSUME NEW t \in Targets, OthersClose(t) PROVE CdpShape'
    BY <1>15
       DEF CdpInv, CdpShape, CdpCommand, SubRecord, CdpEvent, Report, Requesters, Ids,
           SessionInv, SubsInv, OthersClose, connVars
<1>16. ASSUME NEW t \in Targets, NEW e \in {"navigated", "load"}, TabEvent(t, e) PROVE CdpShape'
    BY <1>16, LogGrows DEF TabEvent, connVars, CdpInv, CdpShape
<1>17. CASE UNCHANGED cdpVars
    BY <1>17
       DEF CdpInv, CdpShape, CdpCommand, SubRecord, CdpEvent, Report, Requesters, Ids,
           SessionInv, SubsInv, cdpVars, connVars
<1> QED BY <1>1, <1>2, <1>3, <1>4, <1>5, <1>6, <1>7, <1>8, <1>9, <1>10, <1>11, <1>12,
    <1>13, <1>14, <1>15, <1>16, <1>17 DEF CdpNext, SocketStep

(* Session ids are handed out once. *)
LEMMA SessionStep == CdpInv /\ [CdpNext]_cdpVars => SessionInv'
<1> SUFFICES ASSUME CdpInv, [CdpNext]_cdpVars PROVE SessionInv'
    OBVIOUS
<1> USE CdpAssumption
<1>1. ASSUME NEW s \in Requesters, NEW t \in Targets \cup {BrowserTarget}, Attach(s, t) PROVE SessionInv'
  <2>1. SessionsGrow
      BY <1>1, AttachGrows DEF CdpInv
  <2>2. UNCHANGED <<born, inbox, heard, detached>> /\ (command' = command \/ command' = IdleCommand)
      BY <1>1 DEF Attach
  <2>3. \A j \in DOMAIN inbox : inbox[j].s \in Nat
      BY EventTyped DEF CdpInv
  <2>4. \A i \in Ids : i \in Nat /\ (i >= nextSession' => i >= nextSession) /\ nextSession \in Nat /\ nextSession' \in Nat
      BY <2>1 DEF SessionsGrow, CdpInv, CdpShape, Ids, CdpAssumption
  <2>5. \A i \in Ids : i >= nextSession' => sessions'[i] = NoTarget /\ heard'[i] = 0 /\ i \notin detached'
      BY <2>1, <2>2, <2>4 DEF SessionsGrow, CdpInv, SessionInv
  <2>6. \A j \in DOMAIN inbox' : inbox'[j].s < nextSession'
      BY <2>1, <2>2, <2>3 DEF SessionsGrow, CdpInv, CdpShape, SessionInv
  <2>7. \A i \in Ids : sessions'[i] \in Targets => sessions'[i] \in born'
    <3>1. ASSUME NEW i \in Ids, sessions'[i] \in Targets PROVE sessions'[i] \in born
      <4>1. CASE i < nextSession \/ i >= nextSession'
        BY <2>1, <3>1, <4>1 DEF SessionsGrow, CdpInv, SessionInv
      <4>2. CASE i >= nextSession /\ i < nextSession'
        BY <2>1, <3>1, <4>2 DEF SessionsGrow, CdpInv, CdpShape, CdpAssumption
      <4> QED BY <2>4, <4>1, <4>2
    <3> QED BY <2>2, <3>1
  <2>8. command'.kind = "create" => command'.tab \in born'
      BY <2>2 DEF IdleCommand, CdpInv, SessionInv
  <2> QED BY <2>5, <2>6, <2>7, <2>8 DEF SessionInv
<1>2. ASSUME NEW s \in Requesters, NEW x \in Ids, Detach(s, x) PROVE SessionInv'
    BY <1>2
       DEF CdpInv, CdpShape, SessionInv, Ids, CdpEvent, SubRecord, TargetOf, SubsInv,
           SubscriptionsOwned, Requesters, Direct, Detach, Command, WithoutSession
<1>3. ASSUME NEW s \in Requesters, NEW on \in BOOLEAN, SetAutoAttach(s, on) PROVE SessionInv'
  <2>1. SessionsGrow
      BY <1>3, AutoAttachGrows DEF CdpInv
  <2>2. UNCHANGED <<born, inbox, heard, detached>> /\ (command' = command \/ command' = IdleCommand)
      BY <1>3 DEF SetAutoAttach
  <2>3. \A j \in DOMAIN inbox : inbox[j].s \in Nat
      BY EventTyped DEF CdpInv
  <2>4. \A i \in Ids : i \in Nat /\ (i >= nextSession' => i >= nextSession) /\ nextSession \in Nat /\ nextSession' \in Nat
      BY <2>1 DEF SessionsGrow, CdpInv, CdpShape, Ids, CdpAssumption
  <2>5. \A i \in Ids : i >= nextSession' => sessions'[i] = NoTarget /\ heard'[i] = 0 /\ i \notin detached'
      BY <2>1, <2>2, <2>4 DEF SessionsGrow, CdpInv, SessionInv
  <2>6. \A j \in DOMAIN inbox' : inbox'[j].s < nextSession'
      BY <2>1, <2>2, <2>3 DEF SessionsGrow, CdpInv, CdpShape, SessionInv
  <2>7. \A i \in Ids : sessions'[i] \in Targets => sessions'[i] \in born'
    <3>1. ASSUME NEW i \in Ids, sessions'[i] \in Targets PROVE sessions'[i] \in born
      <4>1. CASE i < nextSession \/ i >= nextSession'
        BY <2>1, <3>1, <4>1 DEF SessionsGrow, CdpInv, SessionInv
      <4>2. CASE i >= nextSession /\ i < nextSession'
        BY <2>1, <3>1, <4>2 DEF SessionsGrow, CdpInv, CdpShape, CdpAssumption
      <4> QED BY <2>4, <4>1, <4>2
    <3> QED BY <2>2, <3>1
  <2>8. command'.kind = "create" => command'.tab \in born'
      BY <2>2 DEF IdleCommand, CdpInv, SessionInv
  <2> QED BY <2>5, <2>6, <2>7, <2>8 DEF SessionInv
<1>4. ASSUME NEW s \in Requesters, NEW t \in Targets, CreateTarget(s, t) PROVE SessionInv'
    BY <1>4
       DEF CdpInv, CdpShape, SessionInv, Ids, CdpEvent, SubRecord, TargetOf, SubsInv,
           SubscriptionsOwned, Requesters, Direct, CreateTarget, Command, connVars
<1>5. ASSUME NEW s \in Requesters, NEW t \in Targets, CloseTarget(s, t) PROVE SessionInv'
  <2>1. /\ \A i \in Ids : sessions'[i] \in {sessions[i], NoTarget}
        /\ \A i \in detached' : i \in detached \/ sessions[i] = t
      BY <1>5 DEF CloseTarget, SessionsOf, CdpInv, CdpShape
  <2> QED BY <1>5, <2>1 DEF CloseTarget, Command, CdpInv, CdpShape, SessionInv
<1>6. ASSUME NEW s \in Requesters, PageEnable(s) PROVE SessionInv'
    BY <1>6
       DEF CdpInv, CdpShape, SessionInv, Ids, CdpEvent, SubRecord, TargetOf, SubsInv,
           SubscriptionsOwned, Requesters, Direct, PageEnable, Command, OnPage,
           SubscribedAt
<1>7. ASSUME NEW s \in Requesters, PageDisable(s) PROVE SessionInv'
    BY <1>7
       DEF CdpInv, CdpShape, SessionInv, Ids, CdpEvent, SubRecord, TargetOf, SubsInv,
           SubscriptionsOwned, Requesters, Direct, PageDisable, Command, OnPage
<1>8. ASSUME NEW s \in Requesters, PageNavigate(s) PROVE SessionInv'
    BY <1>8
       DEF CdpInv, CdpShape, SessionInv, Ids, CdpEvent, SubRecord, TargetOf, SubsInv,
           SubscriptionsOwned, Requesters, Direct, PageNavigate, Command, OnPage
<1>9. ASSUME NEW s \in Requesters, Evaluate(s) PROVE SessionInv'
    BY <1>9
       DEF CdpInv, CdpShape, SessionInv, Ids, CdpEvent, SubRecord, TargetOf, SubsInv,
           SubscriptionsOwned, Requesters, Direct, Evaluate, Command, OnPage, connVars
<1>10. ASSUME NEW s \in Requesters, CloseBrowser(s) PROVE SessionInv'
    BY <1>10
       DEF CdpInv, CdpShape, SessionInv, Ids, CdpEvent, SubRecord, TargetOf, SubsInv,
           SubscriptionsOwned, Requesters, Direct, CloseBrowser, Command, ClosedSocket
<1>11. ASSUME NEW u \in subs, Forward(u) PROVE SessionInv'
  <2>1. u.s < nextSession
    <3>1. u.tab \in Targets /\ u.s \in Requesters /\ u.s \in Nat /\ u.tab = TargetOf(u.s)
      BY SubTyped DEF CdpInv, SubsInv, SubscriptionsOwned
    <3> QED BY <3>1 DEF CdpInv, CdpShape, SessionInv, TargetOf, Requesters, Direct, Ids, CdpAssumption
  <2>2. \A j \in DOMAIN inbox' : inbox'[j].s < nextSession
      BY <1>11, <2>1, ForwardMoves, InboxSent DEF Forward, CdpInv, CdpShape, SessionInv
  <2> QED BY <1>11, <2>2 DEF Forward, CdpInv, CdpShape, SessionInv
<1>12. CASE DeliverEvent
  <2>1. \A j \in DOMAIN inbox' : inbox'[j].s < nextSession
      BY <1>12, InboxTaken DEF DeliverEvent, CdpInv, CdpShape, SessionInv
  <2>2. Head(inbox).s < nextSession /\ Head(inbox).s \in Requesters /\ Head(inbox).i \in Nat
      BY <1>12, InboxTaken DEF DeliverEvent, CdpInv, CdpShape, SessionInv, CdpEvent
  <2>3. \A i \in Ids : i >= nextSession => heard'[i] = 0
      BY <1>12, <2>2 DEF DeliverEvent, CdpInv, CdpShape, SessionInv, Requesters, Ids, Direct
  <2> QED BY <1>12, <2>1, <2>3 DEF DeliverEvent, CdpInv, CdpShape, SessionInv
<1>13. CASE FinishWait
    BY <1>13
       DEF CdpInv, CdpShape, SessionInv, Ids, CdpEvent, SubRecord, TargetOf, SubsInv,
           SubscriptionsOwned, Requesters, Direct, FinishWait, connVars, IdleCommand
<1>14. ASSUME NEW ok \in BOOLEAN, FinishCreate(ok) PROVE SessionInv'
  <2>1. SessionsGrow
      BY <1>14, FinishCreateGrows DEF CdpInv
  <2>2. UNCHANGED <<born, inbox, heard, detached>> /\ (command' = command \/ command' = IdleCommand)
      BY <1>14 DEF FinishCreate
  <2>3. \A j \in DOMAIN inbox : inbox[j].s \in Nat
      BY EventTyped DEF CdpInv
  <2>4. \A i \in Ids : i \in Nat /\ (i >= nextSession' => i >= nextSession) /\ nextSession \in Nat /\ nextSession' \in Nat
      BY <2>1 DEF SessionsGrow, CdpInv, CdpShape, Ids, CdpAssumption
  <2>5. \A i \in Ids : i >= nextSession' => sessions'[i] = NoTarget /\ heard'[i] = 0 /\ i \notin detached'
      BY <2>1, <2>2, <2>4 DEF SessionsGrow, CdpInv, SessionInv
  <2>6. \A j \in DOMAIN inbox' : inbox'[j].s < nextSession'
      BY <2>1, <2>2, <2>3 DEF SessionsGrow, CdpInv, CdpShape, SessionInv
  <2>7. \A i \in Ids : sessions'[i] \in Targets => sessions'[i] \in born'
    <3>1. ASSUME NEW i \in Ids, sessions'[i] \in Targets PROVE sessions'[i] \in born
      <4>1. CASE i < nextSession \/ i >= nextSession'
        BY <2>1, <3>1, <4>1 DEF SessionsGrow, CdpInv, SessionInv
      <4>2. CASE i >= nextSession /\ i < nextSession'
        BY <2>1, <3>1, <4>2 DEF SessionsGrow, CdpInv, CdpShape, CdpAssumption
      <4> QED BY <2>4, <4>1, <4>2
    <3> QED BY <2>2, <3>1
  <2>8. command'.kind = "create" => command'.tab \in born'
      BY <2>2 DEF IdleCommand, CdpInv, SessionInv
  <2> QED BY <2>5, <2>6, <2>7, <2>8 DEF SessionInv
<1>15. ASSUME NEW t \in Targets, OthersClose(t) PROVE SessionInv'
    BY <1>15
       DEF CdpInv, CdpShape, SessionInv, Ids, CdpEvent, SubRecord, TargetOf, SubsInv,
           SubscriptionsOwned, Requesters, Direct, OthersClose, connVars
<1>16. ASSUME NEW t \in Targets, NEW e \in {"navigated", "load"}, TabEvent(t, e) PROVE SessionInv'
    BY <1>16
       DEF CdpInv, CdpShape, SessionInv, Ids, CdpEvent, SubRecord, TargetOf, SubsInv,
           SubscriptionsOwned, Requesters, Direct, TabEvent, connVars
<1>17. CASE UNCHANGED cdpVars
    BY <1>17
       DEF CdpInv, CdpShape, SessionInv, Ids, CdpEvent, SubRecord, TargetOf, SubsInv,
           SubscriptionsOwned, Requesters, Direct, cdpVars, connVars
<1> QED BY <1>1, <1>2, <1>3, <1>4, <1>5, <1>6, <1>7, <1>8, <1>9, <1>10, <1>11, <1>12,
    <1>13, <1>14, <1>15, <1>16, <1>17 DEF CdpNext, SocketStep

(* The loader ids that wait stay apart from those that were reported. *)
LEMMA LoaderStep == CdpInv /\ [CdpNext]_cdpVars => LoaderInv'
<1> SUFFICES ASSUME CdpInv, [CdpNext]_cdpVars PROVE LoaderInv'
    OBVIOUS
<1> USE CdpAssumption
<1>1. ASSUME NEW s \in Requesters, NEW t \in Targets \cup {BrowserTarget}, Attach(s, t) PROVE LoaderInv'
    BY <1>1 DEF CdpInv, CdpShape, LoaderInv, Attach, Command, NewSession
<1>2. ASSUME NEW s \in Requesters, NEW x \in Ids, Detach(s, x) PROVE LoaderInv'
    BY <1>2 DEF CdpInv, CdpShape, LoaderInv, Detach, Command, WithoutSession
<1>3. ASSUME NEW s \in Requesters, NEW on \in BOOLEAN, SetAutoAttach(s, on) PROVE LoaderInv'
    BY <1>3 DEF CdpInv, CdpShape, LoaderInv, SetAutoAttach, Command
<1>4. ASSUME NEW s \in Requesters, NEW t \in Targets, CreateTarget(s, t) PROVE LoaderInv'
    BY <1>4 DEF CdpInv, CdpShape, LoaderInv, CreateTarget, Command, connVars
<1>5. ASSUME NEW s \in Requesters, NEW t \in Targets, CloseTarget(s, t) PROVE LoaderInv'
  <2>1. \A o \in Targets : loaderIds'[o] \in {loaderIds[o], 0}
      BY <1>5 DEF CloseTarget, CdpInv, CdpShape
  <2>2. UNCHANGED <<current, told, nextLoader>>
      BY <1>5 DEF CloseTarget
  <2>3. \A o \in Targets : loaderIds'[o] < nextLoader' /\ current'[o] < nextLoader'
    <3>1. \A o \in Targets : loaderIds[o] < nextLoader /\ current[o] < nextLoader /\ 0 < nextLoader
      BY DEF CdpInv, CdpShape, LoaderInv
    <3> QED BY <2>1, <2>2, <3>1
  <2>4. \A x \in told' : x.loader < nextLoader'
      BY <2>2 DEF CdpInv, LoaderInv
  <2>5. \A o \in Targets : loaderIds'[o] # 0 => \A x \in told' : x.loader # loaderIds'[o]
      BY <2>1, <2>2 DEF CdpInv, LoaderInv
  <2>6. \A p, o \in Targets : loaderIds'[p] # 0 /\ loaderIds'[p] = loaderIds'[o] => p = o
      BY <2>1 DEF CdpInv, LoaderInv
  <2> QED BY <2>3, <2>4, <2>5, <2>6 DEF LoaderInv
<1>6. ASSUME NEW s \in Requesters, PageEnable(s) PROVE LoaderInv'
    BY <1>6 DEF CdpInv, CdpShape, LoaderInv, PageEnable, Command, OnPage, SubscribedAt
<1>7. ASSUME NEW s \in Requesters, PageDisable(s) PROVE LoaderInv'
    BY <1>7 DEF CdpInv, CdpShape, LoaderInv, PageDisable, Command, OnPage
<1>8. ASSUME NEW s \in Requesters, PageNavigate(s) PROVE LoaderInv'
  <2>1. TargetOf(s) \in Targets
      BY <1>8 DEF PageNavigate, OnPage
  <2>2. /\ nextLoader' = nextLoader + 1 /\ told' = told /\ current' = current
        /\ loaderIds' = [loaderIds EXCEPT ![TargetOf(s)] = nextLoader]
      BY <1>8 DEF PageNavigate
  <2>3. \A x \in told : x.loader \in Nat
      BY DEF CdpInv, CdpShape, Report
  <2>4. \A o \in Targets : loaderIds'[o] = IF o = TargetOf(s) THEN nextLoader ELSE loaderIds[o]
      BY <2>1, <2>2 DEF CdpInv, CdpShape
  <2>5. \A o \in Targets : loaderIds[o] \in Nat /\ current[o] \in Nat /\ loaderIds[o] < nextLoader /\ current[o] < nextLoader
      BY DEF CdpInv, CdpShape, LoaderInv
  <2>6. nextLoader \in Nat
      BY DEF CdpInv, CdpShape
  <2>7. \A o \in Targets : loaderIds'[o] < nextLoader' /\ current'[o] < nextLoader'
      BY <2>2, <2>4, <2>5, <2>6
  <2>8. \A x \in told' : x.loader < nextLoader'
      BY <2>2, <2>3, <2>6 DEF CdpInv, LoaderInv
  <2>9. \A o \in Targets : loaderIds'[o] # 0 => \A x \in told' : x.loader # loaderIds'[o]
      BY <2>2, <2>3, <2>4, <2>6 DEF CdpInv, LoaderInv
  <2>10. \A p, o \in Targets : loaderIds'[p] # 0 /\ loaderIds'[p] = loaderIds'[o] => p = o
      BY <2>4, <2>5, <2>6 DEF CdpInv, LoaderInv
  <2> QED BY <2>7, <2>8, <2>9, <2>10 DEF LoaderInv
<1>9. ASSUME NEW s \in Requesters, Evaluate(s) PROVE LoaderInv'
    BY <1>9 DEF CdpInv, CdpShape, LoaderInv, Evaluate, Command, OnPage, connVars
<1>10. ASSUME NEW s \in Requesters, CloseBrowser(s) PROVE LoaderInv'
    BY <1>10 DEF CdpInv, CdpShape, LoaderInv, CloseBrowser, Command, ClosedSocket
<1>11. ASSUME NEW u \in subs, Forward(u) PROVE LoaderInv'
    BY <1>11 DEF CdpInv, CdpShape, LoaderInv, Forward
<1>12. CASE DeliverEvent
  <2> DEFINE e == Head(inbox)
             r == [tab |-> e.tab, i |-> e.i, s |-> e.s, loader |-> LoaderFor(e.tab).id]
  <2>1. e \in CdpEvent /\ e.tab \in Targets
      BY <1>12, InboxTaken DEF DeliverEvent, CdpInv, CdpShape, CdpEvent
  <2>2. CASE log[e.tab][e.i] # "navigated"
      BY <1>12, <2>2 DEF DeliverEvent, CdpInv, LoaderInv, LoaderNamesOneDocument
  <2>3. CASE log[e.tab][e.i] = "navigated"
    <3>1. /\ loaderIds' = [loaderIds EXCEPT ![e.tab] = 0] /\ current' = [current EXCEPT ![e.tab] = r.loader]
          /\ told' = told \cup {r}
          /\ \/ loaderIds[e.tab] # 0 /\ r.loader = loaderIds[e.tab] /\ nextLoader' = nextLoader
             \/ loaderIds[e.tab] = 0 /\ r.loader = nextLoader /\ nextLoader' = nextLoader + 1
      BY <1>12, <2>1, <2>3, LoaderTaken DEF DeliverEvent, CdpInv
    <3>2. \A x \in told : x.loader \in Nat
      BY DEF CdpInv, CdpShape, Report
    <3> HIDE DEF r
    <3>3. \A x \in told : x.loader # r.loader
      BY <3>1, <3>2, <2>1 DEF CdpInv, CdpShape, LoaderInv
    <3>4. r.loader < nextLoader' /\ \A o \in Targets : o # e.tab => loaderIds[o] = 0 \/ loaderIds[o] # r.loader
      BY <3>1, <2>1 DEF CdpInv, CdpShape, LoaderInv
    <3>5. \A o \in Targets : /\ loaderIds'[o] = IF o = e.tab THEN 0 ELSE loaderIds[o]
                           /\ current'[o] = IF o = e.tab THEN r.loader ELSE current[o]
      BY <3>1, <2>1 DEF CdpInv, CdpShape
    <3>6. /\ \A o \in Targets : loaderIds[o] \in Nat /\ current[o] \in Nat /\ loaderIds[o] < nextLoader /\ current[o] < nextLoader
          /\ nextLoader \in Nat \ {0} /\ nextLoader' \in Nat /\ nextLoader <= nextLoader'
      BY <3>1 DEF CdpInv, CdpShape, LoaderInv
    <3>7. \A o \in Targets : loaderIds'[o] < nextLoader' /\ current'[o] < nextLoader'
      BY <3>4, <3>5, <3>6
    <3>8. \A x \in told' : x.loader < nextLoader'
      BY <3>1, <3>2, <3>4, <3>6 DEF CdpInv, LoaderInv
    <3>9. \A o \in Targets : loaderIds'[o] # 0 => \A x \in told' : x.loader # loaderIds'[o]
      BY <3>1, <3>4, <3>5 DEF CdpInv, LoaderInv
    <3>10. \A p, o \in Targets : loaderIds'[p] # 0 /\ loaderIds'[p] = loaderIds'[o] => p = o
      BY <3>5 DEF CdpInv, LoaderInv
    <3> QED BY <3>7, <3>8, <3>9, <3>10 DEF LoaderInv
  <2> QED BY <2>2, <2>3
<1>13. CASE FinishWait
    BY <1>13 DEF CdpInv, CdpShape, LoaderInv, FinishWait, connVars, IdleCommand
<1>14. ASSUME NEW ok \in BOOLEAN, FinishCreate(ok) PROVE LoaderInv'
    BY <1>14
       DEF CdpInv, CdpShape, LoaderInv, FinishCreate, AfterFailedOpen, CreateAttached,
           NewSession, IdleCommand
<1>15. ASSUME NEW t \in Targets, OthersClose(t) PROVE LoaderInv'
    BY <1>15 DEF CdpInv, CdpShape, LoaderInv, OthersClose, connVars
<1>16. ASSUME NEW t \in Targets, NEW e \in {"navigated", "load"}, TabEvent(t, e) PROVE LoaderInv'
    BY <1>16 DEF CdpInv, CdpShape, LoaderInv, TabEvent, connVars
<1>17. CASE UNCHANGED cdpVars
    BY <1>17 DEF CdpInv, CdpShape, LoaderInv, cdpVars, connVars
<1> QED BY <1>1, <1>2, <1>3, <1>4, <1>5, <1>6, <1>7, <1>8, <1>9, <1>10, <1>11, <1>12,
    <1>13, <1>14, <1>15, <1>16, <1>17 DEF CdpNext, SocketStep

(* A commit is reported with an id no other commit has. *)
LEMMA OneDocumentStep == CdpInv /\ [CdpNext]_cdpVars => LoaderNamesOneDocument'
<1> SUFFICES ASSUME CdpInv, [CdpNext]_cdpVars PROVE LoaderNamesOneDocument'
    OBVIOUS
<1> USE CdpAssumption
<1>1. ASSUME NEW s \in Requesters, NEW t \in Targets \cup {BrowserTarget}, Attach(s, t) PROVE LoaderNamesOneDocument'
    BY <1>1 DEF CdpInv, CdpShape, LoaderNamesOneDocument, Attach, Command, NewSession
<1>2. ASSUME NEW s \in Requesters, NEW x \in Ids, Detach(s, x) PROVE LoaderNamesOneDocument'
    BY <1>2
       DEF CdpInv, CdpShape, LoaderNamesOneDocument, Detach, Command, WithoutSession
<1>3. ASSUME NEW s \in Requesters, NEW on \in BOOLEAN, SetAutoAttach(s, on) PROVE LoaderNamesOneDocument'
    BY <1>3 DEF CdpInv, CdpShape, LoaderNamesOneDocument, SetAutoAttach, Command
<1>4. ASSUME NEW s \in Requesters, NEW t \in Targets, CreateTarget(s, t) PROVE LoaderNamesOneDocument'
    BY <1>4
       DEF CdpInv, CdpShape, LoaderNamesOneDocument, CreateTarget, Command, connVars
<1>5. ASSUME NEW s \in Requesters, NEW t \in Targets, CloseTarget(s, t) PROVE LoaderNamesOneDocument'
    BY <1>5
       DEF CdpInv, CdpShape, LoaderNamesOneDocument, CloseTarget, Command, SessionsOf
<1>6. ASSUME NEW s \in Requesters, PageEnable(s) PROVE LoaderNamesOneDocument'
    BY <1>6
       DEF CdpInv, CdpShape, LoaderNamesOneDocument, PageEnable, Command, OnPage,
           SubscribedAt
<1>7. ASSUME NEW s \in Requesters, PageDisable(s) PROVE LoaderNamesOneDocument'
    BY <1>7 DEF CdpInv, CdpShape, LoaderNamesOneDocument, PageDisable, Command, OnPage
<1>8. ASSUME NEW s \in Requesters, PageNavigate(s) PROVE LoaderNamesOneDocument'
    BY <1>8 DEF CdpInv, CdpShape, LoaderNamesOneDocument, PageNavigate, Command, OnPage
<1>9. ASSUME NEW s \in Requesters, Evaluate(s) PROVE LoaderNamesOneDocument'
    BY <1>9
       DEF CdpInv, CdpShape, LoaderNamesOneDocument, Evaluate, Command, OnPage, connVars
<1>10. ASSUME NEW s \in Requesters, CloseBrowser(s) PROVE LoaderNamesOneDocument'
    BY <1>10
       DEF CdpInv, CdpShape, LoaderNamesOneDocument, CloseBrowser, Command, ClosedSocket
<1>11. ASSUME NEW u \in subs, Forward(u) PROVE LoaderNamesOneDocument'
    BY <1>11 DEF CdpInv, CdpShape, LoaderNamesOneDocument, Forward
<1>12. CASE DeliverEvent
  <2> DEFINE e == Head(inbox)
             r == [tab |-> e.tab, i |-> e.i, s |-> e.s, loader |-> LoaderFor(e.tab).id]
  <2>1. e \in CdpEvent /\ e.tab \in Targets
      BY <1>12, InboxTaken DEF DeliverEvent, CdpInv, CdpShape, CdpEvent
  <2>2. CASE log[e.tab][e.i] # "navigated"
      BY <1>12, <2>2 DEF DeliverEvent, CdpInv, LoaderInv, LoaderNamesOneDocument
  <2>3. CASE log[e.tab][e.i] = "navigated"
    <3>1. /\ loaderIds' = [loaderIds EXCEPT ![e.tab] = 0] /\ current' = [current EXCEPT ![e.tab] = r.loader]
          /\ told' = told \cup {r}
          /\ \/ loaderIds[e.tab] # 0 /\ r.loader = loaderIds[e.tab] /\ nextLoader' = nextLoader
             \/ loaderIds[e.tab] = 0 /\ r.loader = nextLoader /\ nextLoader' = nextLoader + 1
      BY <1>12, <2>1, <2>3, LoaderTaken DEF DeliverEvent, CdpInv
    <3>2. \A x \in told : x.loader \in Nat
      BY DEF CdpInv, CdpShape, Report
    <3> HIDE DEF r
    <3>3. \A x \in told : x.loader # r.loader
      BY <3>1, <3>2, <2>1 DEF CdpInv, CdpShape, LoaderInv
    <3> QED BY <3>1, <3>3 DEF CdpInv, LoaderNamesOneDocument
  <2> QED BY <2>2, <2>3
<1>13. CASE FinishWait
    BY <1>13
       DEF CdpInv, CdpShape, LoaderNamesOneDocument, FinishWait, connVars, IdleCommand
<1>14. ASSUME NEW ok \in BOOLEAN, FinishCreate(ok) PROVE LoaderNamesOneDocument'
    BY <1>14
       DEF CdpInv, CdpShape, LoaderNamesOneDocument, FinishCreate, AfterFailedOpen,
           CreateAttached, NewSession, IdleCommand
<1>15. ASSUME NEW t \in Targets, OthersClose(t) PROVE LoaderNamesOneDocument'
    BY <1>15 DEF CdpInv, CdpShape, LoaderNamesOneDocument, OthersClose, connVars
<1>16. ASSUME NEW t \in Targets, NEW e \in {"navigated", "load"}, TabEvent(t, e) PROVE LoaderNamesOneDocument'
    BY <1>16 DEF CdpInv, CdpShape, LoaderNamesOneDocument, TabEvent, connVars
<1>17. CASE UNCHANGED cdpVars
    BY <1>17 DEF CdpInv, CdpShape, LoaderNamesOneDocument, cdpVars, connVars
<1> QED BY <1>1, <1>2, <1>3, <1>4, <1>5, <1>6, <1>7, <1>8, <1>9, <1>10, <1>11, <1>12,
    <1>13, <1>14, <1>15, <1>16, <1>17 DEF CdpNext, SocketStep

(* Subscriptions follow their sessions. *)
LEMMA SubsStep == CdpInv /\ [CdpNext]_cdpVars => SubsInv'
<1> SUFFICES ASSUME CdpInv, [CdpNext]_cdpVars PROVE SubsInv'
    OBVIOUS
<1> USE CdpAssumption
<1>1. ASSUME NEW s \in Requesters, NEW t \in Targets \cup {BrowserTarget}, Attach(s, t) PROVE SubsInv'
  <2>1. SessionsGrow
      BY <1>1, AttachGrows DEF CdpInv
  <2>2. UNCHANGED <<subs, log, socketTab>>
      BY <1>1 DEF Attach
  <2>4. \A v \in subs : TargetOf(v.s)' = TargetOf(v.s)
      BY <2>1, <2>2, SubSession DEF SessionsGrow, TargetOf
  <2> QED BY <2>2, <2>4 DEF CdpInv, SubsInv, SubscriptionsOwned
<1>2. ASSUME NEW s \in Requesters, NEW x \in Ids, Detach(s, x) PROVE SubsInv'
    BY <1>2
       DEF CdpInv, CdpShape, SubsInv, SubscriptionsOwned, SessionInv, SubRecord,
           TargetOf, Requesters, Direct, Ids, Detach, Command, WithoutSession
<1>3. ASSUME NEW s \in Requesters, NEW on \in BOOLEAN, SetAutoAttach(s, on) PROVE SubsInv'
  <2>1. SessionsGrow
      BY <1>3, AutoAttachGrows DEF CdpInv
  <2>2. UNCHANGED <<subs, log, socketTab>>
      BY <1>3 DEF SetAutoAttach
  <2>4. \A v \in subs : TargetOf(v.s)' = TargetOf(v.s)
      BY <2>1, <2>2, SubSession DEF SessionsGrow, TargetOf
  <2> QED BY <2>2, <2>4 DEF CdpInv, SubsInv, SubscriptionsOwned
<1>4. ASSUME NEW s \in Requesters, NEW t \in Targets, CreateTarget(s, t) PROVE SubsInv'
    BY <1>4
       DEF CdpInv, CdpShape, SubsInv, SubscriptionsOwned, SessionInv, SubRecord,
           TargetOf, Requesters, Direct, Ids, CreateTarget, Command, connVars
<1>5. ASSUME NEW s \in Requesters, NEW t \in Targets, CloseTarget(s, t) PROVE SubsInv'
  <2>1. CASE t \in openTabs
    <3>1. \A v \in subs' : v \in subs /\ v.tab # t
      BY <1>5, <2>1 DEF CloseTarget
    <3>2. \A i \in Requesters : TargetOf(i) # t => TargetOf(i)' = TargetOf(i)
      BY <1>5, <2>1 DEF CloseTarget, TargetOf, Requesters, Direct, Ids, CdpInv, CdpShape
    <3>3. \A v \in subs : v.s \in Requesters /\ v.tab = TargetOf(v.s) /\ v.tab \in Targets
      BY DEF CdpInv, CdpShape, SubsInv, SubscriptionsOwned, SubRecord
    <3>4. \A v \in subs' : v.tab = TargetOf(v.s)'
      BY <3>1, <3>2, <3>3, <1>5, <2>1 DEF CloseTarget, TargetOf, CdpAssumption
    <3> QED BY <1>5, <3>1, <3>4 DEF CloseTarget, CdpInv, SubsInv, SubscriptionsOwned
  <2>2. CASE t \notin openTabs
      BY <1>5, <2>2 DEF CloseTarget, CdpInv, SubsInv, SubscriptionsOwned, TargetOf
  <2> QED BY <2>1, <2>2
<1>6. ASSUME NEW s \in Requesters, PageEnable(s) PROVE SubsInv'
  <2> DEFINE n == [tab |-> TargetOf(s), s |-> s, at |-> Len(log[TargetOf(s)])]
  <2>1. subs' = subs \/ (subs' = subs \cup {n} /\ ~ \E v \in subs : v.tab = TargetOf(s) /\ v.s = s)
      BY <1>6 DEF PageEnable, SubscribedAt
  <2>2. UNCHANGED <<log, socketTab, sessions>> /\ TargetOf(s) \in Targets
      BY <1>6 DEF PageEnable, OnPage
  <2>3. Len(log[TargetOf(s)]) \in Nat
      BY <2>2 DEF CdpInv, CdpShape
  <2>4. \A i : TargetOf(i)' = TargetOf(i)
      BY <2>2 DEF TargetOf
  <2>5. \A v \in subs' : v.tab = TargetOf(v.s)' /\ v.at <= Len(log'[v.tab])
      BY <2>1, <2>2, <2>3, <2>4 DEF CdpInv, SubsInv, SubscriptionsOwned
  <2>6. \A v, w \in subs' : v.tab = w.tab /\ v.s = w.s => v = w
      BY <2>1 DEF CdpInv, SubsInv, SubscriptionsOwned
  <2> QED BY <2>5, <2>6 DEF SubsInv, SubscriptionsOwned
<1>7. ASSUME NEW s \in Requesters, PageDisable(s) PROVE SubsInv'
    BY <1>7
       DEF CdpInv, CdpShape, SubsInv, SubscriptionsOwned, SessionInv, SubRecord,
           TargetOf, Requesters, Direct, Ids, PageDisable, Command, OnPage
<1>8. ASSUME NEW s \in Requesters, PageNavigate(s) PROVE SubsInv'
    BY <1>8
       DEF CdpInv, CdpShape, SubsInv, SubscriptionsOwned, SessionInv, SubRecord,
           TargetOf, Requesters, Direct, Ids, PageNavigate, Command, OnPage
<1>9. ASSUME NEW s \in Requesters, Evaluate(s) PROVE SubsInv'
    BY <1>9
       DEF CdpInv, CdpShape, SubsInv, SubscriptionsOwned, SessionInv, SubRecord,
           TargetOf, Requesters, Direct, Ids, Evaluate, Command, OnPage, connVars
<1>10. ASSUME NEW s \in Requesters, CloseBrowser(s) PROVE SubsInv'
    BY <1>10
       DEF CdpInv, CdpShape, SubsInv, SubscriptionsOwned, SessionInv, SubRecord,
           TargetOf, Requesters, Direct, Ids, CloseBrowser, Command, ClosedSocket
<1>11. ASSUME NEW u \in subs, Forward(u) PROVE SubsInv'
  <2> DEFINE n == [tab |-> u.tab, s |-> u.s, at |-> u.at + 1]
  <2>1. subs' = (subs \ {u}) \cup {n} /\ u \in SubRecord
      BY <1>11, ForwardMoves DEF CdpInv
  <2>2. UNCHANGED <<log, socketTab, sessions>> /\ u.at < Len(log[u.tab])
      BY <1>11 DEF Forward
  <2>3. u.at \in Nat /\ Len(log[u.tab]) \in Nat
      BY <2>1 DEF SubRecord, CdpInv, CdpShape
  <2>4. \A i : TargetOf(i)' = TargetOf(i)
      BY <2>2 DEF TargetOf
  <2>5. \A v \in subs' : v.tab = TargetOf(v.s)' /\ v.at <= Len(log'[v.tab])
      BY <2>1, <2>2, <2>3, <2>4 DEF CdpInv, SubsInv, SubscriptionsOwned
  <2>6. \A v, w \in subs' : v.tab = w.tab /\ v.s = w.s => v = w
      BY <2>1 DEF CdpInv, SubsInv, SubscriptionsOwned
  <2> QED BY <2>5, <2>6 DEF SubsInv, SubscriptionsOwned
<1>12. CASE DeliverEvent
    BY <1>12
       DEF CdpInv, CdpShape, SubsInv, SubscriptionsOwned, SessionInv, SubRecord,
           TargetOf, Requesters, Direct, Ids, DeliverEvent, LoaderFor
<1>13. CASE FinishWait
    BY <1>13
       DEF CdpInv, CdpShape, SubsInv, SubscriptionsOwned, SessionInv, SubRecord,
           TargetOf, Requesters, Direct, Ids, FinishWait, connVars, IdleCommand
<1>14. ASSUME NEW ok \in BOOLEAN, FinishCreate(ok) PROVE SubsInv'
  <2>1. SessionsGrow
      BY <1>14, FinishCreateGrows DEF CdpInv
  <2>2. UNCHANGED <<subs, log, socketTab>>
      BY <1>14 DEF FinishCreate
  <2>4. \A v \in subs : TargetOf(v.s)' = TargetOf(v.s)
      BY <2>1, <2>2, SubSession DEF SessionsGrow, TargetOf
  <2> QED BY <2>2, <2>4 DEF CdpInv, SubsInv, SubscriptionsOwned
<1>15. ASSUME NEW t \in Targets, OthersClose(t) PROVE SubsInv'
    BY <1>15
       DEF CdpInv, CdpShape, SubsInv, SubscriptionsOwned, SessionInv, SubRecord,
           TargetOf, Requesters, Direct, Ids, OthersClose, connVars
<1>16. ASSUME NEW t \in Targets, NEW e \in {"navigated", "load"}, TabEvent(t, e) PROVE SubsInv'
  <2>1. \A i : TargetOf(i)' = TargetOf(i)
      BY <1>16 DEF TabEvent, connVars, TargetOf
  <2>2. \A v \in subs : v.tab \in Targets /\ v.at \in Nat
      BY DEF CdpInv, CdpShape, SubRecord
  <2> QED BY <1>16, <2>1, <2>2, LogGrows DEF TabEvent, connVars, CdpInv, SubsInv, SubscriptionsOwned
<1>17. CASE UNCHANGED cdpVars
    BY <1>17
       DEF CdpInv, CdpShape, SubsInv, SubscriptionsOwned, SessionInv, SubRecord,
           TargetOf, Requesters, Direct, Ids, cdpVars, connVars
<1> QED BY <1>1, <1>2, <1>3, <1>4, <1>5, <1>6, <1>7, <1>8, <1>9, <1>10, <1>11, <1>12,
    <1>13, <1>14, <1>15, <1>16, <1>17 DEF CdpNext, SocketStep

(* What waits for a session is newer than what it was sent. *)
LEMMA HeardStep == CdpInv /\ [CdpNext]_cdpVars => HeardInv'
<1> SUFFICES ASSUME CdpInv, [CdpNext]_cdpVars PROVE HeardInv'
    OBVIOUS
<1> USE CdpAssumption
<1>1. ASSUME NEW s \in Requesters, NEW t \in Targets \cup {BrowserTarget}, Attach(s, t) PROVE HeardInv'
  <2>1. SessionsGrow
      BY <1>1, AttachGrows DEF CdpInv
  <2>2. UNCHANGED <<heard, inbox, subs, log, socketTab>>
      BY <1>1 DEF Attach
  <2>3. \A i \in Requesters : TargetOf(i)' = TargetOf(i) \/ (i \in Ids /\ i >= nextSession)
      BY <2>1, <2>2 DEF SessionsGrow, TargetOf, Requesters, Direct, Ids, CdpInv, CdpShape
  <2>4. \A i \in Requesters : (i \in Ids /\ i >= nextSession) =>
           heard[i] = 0 /\ \A j \in DOMAIN inbox : inbox[j].s # i
      BY UnusedSession
  <2>5. \A o \in Targets : Len(log[o]) \in Nat
      BY DEF CdpInv, CdpShape
  <2> QED BY <2>2, <2>3, <2>4, <2>5 DEF CdpInv, HeardInv
<1>2. ASSUME NEW s \in Requesters, NEW x \in Ids, Detach(s, x) PROVE HeardInv'
  <2>1. UNCHANGED <<heard, inbox, log>> /\ subs' \subseteq subs
      BY <1>2 DEF Detach, WithoutSession
  <2>2. \A i \in Requesters : TargetOf(i)' \in Targets => TargetOf(i)' = TargetOf(i)
      BY <1>2 DEF Detach, WithoutSession, TargetOf, Requesters, Direct, Ids, CdpInv, CdpShape, CdpAssumption
  <2> QED BY <2>1, <2>2 DEF CdpInv, HeardInv
<1>3. ASSUME NEW s \in Requesters, NEW on \in BOOLEAN, SetAutoAttach(s, on) PROVE HeardInv'
  <2>1. SessionsGrow
      BY <1>3, AutoAttachGrows DEF CdpInv
  <2>2. UNCHANGED <<heard, inbox, subs, log, socketTab>>
      BY <1>3 DEF SetAutoAttach
  <2>3. \A i \in Requesters : TargetOf(i)' = TargetOf(i) \/ (i \in Ids /\ i >= nextSession)
      BY <2>1, <2>2 DEF SessionsGrow, TargetOf, Requesters, Direct, Ids, CdpInv, CdpShape
  <2>4. \A i \in Requesters : (i \in Ids /\ i >= nextSession) =>
           heard[i] = 0 /\ \A j \in DOMAIN inbox : inbox[j].s # i
      BY UnusedSession
  <2>5. \A o \in Targets : Len(log[o]) \in Nat
      BY DEF CdpInv, CdpShape
  <2> QED BY <2>2, <2>3, <2>4, <2>5 DEF CdpInv, HeardInv
<1>4. ASSUME NEW s \in Requesters, NEW t \in Targets, CreateTarget(s, t) PROVE HeardInv'
    BY <1>4 DEF CdpInv, CdpShape, HeardInv, TargetOf, CreateTarget, Command, connVars
<1>5. ASSUME NEW s \in Requesters, NEW t \in Targets, CloseTarget(s, t) PROVE HeardInv'
  <2>1. UNCHANGED <<heard, inbox, log>> /\ subs' \subseteq subs
      BY <1>5 DEF CloseTarget
  <2>2. \A i \in Requesters : TargetOf(i)' \in Targets => TargetOf(i)' = TargetOf(i)
      BY <1>5 DEF CloseTarget, TargetOf, Requesters, Direct, Ids, CdpInv, CdpShape, CdpAssumption
  <2> QED BY <2>1, <2>2 DEF CdpInv, HeardInv
<1>6. ASSUME NEW s \in Requesters, PageEnable(s) PROVE HeardInv'
  <2> DEFINE n == [tab |-> TargetOf(s), s |-> s, at |-> Len(log[TargetOf(s)])]
  <2>1. subs' \subseteq subs \cup {n}
      BY <1>6 DEF PageEnable, SubscribedAt
  <2>2. UNCHANGED <<heard, inbox, log, socketTab, sessions>> /\ TargetOf(s) \in Targets
      BY <1>6 DEF PageEnable, OnPage
  <2>3. heard[s] <= n.at /\ \A j \in DOMAIN inbox : inbox[j].s = s => inbox[j].i <= n.at
      BY <2>2 DEF CdpInv, HeardInv
  <2>4. \A i : TargetOf(i)' = TargetOf(i)
      BY <2>2 DEF TargetOf
  <2> QED BY <2>1, <2>2, <2>3, <2>4 DEF CdpInv, HeardInv
<1>7. ASSUME NEW s \in Requesters, PageDisable(s) PROVE HeardInv'
    BY <1>7 DEF CdpInv, CdpShape, HeardInv, TargetOf, PageDisable, Command, OnPage
<1>8. ASSUME NEW s \in Requesters, PageNavigate(s) PROVE HeardInv'
    BY <1>8 DEF CdpInv, CdpShape, HeardInv, TargetOf, PageNavigate, Command, OnPage
<1>9. ASSUME NEW s \in Requesters, Evaluate(s) PROVE HeardInv'
    BY <1>9
       DEF CdpInv, CdpShape, HeardInv, TargetOf, Evaluate, Command, OnPage, connVars
<1>10. ASSUME NEW s \in Requesters, CloseBrowser(s) PROVE HeardInv'
  <2>1. UNCHANGED <<heard, inbox, log>> /\ subs' \subseteq subs
      BY <1>10 DEF CloseBrowser
  <2>2. \A i \in Requesters : TargetOf(i)' \in Targets => TargetOf(i)' = TargetOf(i)
      BY <1>10 DEF CloseBrowser, TargetOf, Requesters, Direct, Ids, CdpInv, CdpShape, CdpAssumption
  <2> QED BY <2>1, <2>2 DEF CdpInv, HeardInv
<1>11. ASSUME NEW u \in subs, Forward(u) PROVE HeardInv'
  <2> DEFINE n == [tab |-> u.tab, s |-> u.s, at |-> u.at + 1]
             x == [tab |-> u.tab, s |-> u.s, i |-> u.at + 1]
             l == Len(inbox) + 1
  <2>1. subs' = (subs \ {u}) \cup {n} /\ u \in SubRecord /\ x \in CdpEvent
      BY <1>11, ForwardMoves DEF CdpInv
  <2>2. UNCHANGED <<heard, log, socketTab, sessions>> /\ u.at < Len(log[u.tab])
      BY <1>11 DEF Forward
  <2>3. /\ DOMAIN inbox' = DOMAIN inbox \cup {l} /\ inbox'[l] = x
        /\ \A j \in DOMAIN inbox : j < l /\ inbox'[j] = inbox[j]
      BY <1>11, <2>1, InboxSent DEF Forward, CdpInv, CdpShape
  <2>4. u.at \in Nat /\ u.s \in Requesters /\ u.tab \in Targets /\ u.tab = TargetOf(u.s)
      BY <2>1 DEF SubRecord, CdpInv, SubsInv, SubscriptionsOwned
  <2>5. \A i : TargetOf(i)' = TargetOf(i)
      BY <2>2 DEF TargetOf
  <2>6. \A i \in Requesters : heard[i] \in Nat
      BY DEF CdpInv, CdpShape
  <2>7. \A j \in DOMAIN inbox : j \in Nat /\ inbox[j].i \in Nat /\ inbox[j].s \in Requesters
      BY EventTyped DEF CdpInv, CdpShape
  <2>8. heard[u.s] <= u.at /\ \A j \in DOMAIN inbox : inbox[j].s = u.s => inbox[j].i <= u.at
      BY DEF CdpInv, HeardInv
  <2>9. l \in Nat
      BY DEF CdpInv, CdpShape
  <2>10. \A j \in DOMAIN inbox' : heard'[inbox'[j].s] < inbox'[j].i
      BY <2>2, <2>3, <2>4, <2>6, <2>7, <2>8 DEF CdpInv, HeardInv
  <2>11. \A j, k \in DOMAIN inbox' : j < k /\ inbox'[j].s = inbox'[k].s => inbox'[j].i < inbox'[k].i
      BY <2>3, <2>4, <2>7, <2>8, <2>9 DEF CdpInv, HeardInv
  <2>12. \A v \in subs' : heard'[v.s] <= v.at /\ \A j \in DOMAIN inbox' : inbox'[j].s = v.s => inbox'[j].i <= v.at
    <3>1. \A v \in subs \ {u} : v.s # u.s
      BY DEF CdpInv, SubsInv, SubscriptionsOwned
    <3> QED BY <3>1, <2>1, <2>2, <2>3, <2>4, <2>6, <2>7, <2>8 DEF CdpInv, HeardInv
  <2>13. Len(log[u.tab]) \in Nat
      BY <2>4 DEF CdpInv, CdpShape
  <2>14. \A i \in Requesters : TargetOf(i)' \in Targets =>
           /\ heard'[i] <= Len(log'[TargetOf(i)'])
           /\ \A j \in DOMAIN inbox' : inbox'[j].s = i => inbox'[j].i <= Len(log'[TargetOf(i)'])
      BY <2>2, <2>3, <2>4, <2>5, <2>13 DEF CdpInv, HeardInv
  <2> QED BY <2>10, <2>11, <2>12, <2>14 DEF HeardInv
<1>12. CASE DeliverEvent
  <2> DEFINE e == Head(inbox)
  <2>1. /\ e = inbox[1] /\ 1 \in DOMAIN inbox /\ e \in CdpEvent /\ DOMAIN inbox' \subseteq Nat
        /\ \A j \in DOMAIN inbox' : j + 1 \in DOMAIN inbox /\ 1 < j + 1 /\ inbox'[j] = inbox[j + 1]
      BY <1>12, InboxTaken DEF DeliverEvent, CdpInv, CdpShape
  <2>2. UNCHANGED <<log, socketTab, sessions, subs>> /\ heard' = [heard EXCEPT ![e.s] = e.i]
      BY <1>12 DEF DeliverEvent
  <2>3. e.s \in Requesters /\ e.i \in Nat
      BY <2>1 DEF CdpEvent
  <2>4. \A i \in Requesters : heard'[i] = IF i = e.s THEN e.i ELSE heard[i]
      BY <2>2, <2>3 DEF CdpInv, CdpShape
  <2>5. \A i : TargetOf(i)' = TargetOf(i)
      BY <2>2 DEF TargetOf
  <2>6. \A j \in DOMAIN inbox : j \in Nat /\ inbox[j].s \in Requesters
      BY EventTyped DEF CdpInv, CdpShape
  <2>7. \A j \in DOMAIN inbox' : heard'[inbox'[j].s] < inbox'[j].i
      BY <2>1, <2>4, <2>6 DEF CdpInv, HeardInv
  <2>8. \A j, k \in DOMAIN inbox' : j < k /\ inbox'[j].s = inbox'[k].s => inbox'[j].i < inbox'[k].i
      BY <2>1 DEF CdpInv, HeardInv
  <2>9. \A v \in subs' : heard'[v.s] <= v.at /\ \A j \in DOMAIN inbox' : inbox'[j].s = v.s => inbox'[j].i <= v.at
    <3>1. \A v \in subs : v.s \in Requesters
      BY DEF CdpInv, CdpShape, SubRecord
    <3> QED BY <3>1, <2>1, <2>2, <2>4 DEF CdpInv, HeardInv
  <2>10. \A i \in Requesters : TargetOf(i)' \in Targets =>
           /\ heard'[i] <= Len(log'[TargetOf(i)'])
           /\ \A j \in DOMAIN inbox' : inbox'[j].s = i => inbox'[j].i <= Len(log'[TargetOf(i)'])
      BY <2>1, <2>2, <2>4, <2>5 DEF CdpInv, HeardInv
  <2> QED BY <2>7, <2>8, <2>9, <2>10 DEF HeardInv
<1>13. CASE FinishWait
    BY <1>13 DEF CdpInv, CdpShape, HeardInv, TargetOf, FinishWait, connVars, IdleCommand
<1>14. ASSUME NEW ok \in BOOLEAN, FinishCreate(ok) PROVE HeardInv'
  <2>1. SessionsGrow
      BY <1>14, FinishCreateGrows DEF CdpInv
  <2>2. UNCHANGED <<heard, inbox, subs, log, socketTab>>
      BY <1>14 DEF FinishCreate
  <2>3. \A i \in Requesters : TargetOf(i)' = TargetOf(i) \/ (i \in Ids /\ i >= nextSession)
      BY <2>1, <2>2 DEF SessionsGrow, TargetOf, Requesters, Direct, Ids, CdpInv, CdpShape
  <2>4. \A i \in Requesters : (i \in Ids /\ i >= nextSession) =>
           heard[i] = 0 /\ \A j \in DOMAIN inbox : inbox[j].s # i
      BY UnusedSession
  <2>5. \A o \in Targets : Len(log[o]) \in Nat
      BY DEF CdpInv, CdpShape
  <2> QED BY <2>2, <2>3, <2>4, <2>5 DEF CdpInv, HeardInv
<1>15. ASSUME NEW t \in Targets, OthersClose(t) PROVE HeardInv'
    BY <1>15 DEF CdpInv, CdpShape, HeardInv, TargetOf, OthersClose, connVars
<1>16. ASSUME NEW t \in Targets, NEW e \in {"navigated", "load"}, TabEvent(t, e) PROVE HeardInv'
  <2>1. \A i : TargetOf(i)' = TargetOf(i)
      BY <1>16 DEF TabEvent, connVars, TargetOf
  <2>2. UNCHANGED <<heard, inbox, subs>>
      BY <1>16 DEF TabEvent, connVars
  <2>3. /\ \A i \in Requesters : heard[i] \in Nat
        /\ \A j \in DOMAIN inbox : inbox[j].i \in Nat
      BY EventTyped DEF CdpInv, CdpShape
  <2>4. \A o \in Targets : Len(log[o]) \in Nat /\ Len(log'[o]) \in Nat /\ Len(log'[o]) >= Len(log[o])
      BY <1>16, LogGrows DEF CdpInv
  <2> QED BY <2>1, <2>2, <2>3, <2>4 DEF CdpInv, HeardInv
<1>17. CASE UNCHANGED cdpVars
    BY <1>17 DEF CdpInv, CdpShape, HeardInv, TargetOf, cdpVars, connVars
<1> QED BY <1>1, <1>2, <1>3, <1>4, <1>5, <1>6, <1>7, <1>8, <1>9, <1>10, <1>11, <1>12,
    <1>13, <1>14, <1>15, <1>16, <1>17 DEF CdpNext, SocketStep

(* Announced sessions stay dead: their id is not used again, nor is their tab. *)
LEMMA DetachedStep == CdpInv /\ [CdpNext]_cdpVars => DetachedIsDead'
<1> SUFFICES ASSUME CdpInv, [CdpNext]_cdpVars PROVE DetachedIsDead'
    OBVIOUS
<1> USE CdpAssumption
<1>1. ASSUME NEW s \in Requesters, NEW t \in Targets \cup {BrowserTarget}, Attach(s, t) PROVE DetachedIsDead'
  <2>1. SessionsGrow
      BY <1>1, AttachGrows DEF CdpInv
  <2>2. openTabs' \subseteq openTabs /\ detached' = detached
      BY <1>1 DEF Attach, AfterFailedOpen
  <2>3. \A x \in detached : x \in Ids /\ x < nextSession
    <3>1. \A x \in detached : x \in Ids /\ x \in Nat /\ nextSession \in Nat
      BY DEF CdpInv, CdpShape, Ids, CdpAssumption
    <3> QED BY <3>1, UnusedSession
  <2>4. \A x \in detached : sessions'[x] = sessions[x]
      BY <2>1, <2>3 DEF SessionsGrow
  <2> QED BY <2>2, <2>4 DEF CdpInv, DetachedIsDead
<1>2. ASSUME NEW s \in Requesters, NEW x \in Ids, Detach(s, x) PROVE DetachedIsDead'
    BY <1>2
       DEF CdpInv, CdpShape, DetachedIsDead, SessionInv, Ids, Detach, Command,
           WithoutSession
<1>3. ASSUME NEW s \in Requesters, NEW on \in BOOLEAN, SetAutoAttach(s, on) PROVE DetachedIsDead'
  <2>1. SessionsGrow
      BY <1>3, AutoAttachGrows DEF CdpInv
  <2>2. openTabs' \subseteq openTabs /\ detached' = detached
      BY <1>3 DEF SetAutoAttach, AfterFailedOpen
  <2>3. \A x \in detached : x \in Ids /\ x < nextSession
    <3>1. \A x \in detached : x \in Ids /\ x \in Nat /\ nextSession \in Nat
      BY DEF CdpInv, CdpShape, Ids, CdpAssumption
    <3> QED BY <3>1, UnusedSession
  <2>4. \A x \in detached : sessions'[x] = sessions[x]
      BY <2>1, <2>3 DEF SessionsGrow
  <2> QED BY <2>2, <2>4 DEF CdpInv, DetachedIsDead
<1>4. ASSUME NEW s \in Requesters, NEW t \in Targets, CreateTarget(s, t) PROVE DetachedIsDead'
    BY <1>4
       DEF CdpInv, CdpShape, DetachedIsDead, SessionInv, Ids, CreateTarget, Command,
           connVars
<1>5. ASSUME NEW s \in Requesters, NEW t \in Targets, CloseTarget(s, t) PROVE DetachedIsDead'
    BY <1>5
       DEF CdpInv, CdpShape, DetachedIsDead, SessionInv, Ids, CloseTarget, Command,
           SessionsOf
<1>6. ASSUME NEW s \in Requesters, PageEnable(s) PROVE DetachedIsDead'
    BY <1>6
       DEF CdpInv, CdpShape, DetachedIsDead, SessionInv, Ids, PageEnable, Command,
           OnPage, SubscribedAt
<1>7. ASSUME NEW s \in Requesters, PageDisable(s) PROVE DetachedIsDead'
    BY <1>7
       DEF CdpInv, CdpShape, DetachedIsDead, SessionInv, Ids, PageDisable, Command,
           OnPage
<1>8. ASSUME NEW s \in Requesters, PageNavigate(s) PROVE DetachedIsDead'
    BY <1>8
       DEF CdpInv, CdpShape, DetachedIsDead, SessionInv, Ids, PageNavigate, Command,
           OnPage
<1>9. ASSUME NEW s \in Requesters, Evaluate(s) PROVE DetachedIsDead'
    BY <1>9
       DEF CdpInv, CdpShape, DetachedIsDead, SessionInv, Ids, Evaluate, Command, OnPage,
           connVars
<1>10. ASSUME NEW s \in Requesters, CloseBrowser(s) PROVE DetachedIsDead'
    BY <1>10
       DEF CdpInv, CdpShape, DetachedIsDead, SessionInv, Ids, CloseBrowser, Command,
           ClosedSocket
<1>11. ASSUME NEW u \in subs, Forward(u) PROVE DetachedIsDead'
    BY <1>11 DEF CdpInv, CdpShape, DetachedIsDead, SessionInv, Ids, Forward
<1>12. CASE DeliverEvent
    BY <1>12
       DEF CdpInv, CdpShape, DetachedIsDead, SessionInv, Ids, DeliverEvent, LoaderFor
<1>13. CASE FinishWait
    BY <1>13
       DEF CdpInv, CdpShape, DetachedIsDead, SessionInv, Ids, FinishWait, connVars,
           IdleCommand
<1>14. ASSUME NEW ok \in BOOLEAN, FinishCreate(ok) PROVE DetachedIsDead'
  <2>1. SessionsGrow
      BY <1>14, FinishCreateGrows DEF CdpInv
  <2>2. openTabs' \subseteq openTabs /\ detached' = detached
      BY <1>14 DEF FinishCreate, AfterFailedOpen
  <2>3. \A x \in detached : x \in Ids /\ x < nextSession
    <3>1. \A x \in detached : x \in Ids /\ x \in Nat /\ nextSession \in Nat
      BY DEF CdpInv, CdpShape, Ids, CdpAssumption
    <3> QED BY <3>1, UnusedSession
  <2>4. \A x \in detached : sessions'[x] = sessions[x]
      BY <2>1, <2>3 DEF SessionsGrow
  <2> QED BY <2>2, <2>4 DEF CdpInv, DetachedIsDead
<1>15. ASSUME NEW t \in Targets, OthersClose(t) PROVE DetachedIsDead'
    BY <1>15
       DEF CdpInv, CdpShape, DetachedIsDead, SessionInv, Ids, OthersClose, connVars
<1>16. ASSUME NEW t \in Targets, NEW e \in {"navigated", "load"}, TabEvent(t, e) PROVE DetachedIsDead'
    BY <1>16 DEF CdpInv, CdpShape, DetachedIsDead, SessionInv, Ids, TabEvent, connVars
<1>17. CASE UNCHANGED cdpVars
    BY <1>17 DEF CdpInv, CdpShape, DetachedIsDead, SessionInv, Ids, cdpVars, connVars
<1> QED BY <1>1, <1>2, <1>3, <1>4, <1>5, <1>6, <1>7, <1>8, <1>9, <1>10, <1>11, <1>12,
    <1>13, <1>14, <1>15, <1>16, <1>17 DEF CdpNext, SocketStep

(* The tab of a failed createTarget is not opened again. *)
LEMMA FailedStep == CdpInv /\ [CdpNext]_cdpVars => FailedCreateClosed'
<1> SUFFICES ASSUME CdpInv, [CdpNext]_cdpVars PROVE FailedCreateClosed'
    OBVIOUS
<1> USE CdpAssumption
<1>1. ASSUME NEW s \in Requesters, NEW t \in Targets \cup {BrowserTarget}, Attach(s, t) PROVE FailedCreateClosed'
    BY <1>1
       DEF CdpInv, CdpShape, FailedCreateClosed, SessionInv, Attach, Command, NewSession
<1>2. ASSUME NEW s \in Requesters, NEW x \in Ids, Detach(s, x) PROVE FailedCreateClosed'
    BY <1>2
       DEF CdpInv, CdpShape, FailedCreateClosed, SessionInv, Detach, Command,
           WithoutSession
<1>3. ASSUME NEW s \in Requesters, NEW on \in BOOLEAN, SetAutoAttach(s, on) PROVE FailedCreateClosed'
    BY <1>3 DEF CdpInv, CdpShape, FailedCreateClosed, SessionInv, SetAutoAttach, Command
<1>4. ASSUME NEW s \in Requesters, NEW t \in Targets, CreateTarget(s, t) PROVE FailedCreateClosed'
    BY <1>4
       DEF CdpInv, CdpShape, FailedCreateClosed, SessionInv, CreateTarget, Command,
           connVars
<1>5. ASSUME NEW s \in Requesters, NEW t \in Targets, CloseTarget(s, t) PROVE FailedCreateClosed'
    BY <1>5
       DEF CdpInv, CdpShape, FailedCreateClosed, SessionInv, CloseTarget, Command,
           SessionsOf
<1>6. ASSUME NEW s \in Requesters, PageEnable(s) PROVE FailedCreateClosed'
    BY <1>6
       DEF CdpInv, CdpShape, FailedCreateClosed, SessionInv, PageEnable, Command,
           OnPage, SubscribedAt
<1>7. ASSUME NEW s \in Requesters, PageDisable(s) PROVE FailedCreateClosed'
    BY <1>7
       DEF CdpInv, CdpShape, FailedCreateClosed, SessionInv, PageDisable, Command,
           OnPage
<1>8. ASSUME NEW s \in Requesters, PageNavigate(s) PROVE FailedCreateClosed'
    BY <1>8
       DEF CdpInv, CdpShape, FailedCreateClosed, SessionInv, PageNavigate, Command,
           OnPage
<1>9. ASSUME NEW s \in Requesters, Evaluate(s) PROVE FailedCreateClosed'
    BY <1>9
       DEF CdpInv, CdpShape, FailedCreateClosed, SessionInv, Evaluate, Command, OnPage,
           connVars
<1>10. ASSUME NEW s \in Requesters, CloseBrowser(s) PROVE FailedCreateClosed'
    BY <1>10
       DEF CdpInv, CdpShape, FailedCreateClosed, SessionInv, CloseBrowser, Command,
           ClosedSocket
<1>11. ASSUME NEW u \in subs, Forward(u) PROVE FailedCreateClosed'
    BY <1>11 DEF CdpInv, CdpShape, FailedCreateClosed, SessionInv, Forward
<1>12. CASE DeliverEvent
    BY <1>12
       DEF CdpInv, CdpShape, FailedCreateClosed, SessionInv, DeliverEvent, LoaderFor
<1>13. CASE FinishWait
    BY <1>13
       DEF CdpInv, CdpShape, FailedCreateClosed, SessionInv, FinishWait, connVars,
           IdleCommand
<1>14. ASSUME NEW ok \in BOOLEAN, FinishCreate(ok) PROVE FailedCreateClosed'
    BY <1>14
       DEF CdpInv, CdpShape, FailedCreateClosed, SessionInv, FinishCreate,
           AfterFailedOpen, CreateAttached, NewSession, IdleCommand
<1>15. ASSUME NEW t \in Targets, OthersClose(t) PROVE FailedCreateClosed'
    BY <1>15 DEF CdpInv, CdpShape, FailedCreateClosed, SessionInv, OthersClose, connVars
<1>16. ASSUME NEW t \in Targets, NEW e \in {"navigated", "load"}, TabEvent(t, e) PROVE FailedCreateClosed'
    BY <1>16 DEF CdpInv, CdpShape, FailedCreateClosed, SessionInv, TabEvent, connVars
<1>17. CASE UNCHANGED cdpVars
    BY <1>17 DEF CdpInv, CdpShape, FailedCreateClosed, SessionInv, cdpVars, connVars
<1> QED BY <1>1, <1>2, <1>3, <1>4, <1>5, <1>6, <1>7, <1>8, <1>9, <1>10, <1>11, <1>12,
    <1>13, <1>14, <1>15, <1>16, <1>17 DEF CdpNext, SocketStep

-----------------------------------------------------------------------------
(* A new socket. *)
LEMMA CdpInitial == CdpInit => CdpInv
<1> SUFFICES ASSUME CdpInit PROVE CdpInv
    OBVIOUS
<1> USE CdpAssumption DEF CdpAssumption, CdpInit, IdleCommand
<1>1. CdpShape
  <2>1. command \in CdpCommand
      BY DEF CdpCommand
  <2>2. log \in [Targets -> Seq({"navigated", "load"})] /\ inbox \in Seq(CdpEvent) /\ Len(inbox) <= InboxSize
      OBVIOUS
  <2>3. nextSession \in 1..(MaxSessions + 1)
      OBVIOUS
  <2>4. /\ sessions \in [Ids -> Targets \cup {NoTarget, BrowserTarget}] /\ heard \in [Requesters -> Nat]
        /\ loaderIds \in [Targets -> Nat] /\ current \in [Targets -> Nat]
      OBVIOUS
  <2>5. /\ openTabs \subseteq born /\ born \subseteq Targets /\ socketTab \in Targets \cup {NoTarget}
        /\ subs = {} /\ told = {} /\ detached = {} /\ failed = {}
      OBVIOUS
  <2>6. nextLoader \in Nat \ {0}
      OBVIOUS
  <2>7. autoAttach \in BOOLEAN
      OBVIOUS
  <2> HIDE DEF CdpInit
  <2> QED BY <2>1, <2>2, <2>3, <2>4, <2>5, <2>6, <2>7 DEF CdpShape
<1>2. SessionInv
    BY DEF SessionInv, Requesters, Ids
<1>3. LoaderInv /\ SubsInv
    BY DEF LoaderInv, SubsInv, SubscriptionsOwned
<1>4. HeardInv
    BY DEF HeardInv
<1>5. LoaderNamesOneDocument /\ DetachedIsDead /\ FailedCreateClosed
    BY DEF LoaderNamesOneDocument, DetachedIsDead, FailedCreateClosed
<1> QED BY <1>1, <1>2, <1>3, <1>4, <1>5 DEF CdpInv

(* The invariant of a connection holds always: whatever sessions a client   *)
(* attaches and detaches, and whoever opens, navigates and closes the tabs. *)
THEOREM CdpInvariant == CdpSpec => []CdpInv
<1>1. CdpInv /\ [CdpNext]_cdpVars => CdpInv'
    BY CdpShapeStep, SessionStep, LoaderStep, OneDocumentStep, SubsStep, HeardStep, DetachedStep,
       FailedStep DEF CdpInv
<1> QED BY <1>1, CdpInitial, PTL DEF CdpSpec

(* Every subscription belongs to a session that still drives its tab        *)
(* (unsubscribe_session, unsubscribe_tab_id), a loader id names one         *)
(* document (push_navigated), a session announced as detached reaches no    *)
(* open tab (close_target), and a createTarget that failed leaves no tab:   *)
(* for every number of tabs, sessions, commands and events.                 *)
THEOREM CdpIsSafe == CdpSpec => []CdpSafe
<1>1. CdpInv => CdpTypeOK
  <2> SUFFICES ASSUME CdpInv PROVE CdpTypeOK
      OBVIOUS
  <2>1. openTabs \subseteq Targets /\ socketTab \in Targets \cup {NoTarget} /\ Len(inbox) <= InboxSize
      BY DEF CdpInv, CdpShape
  <2>2. \A i \in Ids : sessions[i] \in Targets \cup {NoTarget, BrowserTarget} /\ (i >= nextSession => sessions[i] = NoTarget)
      BY DEF CdpInv, CdpShape, SessionInv
  <2>3. \A u \in subs : u.at <= Len(log[u.tab])
      BY DEF CdpInv, SubsInv
  <2>4. \A t \in Targets : loaderIds[t] < nextLoader /\ current[t] < nextLoader
      BY DEF CdpInv, LoaderInv
  <2> QED BY <2>1, <2>2, <2>3, <2>4 DEF CdpTypeOK
<1>2. CdpInv => CdpSafe
    BY <1>1 DEF CdpInv, CdpSafe, SubsInv
<1> QED BY <1>2, CdpInvariant, PTL

(* A session is sent the events of its tab in the tab's order and none of   *)
(* them twice, with events of older subscriptions still in the inbox        *)
(* (subscribe_tab, event_messages).                                         *)
THEOREM CdpHeardInOrder == CdpSpec => [][HeardInOrder]_cdpVars
<1>1. CdpInv /\ [CdpNext]_cdpVars => [HeardInOrder]_cdpVars
  <2> SUFFICES ASSUME CdpInv, CdpNext PROVE HeardInOrder
      BY DEF HeardInOrder
  <2>1. CASE DeliverEvent
    <3>1. Head(inbox) = inbox[1] /\ 1 \in DOMAIN inbox
        BY <2>1, InboxTaken DEF DeliverEvent, CdpInv, CdpShape
    <3>2. /\ inbox[1].s \in Requesters /\ inbox[1].i \in Nat /\ heard[inbox[1].s] < inbox[1].i
          /\ heard \in [Requesters -> Nat]
        BY <3>1, EventTyped DEF CdpInv, HeardInv, CdpShape
    <3>3. \A s \in Requesters : heard'[s] = IF s = inbox[1].s THEN inbox[1].i ELSE heard[s]
        BY <2>1, <3>1, <3>2 DEF DeliverEvent
    <3>4. \A s \in Requesters : heard[s] \in Nat
        BY <3>2
    <3> QED BY <3>1, <3>2, <3>3, <3>4 DEF HeardInOrder
  <2>2. CASE ~DeliverEvent
    <3>1. heard' = heard /\ (inbox' = inbox \/ \E e : inbox' = Append(inbox, e))
        BY <2>2 DEF CdpNext, SocketStep, Attach, Detach, SetAutoAttach, CreateTarget, CloseTarget, PageEnable,
           PageDisable, PageNavigate, Evaluate, CloseBrowser, Forward, FinishWait, FinishCreate,
           OthersClose, TabEvent
    <3>2. inbox # <<>> => inbox' # Tail(inbox)
      <4>1. inbox \in Seq(CdpEvent)
          BY DEF CdpInv, CdpShape
      <4>2. inbox # <<>> => Len(Tail(inbox)) = Len(inbox) - 1 /\ Len(inbox) \in Nat
          BY <4>1
      <4>3. \A e : Len(Append(inbox, e)) = Len(inbox) + 1
          BY <4>1
      <4> QED BY <3>1, <4>2, <4>3
    <3>3. \A s \in Requesters : heard[s] \in Nat
        BY DEF CdpInv, CdpShape
    <3> QED BY <3>1, <3>2, <3>3 DEF HeardInOrder
  <2> QED BY <2>1, <2>2
<1> QED BY <1>1, CdpInvariant, PTL DEF CdpSpec

=============================================================================
