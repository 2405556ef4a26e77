-------------------------- MODULE PermissionsProofs --------------------------
(***************************************************************************)
(* Proofs about Permissions, for any requests, permissions, concurrent     *)
(* calls and failures: type correctness, what grants and denials rest on,  *)
(* and that no cache entry outlives its ttl record unnoticed.              *)
(***************************************************************************)
EXTENDS Permissions, TLAPS

Value == Seq(0..255) \cup {Nil}
Steps == {"idle", "hit", "recheck", "walk", "cache", "ttl", "granted", "denied"}
Write == [op : {"cache", "ttl", "uncache", "unttl"}, key : CacheKeys, val : Entries \cup {NoEntry}]

(* The types of the store, of the calls, and of the jobs and their writes.  *)
StoreType ==
    /\ perms \in [PermKeys -> Value]
    /\ cached \in [CacheKeys -> Entries \cup {Nil}]
    /\ ttls \subseteq [key : CacheKeys, expired : BOOLEAN]
CallType ==
    /\ pc \in [Procs -> Steps] /\ rq \in [Procs -> Requests] /\ at \in [Procs -> Nat]
    /\ \A p \in Procs : at[p] \in 1..NumProbes(rq[p]) + 1
    /\ entry \in [Procs -> Entries \cup {NoEntry}]
    /\ ever \in [Procs -> BOOLEAN] /\ steady \in [Procs -> SUBSET Nat]
    /\ blind \in [Procs -> BOOLEAN]
JobType ==
    /\ todo \subseteq [key : CacheKeys, expired : {TRUE}]
    /\ victim \in CacheKeys \cup {Nil}
    /\ rev \in Users \cup {Nil}
    /\ sweep \subseteq CacheKeys
TroubleType == orphans \subseteq CacheKeys /\ late \subseteq Write /\ failures \in 0..MaxFailures

Values == StoreType /\ CallType /\ JobType /\ TroubleType

(* An entry under c is a probe of a request with that cache key.            *)
StoredFor(c, e) ==
    \E q \in Requests : getCacheKey(q) = c /\ \E n \in 1..NumProbes(q) : e = Probe(q, n)

CacheInv ==
    /\ \A c \in CacheKeys : cached[c] # Nil => StoredFor(c, cached[c])
    /\ \A w \in late : w.op = "cache" => StoredFor(w.key, w.val)

(* What a call is about to store, and what it took from the cache.          *)
EntryOf(p) ==
    /\ pc[p] \in {"cache", "recheck"} => StoredFor(getCacheKey(rq[p]), entry[p])
    /\ pc[p] = "recheck" =>
          \E i \in 1..Len(Tried(rq[p])) : Tried(rq[p])[i] = entry[p].ent

(* ever and steady record what they say.                                    *)
EverOf(p) ==
    /\ pc[p] # "idle" /\ Backed(perms, rq[p]) => ever[p]
    /\ pc[p] \in {"cache", "ttl", "granted"} => ever[p]
SteadyOf(p) ==
    /\ pc[p] # "idle" => steady[p] \subseteq Matching(perms, rq[p])
    /\ pc[p] # "idle" => blind[p] \/ \A n \in steady[p] : n >= at[p]
    /\ pc[p] = "denied" => blind[p] \/ steady[p] = {}

CallInv == \A p \in Procs : EntryOf(p) /\ EverOf(p) /\ SteadyOf(p)

IInv == Values /\ CacheInv /\ CallInv /\ EntryExpires

-----------------------------------------------------------------------------
(* The walk.                                                                *)

(* A walk has one probe per entity and part of the path. *)
LEMMA ProbesFacts ==
    ASSUME NEW q \in Requests
    PROVE  /\ Len(Tried(q)) \in Nat \ {0} /\ Len(Subpaths[q.res]) \in Nat
           /\ NumProbes(q) \in Nat /\ NumProbes(q) = Len(Subpaths[q.res]) * Len(Tried(q))
<1>1. Len(Tried(q)) \in Nat \ {0} /\ Len(Subpaths[q.res]) \in Nat
  BY RequestsAssumption DEF Tried
<1> QED
  BY <1>1 DEF NumProbes

(* Division keeps an index below a product in the range of its factor. *)
LEMMA Quotient ==
    ASSUME NEW T \in Nat \ {0}, NEW L \in Nat, NEW m \in Nat, m < L * T
    PROVE  m \div T \in Nat /\ m \div T < L
OBVIOUS

(* A pair of indices and its number in the walk. *)
LEMMA Index ==
    ASSUME NEW T \in Nat \ {0}, NEW L \in Nat, NEW a \in 0..L - 1, NEW b \in 0..T - 1
    PROVE  /\ a * T + b \in Nat /\ a * T + b < L * T
           /\ (a * T + b) % T = b /\ (a * T + b) \div T = a
OBVIOUS

(* Every probe is of a part of the path, and every entity is tried on every *)
(* part.                                                                    *)
LEMMA ProbeIsPart ==
    ASSUME NEW q \in Requests, NEW n \in 1..NumProbes(q)
    PROVE  \E j \in 1..Len(Subpaths[q.res]) : Probe(q, n).ctx = Subpaths[q.res][j]
<1> DEFINE T == Len(Tried(q))
           L == Len(Subpaths[q.res])
           j == ((n - 1) \div T) + 1
<1>1. T \in Nat \ {0} /\ L \in Nat /\ NumProbes(q) = L * T /\ NumProbes(q) \in Nat
  BY ProbesFacts
<1>2. Probe(q, n).ctx = Subpaths[q.res][j]
  BY DEF Probe
<1> HIDE DEF T, L
<1>3. n - 1 \in Nat /\ n - 1 < L * T
  BY <1>1
<1>4. (n - 1) \div T \in Nat /\ (n - 1) \div T < L
  BY <1>1, <1>3, Quotient
<1>5. j \in 1..L
  BY <1>1, <1>4
<1> QED
  BY <1>2, <1>5 DEF L

(* Every entity is probed on every part of the path. *)
LEMMA ProbeCovers ==
    ASSUME NEW q \in Requests, NEW i \in 1..Len(Tried(q)), NEW j \in 1..Len(Subpaths[q.res])
    PROVE  \E n \in 1..NumProbes(q) :
              Probe(q, n).ent = Tried(q)[i] /\ Probe(q, n).ctx = Subpaths[q.res][j]
<1> DEFINE T == Len(Tried(q))
           L == Len(Subpaths[q.res])
           m == (j - 1) * T + (i - 1)
<1>1. T \in Nat \ {0} /\ L \in Nat /\ NumProbes(q) = L * T /\ NumProbes(q) \in Nat
  BY ProbesFacts
<1>2. j - 1 \in 0..L - 1 /\ i - 1 \in 0..T - 1
  BY <1>1
<1>3. Probe(q, m + 1) = [ent |-> Tried(q)[((m + 1 - 1) % T) + 1], rune |-> q.rune,
                         ctx |-> Subpaths[q.res][((m + 1 - 1) \div T) + 1]]
  BY DEF Probe
<1> HIDE DEF T, L
<1>4. m \in Nat /\ m < L * T /\ m % T = i - 1 /\ m \div T = j - 1
  BY <1>1, <1>2, Index
<1> HIDE DEF m
<1>5. m + 1 \in 1..NumProbes(q) /\ m + 1 - 1 = m
  BY <1>1, <1>4
<1>6. (m % T) + 1 = i /\ (m \div T) + 1 = j
  BY <1>1, <1>2, <1>4
<1> QED
  BY <1>3, <1>5, <1>6

(* A probe that matches is a permission for the request.                    *)
LEMMA ProbeBacks ==
    ASSUME NEW ps, NEW q \in Requests, NEW n \in Matching(ps, q)
    PROVE  Backed(ps, q)
<1> DEFINE e == Probe(q, n)
           k == getPermissionString(q, e)
<1>1. n \in 1..NumProbes(q) /\ checkPermission(StoredAt(ps, k), Wanted(q))
  BY DEF Matching
<1>2. k.ent = e.ent /\ k.ctx = getPermissionString(q, Probe(q, n)).ctx /\ k.act = q.act
  BY DEF getPermissionString
<1>3. k \in PermKeys /\ StoredAt(ps, k) = ps[k]
  <2> HIDE DEF k
  <2> QED
    BY <1>1 DEF StoredAt, checkPermission
<1> QED
  BY <1>1, <1>2, <1>3 DEF Backed

(* So is a cached entry of one of the request's entities, when it is found  *)
(* to be still there: requests that share a cache key share the path.       *)
LEMMA HitBacks ==
    ASSUME NEW ps, NEW q \in Requests, NEW e, StoredFor(getCacheKey(q), e),
           NEW i \in 1..Len(Tried(q)), Tried(q)[i] = e.ent,
           checkPermission(StoredAt(ps, HitKey(q, e)), Wanted(q))
    PROVE  Backed(ps, q)
<1>1. PICK r \in Requests : getCacheKey(r) = getCacheKey(q) /\ \E m \in 1..NumProbes(r) : e = Probe(r, m)
  BY DEF StoredFor
<1>2. r.res = q.res
  BY <1>1 DEF getCacheKey
<1>3. PICK j \in 1..Len(Subpaths[q.res]) : e.ctx = Subpaths[q.res][j]
  BY <1>1, <1>2, ProbeIsPart
<1>4. PICK n \in 1..NumProbes(q) : Probe(q, n).ent = e.ent /\ Probe(q, n).ctx = e.ctx
  BY <1>3, ProbeCovers
<1> DEFINE k == HitKey(q, e)
<1>5. k.ent = e.ent /\ k.ctx = e.ctx /\ k.act = q.act
  BY DEF HitKey
<1>6. k \in PermKeys /\ StoredAt(ps, k) = ps[k]
  <2> HIDE DEF k
  <2>1. checkPermission(StoredAt(ps, k), Wanted(q))
    BY DEF k
  <2> QED
    BY <2>1 DEF StoredAt, checkPermission
<1> QED
  BY <1>4, <1>5, <1>6 DEF Backed

(* What a probe reads may be cached for its request. *)
LEMMA ProbeIsEntry ==
    ASSUME NEW q \in Requests, NEW n \in 1..NumProbes(q)
    PROVE  Probe(q, n) \in Entries /\ StoredFor(getCacheKey(q), Probe(q, n))
BY DEF Entries, StoredFor

(* The cache key of a request. *)
LEMMA KeyType == \A q \in Requests : getCacheKey(q) \in CacheKeys
BY DEF CacheKeys

(* The request idle callers hold. *)
LEMMA AnyRequestType == AnyRequest \in Requests
BY RequestsAssumption, Zenon DEF AnyRequest

-----------------------------------------------------------------------------
(* The initial states satisfy IInv. *)
LEMMA InitIInv == Init => IInv
<1> SUFFICES ASSUME Init
             PROVE  IInv
  OBVIOUS
<1>1. StoreType
  BY DEF Init, StoreType, Value
<1>2. CallType
  <2>1. NumProbes(AnyRequest) \in Nat
    BY AnyRequestType, ProbesFacts
  <2>2. 1 \in 1..NumProbes(AnyRequest) + 1 /\ 1 \in Nat
    BY <2>1
  <2> QED
    BY <2>2, AnyRequestType DEF Init, CallType, Steps
<1>3. JobType /\ TroubleType
  BY FailuresAssumption DEF Init, JobType, TroubleType
<1>4. CacheInv /\ EntryExpires
  BY DEF Init, CacheInv, EntryExpires
<1>5. CallInv
  BY DEF Init, CallInv, EntryOf, EverOf, SteadyOf
<1> QED
  BY <1>1, <1>2, <1>3, <1>4, <1>5 DEF IInv, Values

-----------------------------------------------------------------------------
(* What a step leaves alone.                                                *)

(* The calls' invariant depends on the permissions and the calls. *)
LEMMA CallsSame ==
    ASSUME CallType, CallInv, UNCHANGED <<perms, calls>>
    PROVE  CallType' /\ CallInv'
<1>1. /\ perms' = perms /\ pc' = pc /\ rq' = rq /\ at' = at /\ entry' = entry /\ ever' = ever
      /\ steady' = steady /\ blind' = blind
  BY DEF calls
<1> QED
  BY <1>1 DEF CallType, CallInv, EntryOf, EverOf, SteadyOf

(* Only the call p moves.                                                   *)
Alone(p) ==
    \A r \in Procs \ {p} :
        /\ pc'[r] = pc[r] /\ rq'[r] = rq[r] /\ at'[r] = at[r] /\ entry'[r] = entry[r]
        /\ ever'[r] = ever[r] /\ steady'[r] = steady[r] /\ blind'[r] = blind[r]

(* A step of one call has to keep the invariant of that call only. *)
LEMMA OneCall ==
    ASSUME CallInv, NEW p \in Procs, Alone(p), perms' = perms,
           (EntryOf(p) /\ EverOf(p) /\ SteadyOf(p))'
    PROVE  CallInv'
<1> SUFFICES ASSUME NEW r \in Procs \ {p}
             PROVE  (EntryOf(r) /\ EverOf(r) /\ SteadyOf(r))'
  BY DEF CallInv
<1> QED
  BY DEF CallInv, Alone, EntryOf, EverOf, SteadyOf

(* CacheInv depends on the entries and the late writes. *)
LEMMA CacheSame == CacheInv /\ UNCHANGED <<cached, late>> => CacheInv'
BY DEF CacheInv

(* A write other than that of an entry may be on its way.                   *)
LEMMA TimesOutOK ==
    ASSUME TroubleType, NEW op \in {"cache", "ttl", "uncache", "unttl"}, NEW c \in CacheKeys,
           NEW e \in Entries \cup {NoEntry}, TimesOut(op, c, e)
    PROVE  /\ late' \subseteq Write /\ failures' \in 0..MaxFailures
           /\ \A w \in late' : w \in late \/ (w.op = op /\ w.key = c /\ w.val = e)
<1> DEFINE w == [op |-> op, key |-> c, val |-> e]
<1>1. w \in Write /\ w.op = op /\ w.key = c /\ w.val = e
  BY DEF Write
<1>2. late' = late \cup {w}
  BY DEF TimesOut
<1> HIDE DEF w
<1>3. failures' \in 0..MaxFailures
  BY FailuresAssumption DEF TimesOut, MayFail, TroubleType
<1> QED
  BY <1>1, <1>2, <1>3 DEF TroubleType

(* Timeouts are counted up to their bound. *)
LEMMA MayFailOK ==
    ASSUME TroubleType, MayFail \/ UNCHANGED failures
    PROVE  failures' \in 0..MaxFailures
BY FailuresAssumption DEF MayFail, TroubleType

(* EntryExpires is kept while no entry appears and no record goes. *)
LEMMA ExpiresSame ==
    ASSUME EntryExpires, UNCHANGED <<cached, victim>>, ttls \subseteq ttls', orphans \subseteq orphans',
           \A p \in Procs : pc[p] = "ttl" => pc'[p] = "ttl" /\ rq'[p] = rq[p]
    PROVE  EntryExpires'
<1> SUFFICES ASSUME NEW c \in CacheKeys, cached[c] # Nil
             PROVE  \/ \E t \in ttls' : t.key = c
                    \/ \E p \in Procs : pc'[p] = "ttl" /\ getCacheKey(rq'[p]) = c
                    \/ victim' = c
                    \/ c \in orphans'
  BY DEF EntryExpires
<1> QED
  BY DEF EntryExpires

-----------------------------------------------------------------------------
(* authorize.                                                               *)

(* IInv is kept by Begin. *)
LEMMA BeginIInv ==
    ASSUME IInv, NEW p \in Procs, NEW q \in Requests, Begin(p, q)
    PROVE  IInv'
<1>0. Values /\ CacheInv /\ CallInv /\ EntryExpires
  BY DEF IInv
<1>1. NumProbes(q) \in Nat /\ Matching(perms, q) \in SUBSET Nat /\ Backed(perms, q) \in BOOLEAN
      /\ \A n \in Matching(perms, q) : n >= 1
  <2>1. NumProbes(q) \in Nat
    BY ProbesFacts
  <2> QED
    BY <2>1 DEF Matching, Backed
<1>2. /\ pc' \in [Procs -> Steps] /\ rq' \in [Procs -> Requests] /\ at' \in [Procs -> Nat]
      /\ ever' \in [Procs -> BOOLEAN] /\ steady' \in [Procs -> SUBSET Nat]
      /\ blind' \in [Procs -> BOOLEAN] /\ entry' \in [Procs -> Entries \cup {NoEntry}]
  BY <1>0, <1>1 DEF Begin, Values, CallType, Steps
<1>3. /\ pc[p] = "idle" /\ pc'[p] \in {"hit", "walk"} /\ rq'[p] = q /\ at'[p] = 1
      /\ ever'[p] = Backed(perms, q) /\ steady'[p] = Matching(perms, q)
  BY <1>0 DEF Begin, Values, CallType
<1>4. Alone(p) /\ perms' = perms /\ UNCHANGED <<kvstore, jobs, trouble>>
  BY <1>0 DEF Begin, Alone, Values, CallType, kvstore
<1>5. StoreType' /\ JobType' /\ TroubleType'
  BY <1>0, <1>4 DEF Values, StoreType, JobType, TroubleType, kvstore, jobs, trouble
<1>6. CallType'
  <2>1. ASSUME NEW r \in Procs
        PROVE  at'[r] \in 1..NumProbes(rq'[r]) + 1
    BY <1>0, <1>1, <1>3, <1>4 DEF Values, CallType, Alone
  <2> QED
    BY <1>2, <2>1 DEF CallType
<1>7. (EntryOf(p) /\ EverOf(p) /\ SteadyOf(p))'
  BY <1>1, <1>3, <1>4 DEF EntryOf, EverOf, SteadyOf
<1>8. CallInv'
  BY <1>0, <1>4, <1>7, OneCall
<1>9. CacheInv' /\ EntryExpires'
  BY <1>0, <1>3, <1>4, CacheSame, ExpiresSame DEF Alone, kvstore, jobs, trouble
<1> QED
  BY <1>5, <1>6, <1>8, <1>9 DEF IInv, Values

(* A step of a call that stores nothing.                                    *)
LEMMA Reads ==
    ASSUME IInv, NEW p \in Procs, pc[p] # "ttl", UNCHANGED <<kvstore, rq, jobs, late, orphans>>,
           MayFail \/ UNCHANGED failures, CallType', Alone(p),
           (EntryOf(p) /\ EverOf(p) /\ SteadyOf(p))'
    PROVE  IInv'
<1>0. Values /\ CacheInv /\ CallInv /\ EntryExpires
  BY DEF IInv
<1>1. StoreType' /\ JobType' /\ perms' = perms
  BY <1>0 DEF Values, StoreType, JobType, kvstore, jobs
<1>2. TroubleType'
  BY <1>0, MayFailOK DEF Values, TroubleType
<1>3. CacheInv' /\ EntryExpires' /\ CallInv'
  BY <1>0, <1>1, CacheSame, ExpiresSame, OneCall DEF Alone, kvstore, jobs
<1> QED
  BY <1>1, <1>2, <1>3 DEF IInv, Values

(* IInv is kept by Hit. *)
LEMMA HitIInv ==
    ASSUME IInv, NEW p \in Procs, Hit(p)
    PROVE  IInv'
<1>0. Values /\ CacheInv /\ CallInv
  BY DEF IInv
<1> DEFINE q == rq[p]
           e == cached[getCacheKey(q)]
<1>1. /\ pc[p] = "hit" /\ q \in Requests /\ getCacheKey(q) \in CacheKeys
      /\ e \in Entries \cup {Nil} /\ (e # Nil => StoredFor(getCacheKey(q), e))
  BY <1>0, KeyType DEF Hit, Values, CallType, StoreType, CacheInv
<1>2. /\ UNCHANGED <<kvstore, rq, jobs, late, orphans>> /\ (MayFail \/ UNCHANGED failures)
      /\ rq' = rq /\ at' = at /\ ever' = ever /\ steady' = steady /\ blind' = blind /\ perms' = perms
  BY DEF Hit, kvstore
<1>3. \/ /\ e # Nil /\ \E i \in 1..Len(Tried(q)) : Tried(q)[i] = e.ent
         /\ pc' = [pc EXCEPT ![p] = "recheck"] /\ entry' = [entry EXCEPT ![p] = e]
      \/ pc' = [pc EXCEPT ![p] = "walk"] /\ entry' = entry
  BY DEF Hit
<1> HIDE DEF e
<1>4. CallType' /\ Alone(p)
  BY <1>0, <1>1, <1>2, <1>3 DEF Values, CallType, Alone, Steps
<1>5. EntryOf(p)'
  BY <1>0, <1>1, <1>2, <1>3 DEF Values, CallType, EntryOf
<1>6. pc'[p] \in {"recheck", "walk"}
  BY <1>0, <1>3 DEF Values, CallType
<1>7. EverOf(p)' /\ SteadyOf(p)'
  BY <1>0, <1>1, <1>2, <1>6 DEF CallInv, EverOf, SteadyOf
<1> QED
  BY <1>1, <1>2, <1>4, <1>5, <1>7, Reads

(* IInv is kept by Recheck. *)
LEMMA RecheckIInv ==
    ASSUME IInv, NEW p \in Procs, Recheck(p)
    PROVE  IInv'
<1>0. Values /\ CallInv
  BY DEF IInv
<1> DEFINE q == rq[p]
           Found == checkPermission(StoredAt(perms, HitKey(q, entry[p])), Wanted(q))
<1>1. pc[p] = "recheck" /\ q \in Requests
  BY <1>0 DEF Recheck, Values, CallType
<1>2. /\ UNCHANGED <<kvstore, rq, jobs, late, orphans>> /\ (MayFail \/ UNCHANGED failures)
      /\ rq' = rq /\ at' = at /\ ever' = ever /\ steady' = steady /\ perms' = perms
      /\ entry' = [entry EXCEPT ![p] = NoEntry]
  BY DEF Recheck, Granted, kvstore
<1>3. \/ Found /\ pc' = [pc EXCEPT ![p] = "granted"] /\ blind' = blind
      \/ pc' = [pc EXCEPT ![p] = "walk"] /\ blind' = blind
      \/ pc' = [pc EXCEPT ![p] = "walk"] /\ blind' = [blind EXCEPT ![p] = TRUE]
  BY DEF Recheck, Granted
<1>4. Found => ever[p]
  <2> SUFFICES ASSUME Found
               PROVE  ever[p]
    OBVIOUS
  <2>1. /\ StoredFor(getCacheKey(q), entry[p])
        /\ \E i \in 1..Len(Tried(q)) : Tried(q)[i] = entry[p].ent
    BY <1>0, <1>1 DEF CallInv, EntryOf
  <2>2. Backed(perms, q)
    BY <1>1, <2>1, HitBacks
  <2> QED
    BY <1>0, <1>1, <2>2 DEF CallInv, EverOf
<1> HIDE DEF Found
<1>5. CallType' /\ Alone(p)
  BY <1>0, <1>1, <1>2, <1>3 DEF Values, CallType, Alone, Steps
<1>6. /\ pc'[p] \in {"granted", "walk"} /\ (pc'[p] = "granted" => ever[p])
      /\ blind'[p] \in {blind[p], TRUE}
  BY <1>0, <1>3, <1>4 DEF Values, CallType
<1>7. EntryOf(p)' /\ EverOf(p)' /\ SteadyOf(p)'
  BY <1>0, <1>1, <1>2, <1>6 DEF CallInv, EntryOf, EverOf, SteadyOf
<1> QED
  BY <1>1, <1>2, <1>5, <1>7, Reads

(* IInv is kept by Walk. *)
LEMMA WalkIInv ==
    ASSUME IInv, NEW p \in Procs, Walk(p)
    PROVE  IInv'
<1>0. Values /\ CallInv
  BY DEF IInv
<1> DEFINE q == rq[p]
           e == Probe(q, at[p])
           Found == checkPermission(StoredAt(perms, getPermissionString(q, e)), Wanted(q))
<1>1. /\ pc[p] = "walk" /\ q \in Requests /\ NumProbes(q) \in Nat /\ at[p] \in 1..NumProbes(q)
      /\ at[p] \in Nat
  BY <1>0, ProbesFacts DEF Walk, Values, CallType
<1>2. /\ UNCHANGED <<kvstore, rq, jobs, late, orphans>> /\ (MayFail \/ UNCHANGED failures)
      /\ rq' = rq /\ ever' = ever /\ steady' = steady /\ perms' = perms
  BY DEF Walk, kvstore
<1>3. \/ /\ Found /\ at' = at /\ blind' = blind
         /\ \/ pc' = [pc EXCEPT ![p] = "granted"] /\ entry' = [entry EXCEPT ![p] = NoEntry]
            \/ pc' = [pc EXCEPT ![p] = "cache"] /\ entry' = [entry EXCEPT ![p] = e]
      \/ /\ ~Found /\ at' = [at EXCEPT ![p] = at[p] + 1] /\ pc' = pc /\ entry' = entry /\ blind' = blind
      \/ /\ at' = [at EXCEPT ![p] = at[p] + 1] /\ pc' = pc /\ entry' = entry
         /\ blind' = [blind EXCEPT ![p] = TRUE]
  BY DEF Walk, Granted
<1>4. Found <=> at[p] \in Matching(perms, q)
  BY <1>1 DEF Matching
<1>5. Found => ever[p]
  <2>1. Found => Backed(perms, q)
    BY <1>1, <1>4, ProbeBacks
  <2> QED
    BY <1>0, <1>1, <2>1 DEF CallInv, EverOf
<1>6. e \in Entries /\ StoredFor(getCacheKey(q), e)
  BY <1>1, ProbeIsEntry
<1> HIDE DEF e, Found
<1>7. at[p] + 1 \in Nat /\ at[p] + 1 \in 1..NumProbes(q) + 1
  BY <1>1
<1>8. CallType' /\ Alone(p)
  <2>1. /\ pc' \in [Procs -> Steps] /\ at' \in [Procs -> Nat] /\ blind' \in [Procs -> BOOLEAN]
        /\ entry' \in [Procs -> Entries \cup {NoEntry}]
    BY <1>0, <1>3, <1>6, <1>7 DEF Values, CallType, Steps
  <2>2. ASSUME NEW r \in Procs
        PROVE  at'[r] \in 1..NumProbes(rq[r]) + 1
    BY <1>0, <1>3, <1>7 DEF Values, CallType
  <2> QED
    BY <1>0, <1>2, <1>3, <2>1, <2>2 DEF Values, CallType, Alone
<1>9. EntryOf(p)'
  BY <1>0, <1>1, <1>2, <1>3, <1>6 DEF Values, CallType, CallInv, EntryOf
<1>10. EverOf(p)'
  BY <1>0, <1>1, <1>2, <1>3, <1>5 DEF Values, CallType, CallInv, EverOf
<1>11. SteadyOf(p)'
  <2>1. steady[p] \subseteq Matching(perms, q) /\ steady[p] \in SUBSET Nat
        /\ (blind[p] \/ \A n \in steady[p] : n >= at[p])
    BY <1>0, <1>1 DEF Values, CallType, CallInv, SteadyOf
  <2>2. pc'[p] # "denied" /\ (blind[p] => blind'[p]) /\ at'[p] \in {at[p], at[p] + 1}
        /\ (at'[p] = at[p] + 1 => ~Found \/ blind'[p])
    BY <1>0, <1>1, <1>3 DEF Values, CallType
  <2>3. blind'[p] \/ \A n \in steady[p] : n >= at'[p]
    BY <1>1, <1>4, <2>1, <2>2
  <2> QED
    BY <1>2, <2>1, <2>2, <2>3 DEF SteadyOf
<1> QED
  BY <1>1, <1>2, <1>8, <1>9, <1>10, <1>11, Reads

(* IInv is kept by Deny. *)
LEMMA DenyIInv ==
    ASSUME IInv, NEW p \in Procs, Deny(p)
    PROVE  IInv'
<1>0. Values /\ CallInv
  BY DEF IInv
<1>1. /\ pc[p] = "walk" /\ rq[p] \in Requests /\ NumProbes(rq[p]) \in Nat
      /\ at[p] > NumProbes(rq[p]) /\ at[p] \in Nat
  BY <1>0, ProbesFacts DEF Deny, Values, CallType
<1>2. /\ UNCHANGED <<kvstore, rq, jobs, late, orphans>> /\ UNCHANGED failures
      /\ rq' = rq /\ at' = at /\ entry' = entry /\ ever' = ever /\ steady' = steady
      /\ blind' = blind /\ perms' = perms /\ pc' = [pc EXCEPT ![p] = "denied"]
  BY DEF Deny, kvstore, trouble
<1>3. CallType' /\ Alone(p)
  BY <1>0, <1>2 DEF Values, CallType, Alone, Steps
<1>4. pc'[p] = "denied"
  BY <1>0, <1>2 DEF Values, CallType
<1>5. blind[p] \/ steady[p] = {}
  <2>1. /\ steady[p] \subseteq 1..NumProbes(rq[p])
        /\ (blind[p] \/ \A n \in steady[p] : n >= at[p])
    BY <1>0, <1>1 DEF CallInv, SteadyOf, Matching
  <2> QED
    BY <1>1, <2>1
<1>6. EntryOf(p)' /\ EverOf(p)' /\ SteadyOf(p)'
  BY <1>0, <1>1, <1>2, <1>4, <1>5 DEF CallInv, EntryOf, EverOf, SteadyOf
<1> QED
  BY <1>1, <1>2, <1>3, <1>6, Reads

(* IInv is kept by Finish. *)
LEMMA FinishIInv ==
    ASSUME IInv, NEW p \in Procs, Finish(p)
    PROVE  IInv'
<1>0. Values /\ CacheInv /\ CallInv /\ EntryExpires
  BY DEF IInv
<1>1. pc[p] \in {"granted", "denied"} /\ perms' = perms /\ UNCHANGED <<kvstore, jobs, trouble>>
  BY DEF Finish, kvstore
<1>2. StoreType' /\ JobType' /\ TroubleType'
  BY <1>0, <1>1 DEF Values, StoreType, JobType, TroubleType, kvstore, jobs, trouble
<1>3. CallType' /\ Alone(p) /\ pc'[p] = "idle"
  <2>1. AnyRequest \in Requests /\ 1 \in Nat /\ 1 \in 1..NumProbes(AnyRequest) + 1
    BY AnyRequestType, ProbesFacts
  <2>2. /\ pc' \in [Procs -> Steps] /\ rq' \in [Procs -> Requests] /\ at' \in [Procs -> Nat]
        /\ ever' \in [Procs -> BOOLEAN] /\ steady' \in [Procs -> SUBSET Nat]
        /\ blind' \in [Procs -> BOOLEAN] /\ entry' = entry
    BY <1>0, <2>1 DEF Finish, Values, CallType, Steps
  <2>3. Alone(p) /\ pc'[p] = "idle" /\ rq'[p] = AnyRequest /\ at'[p] = 1
    BY <1>0, <2>2 DEF Finish, Values, CallType, Alone
  <2>4. ASSUME NEW r \in Procs
        PROVE  at'[r] \in 1..NumProbes(rq'[r]) + 1
    BY <1>0, <2>1, <2>3 DEF Values, CallType, Alone
  <2> QED
    BY <1>0, <2>2, <2>3, <2>4 DEF Values, CallType
<1>4. (EntryOf(p) /\ EverOf(p) /\ SteadyOf(p))'
  BY <1>3 DEF EntryOf, EverOf, SteadyOf
<1>5. CallInv'
  BY <1>0, <1>1, <1>3, <1>4, OneCall
<1>6. CacheInv' /\ EntryExpires'
  BY <1>0, <1>1, <1>3, CacheSame, ExpiresSame DEF Alone, kvstore, jobs, trouble
<1> QED
  BY <1>2, <1>3, <1>5, <1>6 DEF IInv, Values

(* IInv is kept by CachePut. *)
LEMMA CachePutIInv ==
    ASSUME IInv, NEW p \in Procs, CachePut(p)
    PROVE  IInv'
<1>0. Values /\ CacheInv /\ CallInv /\ EntryExpires
  BY DEF IInv
<1> DEFINE c == getCacheKey(rq[p])
           e == entry[p]
<1>1. /\ pc[p] = "cache" /\ c \in CacheKeys /\ StoredFor(c, e) /\ ever[p]
      /\ UNCHANGED <<jobs, orphans>> /\ perms' = perms /\ ttls' = ttls /\ rq' = rq /\ at' = at
      /\ ever' = ever /\ steady' = steady /\ blind' = blind
      /\ entry' = [entry EXCEPT ![p] = NoEntry]
  BY <1>0, KeyType DEF CachePut, Granted, Values, CallType, CallInv, EntryOf, EverOf
<1>2. e \in Entries
  BY <1>1 DEF StoredFor, Entries
<1>3. \/ /\ cached' = [cached EXCEPT ![c] = e] /\ pc' = [pc EXCEPT ![p] = "ttl"]
         /\ UNCHANGED <<late, failures>>
      \/ /\ TimesOut("cache", c, e) /\ pc' = [pc EXCEPT ![p] = "granted"] /\ cached' = cached
  BY DEF CachePut, Granted
<1> HIDE DEF c, e
<1>4. StoreType' /\ JobType'
  BY <1>0, <1>1, <1>2, <1>3 DEF Values, StoreType, JobType, jobs
<1>5. TroubleType' /\ CacheInv'
  <2>1. CASE cached' = [cached EXCEPT ![c] = e] /\ UNCHANGED <<late, failures>>
    BY <1>0, <1>1, <2>1 DEF Values, StoreType, TroubleType, CacheInv
  <2>2. CASE TimesOut("cache", c, e) /\ cached' = cached
    <3>1. /\ late' \subseteq Write /\ failures' \in 0..MaxFailures
          /\ \A w \in late' : w \in late \/ (w.op = "cache" /\ w.key = c /\ w.val = e)
      BY <1>0, <1>1, <1>2, <2>2, TimesOutOK DEF Values
    <3> QED
      BY <1>0, <1>1, <2>2, <3>1 DEF Values, TroubleType, CacheInv
  <2> QED
    BY <1>3, <2>1, <2>2
<1>6. CallType' /\ Alone(p) /\ pc'[p] \in {"ttl", "granted"}
  BY <1>0, <1>1, <1>3 DEF Values, CallType, Alone, Steps
<1>7. (EntryOf(p) /\ EverOf(p) /\ SteadyOf(p))'
  BY <1>0, <1>1, <1>6 DEF CallInv, EntryOf, EverOf, SteadyOf
<1>8. CallInv'
  BY <1>0, <1>1, <1>6, <1>7, OneCall
<1>9. EntryExpires'
  <2>1. CASE cached' = cached
    BY <1>0, <1>1, <1>6, <2>1, ExpiresSame DEF Alone, jobs
  <2>2. CASE cached' = [cached EXCEPT ![c] = e] /\ pc' = [pc EXCEPT ![p] = "ttl"]
    <3> SUFFICES ASSUME NEW d \in CacheKeys, cached'[d] # Nil
                 PROVE  \/ \E t \in ttls' : t.key = d
                        \/ \E r \in Procs : pc'[r] = "ttl" /\ getCacheKey(rq'[r]) = d
                        \/ victim' = d
                        \/ d \in orphans'
      BY DEF EntryExpires
    <3>1. CASE d = c
      <4>1. pc'[p] = "ttl" /\ getCacheKey(rq'[p]) = d
        BY <1>0, <1>1, <2>2, <3>1 DEF Values, CallType, c
      <4> QED
        BY <4>1
    <3>2. CASE d # c
      <4>1. cached[d] # Nil
        BY <1>0, <2>2, <3>2 DEF Values, StoreType
      <4> QED
        BY <1>0, <1>1, <1>6, <4>1 DEF EntryExpires, Alone, jobs
    <3> QED
      BY <3>1, <3>2
  <2> QED
    BY <1>3, <2>1, <2>2
<1> QED
  BY <1>4, <1>5, <1>6, <1>8, <1>9 DEF IInv, Values

(* IInv is kept by TtlPut. *)
LEMMA TtlPutIInv ==
    ASSUME IInv, NEW p \in Procs, TtlPut(p)
    PROVE  IInv'
<1>0. Values /\ CacheInv /\ CallInv /\ EntryExpires
  BY DEF IInv
<1> DEFINE c == getCacheKey(rq[p])
           t == [key |-> c, expired |-> FALSE]
<1>1. /\ pc[p] = "ttl" /\ c \in CacheKeys /\ ever[p]
      /\ UNCHANGED jobs /\ perms' = perms /\ cached' = cached /\ rq' = rq /\ at' = at
      /\ ever' = ever /\ steady' = steady /\ blind' = blind
      /\ pc' = [pc EXCEPT ![p] = "granted"] /\ entry' = [entry EXCEPT ![p] = NoEntry]
  BY <1>0, KeyType DEF TtlPut, Granted, Values, CallType, CallInv, EverOf
<1>2. \/ ttls' = ttls \cup {t} /\ UNCHANGED <<late, orphans, failures>>
      \/ TimesOut("ttl", c, NoEntry) /\ orphans' = orphans \cup {c} /\ ttls' = ttls
  BY DEF TtlPut
<1>3. t \in [key : CacheKeys, expired : BOOLEAN] /\ t.key = c
  BY <1>1
<1> HIDE DEF c, t
<1>4. StoreType' /\ JobType'
  BY <1>0, <1>1, <1>2, <1>3 DEF Values, StoreType, JobType, jobs
<1>5. TroubleType' /\ CacheInv'
  <2>1. CASE UNCHANGED <<late, orphans, failures>>
    BY <1>0, <1>1, <2>1 DEF Values, TroubleType, CacheInv
  <2>2. CASE TimesOut("ttl", c, NoEntry) /\ orphans' = orphans \cup {c}
    <3>1. /\ late' \subseteq Write /\ failures' \in 0..MaxFailures
          /\ \A w \in late' : w \in late \/ (w.op = "ttl" /\ w.key = c /\ w.val = NoEntry)
      BY <1>0, <1>1, <2>2, TimesOutOK DEF Values
    <3> QED
      BY <1>0, <1>1, <2>2, <3>1 DEF Values, TroubleType, CacheInv
  <2> QED
    BY <1>2, <2>1, <2>2
<1>6. CallType' /\ Alone(p) /\ pc'[p] = "granted"
  BY <1>0, <1>1 DEF Values, CallType, Alone, Steps
<1>7. (EntryOf(p) /\ EverOf(p) /\ SteadyOf(p))'
  BY <1>0, <1>1, <1>6 DEF CallInv, EntryOf, EverOf, SteadyOf
<1>8. CallInv'
  BY <1>0, <1>1, <1>6, <1>7, OneCall
<1>9. EntryExpires'
  <2> SUFFICES ASSUME NEW d \in CacheKeys, cached[d] # Nil
               PROVE  \/ \E x \in ttls' : x.key = d
                      \/ \E r \in Procs : pc'[r] = "ttl" /\ getCacheKey(rq'[r]) = d
                      \/ victim' = d
                      \/ d \in orphans'
    BY <1>1 DEF EntryExpires
  <2>1. CASE d = c
    BY <1>2, <1>3, <2>1
  <2>2. CASE d # c
    <3>1. \/ \E x \in ttls : x.key = d
          \/ \E r \in Procs : pc[r] = "ttl" /\ getCacheKey(rq[r]) = d
          \/ victim = d
          \/ d \in orphans
      BY <1>0 DEF EntryExpires
    <3>2. ASSUME NEW r \in Procs, pc[r] = "ttl" /\ getCacheKey(rq[r]) = d
          PROVE  pc'[r] = "ttl" /\ getCacheKey(rq'[r]) = d
      BY <1>1, <1>6, <2>2, <3>2 DEF Alone, c
    <3> QED
      BY <1>1, <1>2, <3>1, <3>2 DEF jobs
  <2> QED
    BY <2>1, <2>2
<1> QED
  BY <1>4, <1>5, <1>6, <1>8, <1>9 DEF IInv, Values

-----------------------------------------------------------------------------
(* permiss: what the calls remember keeps pace with the permissions.        *)

(* A batch leaves values in the permissions. *)
LEMMA BatchType ==
    ASSUME StoreType, NEW b \in Batches, Permiss(b)
    PROVE  perms' \in [PermKeys -> Value]
<1> SUFFICES ASSUME NEW k \in PermKeys, NEW x \in b, x.key = k
             PROVE  (CHOOSE y \in b : y.key = k).val \in Value
  BY DEF Permiss, StoreType
<1> DEFINE y == CHOOSE z \in b : z.key = k
<1>1. y \in b
  BY Zenon
<1> HIDE DEF y
<1>2. y.val \in Value
  BY <1>1, BatchAssumption DEF Value
<1> QED
  BY <1>2 DEF y

(* IInv is kept by Permiss. *)
LEMMA PermissIInv ==
    ASSUME IInv, NEW b \in Batches, Permiss(b)
    PROVE  IInv'
<1>0. Values /\ CacheInv /\ CallInv /\ EntryExpires
  BY DEF IInv
<1>1. /\ cached' = cached /\ ttls' = ttls /\ pc' = pc /\ rq' = rq /\ at' = at /\ entry' = entry
      /\ blind' = blind /\ UNCHANGED <<jobs, trouble>>
  BY DEF Permiss
<1>2. StoreType' /\ JobType' /\ TroubleType'
  <2>1. perms' \in [PermKeys -> Value]
    BY <1>0, BatchType DEF Values
  <2> QED
    BY <1>0, <1>1, <2>1 DEF Values, StoreType, JobType, TroubleType, jobs, trouble
<1>3. ASSUME NEW p \in Procs
      PROVE  /\ ever'[p] = (ever[p] \/ (pc[p] # "idle" /\ Backed(perms', rq[p])))
             /\ steady'[p] = IF pc[p] = "idle" THEN {} ELSE steady[p] \cap Matching(perms', rq[p])
  BY DEF Permiss
<1>4. CallType'
  <2>1. ever' \in [Procs -> BOOLEAN]
    BY <1>0 DEF Permiss, Values, CallType, Backed
  <2>2. steady' \in [Procs -> SUBSET Nat]
    BY <1>0 DEF Permiss, Values, CallType
  <2> QED
    BY <1>0, <1>1, <2>1, <2>2 DEF Values, CallType
<1>5. ASSUME NEW p \in Procs
      PROVE  (EntryOf(p) /\ EverOf(p) /\ SteadyOf(p))'
  <2>1. EntryOf(p) /\ EverOf(p) /\ SteadyOf(p)
    BY <1>0 DEF CallInv
  <2>2. EntryOf(p)'
    BY <1>1, <2>1 DEF EntryOf
  <2>3. EverOf(p)'
    BY <1>1, <1>3, <2>1 DEF EverOf
  <2>4. SteadyOf(p)'
    BY <1>1, <1>3, <2>1 DEF SteadyOf
  <2> QED
    BY <2>2, <2>3, <2>4
<1>6. CacheInv' /\ EntryExpires'
  BY <1>0, <1>1, CacheSame, ExpiresSame DEF jobs, trouble
<1> QED
  BY <1>2, <1>4, <1>5, <1>6 DEF IInv, Values, CallInv

-----------------------------------------------------------------------------
(* revoke, prune, and writes that arrive late.                              *)

(* IInv is kept by RevokeScan. *)
LEMMA RevokeScanIInv ==
    ASSUME IInv, NEW u \in Users, RevokeScan(u)
    PROVE  IInv'
<1>0. Values /\ CacheInv /\ CallInv /\ EntryExpires
  BY DEF IInv
<1>1. /\ UNCHANGED <<perms, calls>> /\ UNCHANGED <<cached, victim>> /\ ttls' = ttls
      /\ pc' = pc /\ rq' = rq /\ late' = late /\ orphans' = orphans /\ failures' = failures
      /\ perms' = perms /\ todo' = todo /\ rev' = u /\ sweep' \subseteq CacheKeys
  BY DEF RevokeScan, kvstore, trouble, calls
<1>2. StoreType' /\ JobType' /\ TroubleType'
  BY <1>0, <1>1 DEF Values, StoreType, JobType, TroubleType
<1>3. CallType' /\ CallInv' /\ CacheInv' /\ EntryExpires'
  BY <1>0, <1>1, CallsSame, CacheSame, ExpiresSame DEF Values
<1> QED
  BY <1>2, <1>3 DEF IInv, Values

(* IInv is kept by RevokeReturn. *)
LEMMA RevokeReturnIInv ==
    ASSUME IInv, RevokeReturn
    PROVE  IInv'
<1>0. Values /\ CacheInv /\ CallInv /\ EntryExpires
  BY DEF IInv
<1>1. /\ UNCHANGED <<perms, calls>> /\ UNCHANGED <<cached, victim>> /\ ttls' = ttls
      /\ pc' = pc /\ rq' = rq /\ late' = late /\ orphans' = orphans /\ failures' = failures
      /\ perms' = perms /\ todo' = todo /\ rev' = Nil /\ sweep' = sweep
  BY DEF RevokeReturn, kvstore, trouble, calls
<1>2. StoreType' /\ JobType' /\ TroubleType'
  BY <1>0, <1>1 DEF Values, StoreType, JobType, TroubleType
<1>3. CallType' /\ CallInv' /\ CacheInv' /\ EntryExpires'
  BY <1>0, <1>1, CallsSame, CacheSame, ExpiresSame DEF Values
<1> QED
  BY <1>2, <1>3 DEF IInv, Values

(* The entry under c is deleted: by revoke, by prune, or late.              *)
LEMMA Uncached ==
    ASSUME StoreType, EntryExpires, NEW c \in CacheKeys, cached' = [cached EXCEPT ![c] = Nil],
           orphans' = orphans \ {c}, ttls' = ttls, pc' = pc, rq' = rq,
           victim' = victim \/ victim = c
    PROVE  EntryExpires'
<1> SUFFICES ASSUME NEW d \in CacheKeys, cached'[d] # Nil
             PROVE  \/ \E x \in ttls' : x.key = d
                    \/ \E r \in Procs : pc'[r] = "ttl" /\ getCacheKey(rq'[r]) = d
                    \/ victim' = d
                    \/ d \in orphans'
  BY DEF EntryExpires
<1>1. d # c /\ cached[d] # Nil
  BY DEF StoreType
<1> QED
  BY <1>1 DEF EntryExpires

(* IInv is kept by RevokeDelete. *)
LEMMA RevokeDeleteIInv ==
    ASSUME IInv, NEW c \in sweep, RevokeDelete(c)
    PROVE  IInv'
<1>0. Values /\ CacheInv /\ CallInv /\ EntryExpires
  BY DEF IInv
<1>1. c \in CacheKeys
  BY <1>0 DEF Values, JobType
<1>2. /\ UNCHANGED <<perms, calls>> /\ victim' = victim /\ ttls' = ttls /\ pc' = pc /\ rq' = rq
      /\ perms' = perms /\ todo' = todo /\ rev' = rev /\ sweep' = sweep \ {c}
  BY DEF RevokeDelete, calls
<1>3. JobType' /\ CallType' /\ CallInv'
  BY <1>0, <1>2, CallsSame DEF Values, JobType
<1>4. CASE /\ cached' = [cached EXCEPT ![c] = Nil] /\ orphans' = orphans \ {c}
           /\ UNCHANGED <<late, failures>>
  <2>1. StoreType' /\ TroubleType' /\ CacheInv'
    BY <1>0, <1>1, <1>2, <1>4 DEF Values, StoreType, TroubleType, CacheInv
  <2>2. EntryExpires'
    BY <1>0, <1>1, <1>2, <1>4, Uncached DEF Values
  <2> QED
    BY <1>3, <2>1, <2>2 DEF IInv, Values
<1>5. CASE TimesOut("uncache", c, NoEntry) /\ cached' = cached /\ orphans' = orphans
  <2>1. /\ late' \subseteq Write /\ failures' \in 0..MaxFailures
        /\ \A w \in late' : w \in late \/ (w.op = "uncache" /\ w.key = c /\ w.val = NoEntry)
    BY <1>0, <1>1, <1>5, TimesOutOK DEF Values
  <2>2. StoreType' /\ TroubleType' /\ CacheInv'
    BY <1>0, <1>2, <1>5, <2>1 DEF Values, StoreType, TroubleType, CacheInv
  <2>3. EntryExpires'
    BY <1>0, <1>2, <1>5, ExpiresSame
  <2> QED
    BY <1>3, <2>2, <2>3 DEF IInv, Values
<1> QED
  BY <1>4, <1>5 DEF RevokeDelete

(* IInv is kept by Land. *)
LEMMA LandIInv ==
    ASSUME IInv, NEW w \in late, Land(w)
    PROVE  IInv'
<1>0. Values /\ CacheInv /\ CallInv /\ EntryExpires
  BY DEF IInv
<1> DEFINE c == w.key
<1>1. c \in CacheKeys /\ w.op \in {"cache", "ttl", "uncache", "unttl"}
      /\ (w.op = "cache" => StoredFor(c, w.val))
  BY <1>0 DEF Values, TroubleType, Write, CacheInv
<1>2. /\ UNCHANGED <<perms, calls>> /\ victim' = victim /\ pc' = pc /\ rq' = rq
      /\ perms' = perms /\ todo' = todo /\ rev' = rev /\ sweep' = sweep
      /\ late' = late \ {w} /\ failures' = failures
  BY DEF Land, calls, jobs
<1>3. JobType' /\ CallType' /\ CallInv'
  BY <1>0, <1>2, CallsSame DEF Values, JobType
<1> HIDE DEF c
<1>4. CASE /\ w.op = "cache" /\ cached' = [cached EXCEPT ![c] = w.val]
           /\ orphans' = orphans \cup {c} /\ ttls' = ttls
  <2>0. w.val \in Entries
    BY <1>1, <1>4 DEF StoredFor, Entries
  <2>1. StoreType' /\ TroubleType' /\ CacheInv'
    BY <1>0, <1>1, <1>2, <1>4, <2>0 DEF Values, StoreType, TroubleType, CacheInv
  <2>2. EntryExpires'
    <3> SUFFICES ASSUME NEW d \in CacheKeys, d # c, cached'[d] # Nil
                 PROVE  \/ \E x \in ttls' : x.key = d
                        \/ \E r \in Procs : pc'[r] = "ttl" /\ getCacheKey(rq'[r]) = d
                        \/ victim' = d
                        \/ d \in orphans'
      BY <1>4 DEF EntryExpires
    <3>1. cached[d] # Nil
      BY <1>0, <1>4 DEF Values, StoreType
    <3> QED
      BY <1>0, <1>2, <1>4, <3>1 DEF EntryExpires
  <2> QED
    BY <1>3, <2>1, <2>2 DEF IInv, Values
<1>5. CASE /\ w.op = "ttl" /\ ttls' = ttls \cup {[key |-> c, expired |-> FALSE]}
           /\ cached' = cached /\ orphans' = orphans
  <2>1. [key |-> c, expired |-> FALSE] \in [key : CacheKeys, expired : BOOLEAN]
    BY <1>1
  <2>2. StoreType' /\ TroubleType' /\ CacheInv'
    BY <1>0, <1>1, <1>2, <1>5, <2>1 DEF Values, StoreType, TroubleType, CacheInv
  <2>3. EntryExpires'
    BY <1>0, <1>2, <1>5, ExpiresSame
  <2> QED
    BY <1>3, <2>2, <2>3 DEF IInv, Values
<1>6. CASE /\ w.op = "uncache" /\ cached' = [cached EXCEPT ![c] = Nil]
           /\ orphans' = orphans \ {c} /\ ttls' = ttls
  <2>1. StoreType' /\ TroubleType' /\ CacheInv'
    BY <1>0, <1>1, <1>2, <1>6 DEF Values, StoreType, TroubleType, CacheInv
  <2>2. EntryExpires'
    BY <1>0, <1>1, <1>2, <1>6, Uncached DEF Values
  <2> QED
    BY <1>3, <2>1, <2>2 DEF IInv, Values
<1>7. CASE /\ w.op = "unttl" /\ ttls' = ttls \ {[key |-> c, expired |-> TRUE]}
           /\ orphans' = orphans \cup {c} /\ cached' = cached
  <2>1. StoreType' /\ TroubleType' /\ CacheInv'
    BY <1>0, <1>1, <1>2, <1>7 DEF Values, StoreType, TroubleType, CacheInv
  <2>2. EntryExpires'
    <3> SUFFICES ASSUME NEW d \in CacheKeys, d # c, cached[d] # Nil
                 PROVE  \/ \E x \in ttls' : x.key = d
                        \/ \E r \in Procs : pc'[r] = "ttl" /\ getCacheKey(rq'[r]) = d
                        \/ victim' = d
                        \/ d \in orphans'
      BY <1>7 DEF EntryExpires
    <3>1. ASSUME NEW x \in ttls, x.key = d
          PROVE  x \in ttls'
      BY <1>7, <3>1
    <3> QED
      BY <1>0, <1>2, <1>7, <3>1 DEF EntryExpires
  <2> QED
    BY <1>3, <2>1, <2>2 DEF IInv, Values
<1> QED
  BY <1>4, <1>5, <1>6, <1>7 DEF Land, c

(* IInv is kept by Expire. *)
LEMMA ExpireIInv ==
    ASSUME IInv, NEW t \in ttls, Expire(t)
    PROVE  IInv'
<1>0. Values /\ CacheInv /\ CallInv /\ EntryExpires
  BY DEF IInv
<1> DEFINE x == [t EXCEPT !.expired = TRUE]
<1>1. t \in [key : CacheKeys, expired : BOOLEAN]
  BY <1>0 DEF Values, StoreType
<1>2. x \in [key : CacheKeys, expired : BOOLEAN] /\ x.key = t.key
  BY <1>1
<1>3. /\ UNCHANGED <<perms, calls>> /\ cached' = cached /\ victim' = victim /\ pc' = pc /\ rq' = rq
      /\ perms' = perms /\ todo' = todo /\ rev' = rev /\ sweep' = sweep
      /\ late' = late /\ orphans' = orphans /\ failures' = failures
      /\ ttls' = (ttls \ {t}) \cup {x}
  BY DEF Expire, calls, jobs, trouble
<1> HIDE DEF x
<1>4. StoreType' /\ JobType' /\ TroubleType' /\ CallType' /\ CallInv' /\ CacheInv'
  BY <1>0, <1>2, <1>3, CallsSame, CacheSame DEF Values, StoreType, JobType, TroubleType
<1>5. EntryExpires'
  <2> SUFFICES ASSUME NEW d \in CacheKeys, cached[d] # Nil
               PROVE  \/ \E y \in ttls' : y.key = d
                      \/ \E r \in Procs : pc'[r] = "ttl" /\ getCacheKey(rq'[r]) = d
                      \/ victim' = d
                      \/ d \in orphans'
    BY <1>3 DEF EntryExpires
  <2>1. ASSUME NEW y \in ttls, y.key = d
        PROVE  \E z \in ttls' : z.key = d
    <3>1. CASE y = t
      BY <1>2, <1>3, <2>1, <3>1
    <3>2. CASE y # t
      BY <1>3, <2>1, <3>2
    <3> QED
      BY <3>1, <3>2
  <2> QED
    BY <1>0, <1>3, <2>1 DEF EntryExpires
<1> QED
  BY <1>4, <1>5 DEF IInv, Values

(* IInv is kept by PruneScan. *)
LEMMA PruneScanIInv ==
    ASSUME IInv, PruneScan
    PROVE  IInv'
<1>0. Values /\ CacheInv /\ CallInv /\ EntryExpires
  BY DEF IInv
<1>1. /\ UNCHANGED <<perms, calls>> /\ UNCHANGED <<cached, victim>> /\ ttls' = ttls
      /\ pc' = pc /\ rq' = rq /\ late' = late /\ orphans' = orphans /\ failures' = failures
      /\ perms' = perms /\ todo' = {t \in ttls : t.expired} /\ rev' = rev /\ sweep' = sweep
  BY DEF PruneScan, kvstore, trouble, calls
<1>2. todo' \subseteq [key : CacheKeys, expired : {TRUE}]
  <2> SUFFICES ASSUME NEW t \in ttls, t.expired
               PROVE  t \in [key : CacheKeys, expired : {TRUE}]
    BY <1>1
  <2>1. t \in [key : CacheKeys, expired : BOOLEAN]
    BY <1>0 DEF Values, StoreType
  <2>2. t = [key |-> t.key, expired |-> t.expired] /\ t.key \in CacheKeys /\ t.expired = TRUE
    BY <2>1
  <2> QED
    BY <2>2
<1>3. StoreType' /\ JobType' /\ TroubleType'
  BY <1>0, <1>1, <1>2 DEF Values, StoreType, JobType, TroubleType
<1>4. CallType' /\ CallInv' /\ CacheInv' /\ EntryExpires'
  BY <1>0, <1>1, CallsSame, CacheSame, ExpiresSame DEF Values
<1> QED
  BY <1>3, <1>4 DEF IInv, Values

(* IInv is kept by PruneTtl. *)
LEMMA PruneTtlIInv ==
    ASSUME IInv, NEW t \in todo, PruneTtl(t)
    PROVE  IInv'
<1>0. Values /\ CacheInv /\ CallInv /\ EntryExpires
  BY DEF IInv
<1>1. t.key \in CacheKeys /\ victim = Nil
  BY <1>0 DEF Values, JobType, PruneTtl
<1>2. /\ UNCHANGED <<perms, calls>> /\ perms' = perms /\ cached' = cached /\ pc' = pc /\ rq' = rq
      /\ rev' = rev /\ sweep' = sweep /\ orphans' = orphans
  BY DEF PruneTtl, calls
<1>3. CallType' /\ CallInv'
  BY <1>0, <1>2, CallsSame DEF Values
<1>4. CASE /\ ttls' = ttls \ {t} /\ todo' = todo \ {t} /\ victim' = t.key
           /\ UNCHANGED <<late, failures>>
  <2>1. StoreType' /\ JobType' /\ TroubleType' /\ CacheInv'
    BY <1>0, <1>1, <1>2, <1>4 DEF Values, StoreType, JobType, TroubleType, CacheInv
  <2>2. EntryExpires'
    <3> SUFFICES ASSUME NEW d \in CacheKeys, cached[d] # Nil, d # t.key
                 PROVE  \/ \E y \in ttls' : y.key = d
                        \/ \E r \in Procs : pc'[r] = "ttl" /\ getCacheKey(rq'[r]) = d
                        \/ victim' = d
                        \/ d \in orphans'
      BY <1>2, <1>4 DEF EntryExpires
    <3>1. victim # d
      BY <1>1, RequestsAssumption
    <3>2. ASSUME NEW y \in ttls, y.key = d
          PROVE  y \in ttls'
      BY <1>4, <3>2
    <3> QED
      BY <1>0, <1>2, <3>1, <3>2 DEF EntryExpires
  <2> QED
    BY <1>3, <2>1, <2>2 DEF IInv, Values
<1>5. CASE /\ TimesOut("unttl", t.key, NoEntry) /\ todo' = {} /\ ttls' = ttls /\ victim' = victim
  <2>1. /\ late' \subseteq Write /\ failures' \in 0..MaxFailures
        /\ \A w \in late' : w \in late \/ (w.op = "unttl" /\ w.key = t.key /\ w.val = NoEntry)
    BY <1>0, <1>1, <1>5, TimesOutOK DEF Values
  <2>2. StoreType' /\ JobType' /\ TroubleType' /\ CacheInv'
    BY <1>0, <1>2, <1>5, <2>1 DEF Values, StoreType, JobType, TroubleType, CacheInv
  <2>3. EntryExpires'
    BY <1>0, <1>2, <1>5, ExpiresSame
  <2> QED
    BY <1>3, <2>2, <2>3 DEF IInv, Values
<1> QED
  BY <1>4, <1>5 DEF PruneTtl

(* IInv is kept by PruneEntry. *)
LEMMA PruneEntryIInv ==
    ASSUME IInv, PruneEntry
    PROVE  IInv'
<1>0. Values /\ CacheInv /\ CallInv /\ EntryExpires
  BY DEF IInv
<1>1. victim \in CacheKeys /\ victim' = Nil
  BY <1>0 DEF Values, JobType, PruneEntry
<1>2. /\ UNCHANGED <<perms, calls>> /\ perms' = perms /\ ttls' = ttls /\ pc' = pc /\ rq' = rq
      /\ rev' = rev /\ sweep' = sweep
  BY DEF PruneEntry, calls
<1>3. CallType' /\ CallInv'
  BY <1>0, <1>2, CallsSame DEF Values
<1>4. CASE /\ cached' = [cached EXCEPT ![victim] = Nil] /\ orphans' = orphans \ {victim}
           /\ UNCHANGED <<todo, late, failures>>
  <2>1. StoreType' /\ JobType' /\ TroubleType' /\ CacheInv'
    BY <1>0, <1>1, <1>2, <1>4 DEF Values, StoreType, JobType, TroubleType, CacheInv
  <2>2. EntryExpires'
    BY <1>0, <1>1, <1>2, <1>4, Uncached DEF Values
  <2> QED
    BY <1>3, <2>1, <2>2 DEF IInv, Values
<1>5. CASE /\ TimesOut("uncache", victim, NoEntry) /\ todo' = {} /\ orphans' = orphans \cup {victim}
           /\ cached' = cached
  <2>1. /\ late' \subseteq Write /\ failures' \in 0..MaxFailures
        /\ \A w \in late' : w \in late \/ (w.op = "uncache" /\ w.key = victim /\ w.val = NoEntry)
    BY <1>0, <1>1, <1>5, TimesOutOK DEF Values
  <2>2. StoreType' /\ JobType' /\ TroubleType' /\ CacheInv'
    BY <1>0, <1>1, <1>2, <1>5, <2>1 DEF Values, StoreType, JobType, TroubleType, CacheInv
  <2>3. EntryExpires'
    BY <1>0, <1>2, <1>5 DEF EntryExpires
  <2> QED
    BY <1>3, <2>2, <2>3 DEF IInv, Values
<1> QED
  BY <1>4, <1>5 DEF PruneEntry

-----------------------------------------------------------------------------
(* Every step keeps IInv. *)
LEMMA NextIInv == IInv /\ [Next]_vars => IInv'
<1> SUFFICES ASSUME IInv, [Next]_vars
             PROVE  IInv'
  OBVIOUS
<1>1. CASE UNCHANGED vars
  <2>0. Values /\ CacheInv /\ CallInv /\ EntryExpires
    BY DEF IInv
  <2>1. /\ UNCHANGED <<perms, calls>> /\ UNCHANGED <<cached, victim>> /\ ttls' = ttls
        /\ pc' = pc /\ rq' = rq /\ late' = late /\ orphans' = orphans /\ failures' = failures
        /\ perms' = perms /\ todo' = todo /\ rev' = rev /\ sweep' = sweep
    BY <1>1 DEF vars, kvstore, calls, jobs, trouble
  <2>2. StoreType' /\ JobType' /\ TroubleType'
    BY <2>0, <2>1 DEF Values, StoreType, JobType, TroubleType
  <2>3. CallType' /\ CallInv' /\ CacheInv' /\ EntryExpires'
    BY <2>0, <2>1, CallsSame, CacheSame, ExpiresSame DEF Values
  <2> QED
    BY <2>2, <2>3 DEF IInv, Values
<1>2. ASSUME NEW p \in Procs, Authorize(p)
      PROVE  IInv'
  BY <1>2, HitIInv, RecheckIInv, WalkIInv, DenyIInv, CachePutIInv, TtlPutIInv, FinishIInv
     DEF Authorize
<1>3. CASE Prune
  BY <1>3, PruneScanIInv, PruneTtlIInv, PruneEntryIInv DEF Prune
<1> QED
  BY <1>1, <1>2, <1>3, BeginIInv, PermissIInv, RevokeScanIInv, RevokeDeleteIInv,
     RevokeReturnIInv, LandIInv, ExpireIInv DEF Next

(* IInv is an invariant. *)
LEMMA InvariantHolds == Spec => []IInv
BY InitIInv, NextIInv, PTL DEF Spec

(* IInv implies the properties. *)
LEMMA IInvProperties == IInv => TypeOK /\ GrantBacked /\ DenialJustified /\ EntryExpires
<1> SUFFICES ASSUME IInv
             PROVE  TypeOK /\ GrantBacked /\ DenialJustified
  BY DEF IInv
<1>1. Values /\ CallInv
  BY DEF IInv
<1>2. \A k \in PermKeys : perms[k] = Nil \/ perms[k] \in Seq(0..255)
  BY <1>1 DEF Values, StoreType, Value
<1>3. TypeOK
  BY <1>1, <1>2 DEF TypeOK, Values, StoreType, CallType, JobType, TroubleType, Steps, Write
<1>4. GrantBacked
  BY <1>1 DEF GrantBacked, CallInv, EverOf
<1>5. DenialJustified
  BY <1>1 DEF DenialJustified, CallInv, SteadyOf
<1> QED
  BY <1>3, <1>4, <1>5

(* The calls, the jobs and the store keep their types.                      *)
THEOREM TypeCorrect == Spec => []TypeOK
BY InvariantHolds, IInvProperties, PTL

(* authorize grants only what a permission allowed at some moment of the    *)
(* call, whatever the cache held, for any number of calls, changes of       *)
(* permissions, revocations and writes that arrive late.                    *)
THEOREM GrantsAreBacked == Spec => []GrantBacked
BY InvariantHolds, IInvProperties, PTL

(* authorize denies only if a read failed, or no permission matched from    *)
(* its beginning to its end.                                                *)
THEOREM DenialsAreJustified == Spec => []DenialJustified
BY InvariantHolds, IInvProperties, PTL

(* No cache entry is lost to prune but by a write that timed out.           *)
THEOREM EntriesExpire == Spec => []EntryExpires
BY InvariantHolds, IInvProperties, PTL

=============================================================================
