----------------------------- MODULE Permissions -----------------------------
(***************************************************************************)
(* Permission checks (roo/permissions.go) over the replicated store:       *)
(* authorize with its cache of successful checks, permiss, revoke, and the *)
(* expiry of cache entries by ttl records and prune.                       *)
(*                                                                         *)
(* Every read and write of the store is one linearizable step (SyncRead,   *)
(* SyncPropose), any of which may time out.  A read that timed out has no  *)
(* answer; a write that timed out may still be applied at any later time.  *)
(* Requests, permission changes, revocations and the pruner of one node    *)
(* interleave between these steps.                                         *)
(*                                                                         *)
(* Abstracted: the keys "p:...", "c:..." and "ttl:..." are records in      *)
(* separate maps; an expiry time is a flag that is raised when the time    *)
(* has come, and ttl records of one cache key with the same flag are one;  *)
(* names are opaque, and PrefixUsers says which users' cache keys a scan   *)
(* for "c:" and a user's name finds; the values a ReverseScan returns are  *)
(* the ones it read.                                                       *)
(***************************************************************************)
EXTENDS Integers, Sequences, FiniteSets

CONSTANTS
    Procs,                 \* concurrent calls of authorize
    PermKeys,              \* permission keys: [ent, rune, ctx, act]
    Requests,              \* requests: [user, ents, rune, res, act, right]
    Batches,               \* what permiss is called with: sets of [key, val]
    Users,                 \* users that can be revoked
    PrefixUsers,           \* [Users -> SUBSET Users]
    Subpaths,              \* [resource -> Seq(context)]: the paths authorize walks
    NoAct,                 \* "no action": the request is for a right
    Nil,                   \* "no value"
    CacheSeconds,          \* the setting of that name
    PermissionCheckExact,  \* the setting of that name
    MaxFailures            \* bound: failing reads and writes of the store

ASSUME CacheAssumption == CacheSeconds \in Nat
ASSUME BatchAssumption ==
    \A b \in Batches : \A p \in b :
        p.key \in PermKeys /\ (p.val = Nil \/ p.val \in Seq(0..255))
ASSUME FailuresAssumption == MaxFailures \in Nat

VARIABLES
    perms,     \* perms[k]: the value under a permission key, or Nil
    cached,    \* cached[c]: what cache() stored under a cache key, or Nil
    ttls,      \* ttl records: [key, expired]
    pc,        \* pc[p]: the step of a call of authorize
    rq,        \* rq[p]: its request
    at,        \* at[p]: the next probe of its walk
    entry,     \* entry[p]: what hit() returned, or what cache() will store
    ever,      \* ever[p]: a matching permission existed during the call
    steady,    \* steady[p]: probes that matched ever since the call began
    blind,     \* blind[p]: a read failed during the call
    todo,      \* ttl records the pruner has read and not yet handled
    victim,    \* cache key whose ttl record the pruner has just deleted
    rev,       \* user whose revocation is under way, or Nil
    sweep,     \* cache keys revoke has read and not yet deleted
    late,      \* writes that timed out and may still be applied
    orphans,   \* cache keys a write that timed out may have left without ttl
    failures   \* failures so far

kvstore == <<perms, cached, ttls>>
calls == <<pc, rq, at, entry, ever, steady, blind>>
jobs == <<todo, victim, rev, sweep>>
trouble == <<late, orphans, failures>>
vars == <<kvstore, calls, jobs, trouble>>

-----------------------------------------------------------------------------
(* The comparison of a stored value with a requested one.                   *)

HasBit(byte, b) == (byte \div (2^b)) % 2 = 1

bitwiseAnd(x, y) ==
    /\ Len(x) = Len(y)
    /\ \E i \in 1..Len(x), b \in 0..7 : HasBit(x[i], b) /\ HasBit(y[i], b)

(* The loop runs from the last byte and stops at the first index where      *)
(* either of its conditions holds.                                          *)
bitwiseGreaterOrEqual(gte, ste) ==
    LET stops == {i \in 1..Len(gte) : gte[i] >= ste[i] \/ ste[i] > 0}
    IN /\ Len(gte) = Len(ste)
       /\ \E i \in stops : (\A j \in stops : j <= i) /\ gte[i] >= ste[i]

(* checkPermission, on the value its read returned.                         *)
checkPermission(stored, val) ==
    /\ stored # Nil
    /\ Len(stored) > 0
    /\ \/ Len(stored) = 1 /\ HasBit(stored[1], 0)
       \/ IF PermissionCheckExact THEN bitwiseAnd(stored, val)
          ELSE bitwiseGreaterOrEqual(val, stored)

-----------------------------------------------------------------------------
(* Requests.                                                                *)

Wanted(q) == IF q.act # NoAct THEN <<1>> ELSE q.right

(* The entities in the order authorize tries them, and its probes: every    *)
(* entity for every part of the path.                                       *)
Tried(q) == <<q.user>> \o SelectSeq(q.ents, LAMBDA e : e # q.user)
NumProbes(q) == Len(Subpaths[q.res]) * Len(Tried(q))
Probe(q, n) ==
    [ent |-> Tried(q)[((n - 1) % Len(Tried(q))) + 1],
     rune |-> q.rune,
     ctx |-> Subpaths[q.res][((n - 1) \div Len(Tried(q))) + 1]]

(* The key a probe reads: the empty path is the root.                       *)
getPermissionString(q, e) ==
    [ent |-> e.ent, rune |-> e.rune, ctx |-> IF e.ctx = "" THEN "/" ELSE e.ctx, act |-> q.act]

(* The key a cache hit reads: the cached entry as it stands.                *)
HitKey(q, e) == [ent |-> e.ent, rune |-> e.rune, ctx |-> e.ctx, act |-> q.act]

StoredAt(ps, k) == IF k \in PermKeys THEN ps[k] ELSE Nil

(* The cache key holds the action or, without one, the right, and never the *)
(* rune of the resource.                                                    *)
getCacheKey(q) ==
    [user |-> q.user, res |-> q.res, act |-> q.act,
     right |-> IF q.act # NoAct THEN <<>> ELSE q.right]

CacheKeys == {getCacheKey(q) : q \in Requests}

ASSUME RequestsAssumption ==
    /\ Requests # {} /\ Nil \notin CacheKeys
    /\ \A q \in Requests : q.ents \in Seq({q.ents[i] : i \in DOMAIN q.ents})

Entries == UNION {{Probe(q, n) : n \in 1..NumProbes(q)} : q \in Requests}

(* Probes of q that match in the permissions ps.                            *)
Matching(ps, q) ==
    {n \in 1..NumProbes(q) :
        checkPermission(StoredAt(ps, getPermissionString(q, Probe(q, n))), Wanted(q))}

(* A permission for one of q's entities on a part of q's path, under any    *)
(* rune: what a grant must rest on.                                         *)
Backed(ps, q) ==
    \E k \in PermKeys, n \in 1..NumProbes(q) :
        /\ k.ent = Probe(q, n).ent
        /\ k.ctx \in {Probe(q, n).ctx, getPermissionString(q, Probe(q, n)).ctx}
        /\ k.act = q.act
        /\ checkPermission(ps[k], Wanted(q))

-----------------------------------------------------------------------------
AnyRequest == CHOOSE q \in Requests : TRUE
NoEntry == [ent |-> Nil, rune |-> Nil, ctx |-> Nil]

Init ==
    /\ perms = [k \in PermKeys |-> Nil]
    /\ cached = [c \in CacheKeys |-> Nil]
    /\ ttls = {}
    /\ pc = [p \in Procs |-> "idle"]
    /\ rq = [p \in Procs |-> AnyRequest]
    /\ at = [p \in Procs |-> 1]
    /\ entry = [p \in Procs |-> NoEntry]
    /\ ever = [p \in Procs |-> FALSE]
    /\ steady = [p \in Procs |-> {}]
    /\ blind = [p \in Procs |-> FALSE]
    /\ todo = {} /\ victim = Nil /\ rev = Nil /\ sweep = {}
    /\ late = {} /\ orphans = {}
    /\ failures = 0

(* A read or a write times out; the write is on its way.                    *)
MayFail == failures < MaxFailures /\ failures' = failures + 1
TimesOut(op, c, e) == MayFail /\ late' = late \cup {[op |-> op, key |-> c, val |-> e]}

(* It is applied after all.  An entry stored, or a ttl record deleted, this *)
(* way has nobody who looks after the other half.                           *)
Land(w) ==
    /\ w \in late
    /\ late' = late \ {w}
    /\ \/ /\ w.op = "cache"
          /\ cached' = [cached EXCEPT ![w.key] = w.val]
          /\ orphans' = orphans \cup {w.key}
          /\ UNCHANGED ttls
       \/ /\ w.op = "ttl"
          /\ ttls' = ttls \cup {[key |-> w.key, expired |-> FALSE]}
          /\ UNCHANGED <<cached, orphans>>
       \/ /\ w.op = "uncache"
          /\ cached' = [cached EXCEPT ![w.key] = Nil]
          /\ orphans' = orphans \ {w.key}
          /\ UNCHANGED ttls
       \/ /\ w.op = "unttl"
          /\ ttls' = ttls \ {[key |-> w.key, expired |-> TRUE]}
          /\ orphans' = orphans \cup {w.key}
          /\ UNCHANGED cached
    /\ UNCHANGED <<perms, calls, jobs, failures>>

-----------------------------------------------------------------------------
(* authorize.                                                               *)

Begin(p, q) ==
    /\ pc[p] = "idle"
    /\ rq' = [rq EXCEPT ![p] = q]
    /\ at' = [at EXCEPT ![p] = 1]
    /\ ever' = [ever EXCEPT ![p] = Backed(perms, q)]
    /\ steady' = [steady EXCEPT ![p] = Matching(perms, q)]
    /\ blind' = [blind EXCEPT ![p] = FALSE]
    /\ pc' = [pc EXCEPT ![p] = IF CacheSeconds > 0 THEN "hit" ELSE "walk"]
    /\ UNCHANGED <<kvstore, entry, jobs, trouble>>

(* hit(), and the test that the cached entity is still one of ours.  A      *)
(* failed read is a miss.                                                   *)
Hit(p) ==
    LET q == rq[p]
        e == cached[getCacheKey(q)]
    IN /\ pc[p] = "hit"
       /\ \/ UNCHANGED failures
             /\ IF e # Nil /\ \E i \in 1..Len(Tried(q)) : Tried(q)[i] = e.ent
                THEN pc' = [pc EXCEPT ![p] = "recheck"] /\ entry' = [entry EXCEPT ![p] = e]
                ELSE pc' = [pc EXCEPT ![p] = "walk"] /\ UNCHANGED entry
          \/ MayFail
             /\ pc' = [pc EXCEPT ![p] = "walk"]
             /\ UNCHANGED entry
       /\ UNCHANGED <<kvstore, rq, at, ever, steady, blind, jobs, late, orphans>>

Granted(p) == pc' = [pc EXCEPT ![p] = "granted"] /\ entry' = [entry EXCEPT ![p] = NoEntry]

(* Mutant: a cache hit is an answer.                                        *)
Recheck_Trusts(p) ==
    /\ pc[p] = "recheck"
    /\ Granted(p)
    /\ UNCHANGED <<kvstore, rq, at, ever, steady, blind, jobs, trouble>>

(* Mutant: a hit whose permission is gone is a denial.                      *)
Recheck_Denies(p) ==
    /\ pc[p] = "recheck"
    /\ pc' = [pc EXCEPT ![p] =
                IF checkPermission(StoredAt(perms, HitKey(rq[p], entry[p])), Wanted(rq[p]))
                THEN "granted" ELSE "denied"]
    /\ entry' = [entry EXCEPT ![p] = NoEntry]
    /\ UNCHANGED <<kvstore, rq, at, ever, steady, blind, jobs, trouble>>

(* The permission behind the cached entry is read again.                    *)
Recheck(p) ==
    /\ pc[p] = "recheck"
    /\ \/ /\ checkPermission(StoredAt(perms, HitKey(rq[p], entry[p])), Wanted(rq[p]))
          /\ Granted(p)
          /\ UNCHANGED <<blind, failures>>
       \/ /\ ~checkPermission(StoredAt(perms, HitKey(rq[p], entry[p])), Wanted(rq[p]))
          /\ pc' = [pc EXCEPT ![p] = "walk"]
          /\ entry' = [entry EXCEPT ![p] = NoEntry]
          /\ UNCHANGED <<blind, failures>>
       \/ /\ MayFail
          /\ pc' = [pc EXCEPT ![p] = "walk"]
          /\ entry' = [entry EXCEPT ![p] = NoEntry]
          /\ blind' = [blind EXCEPT ![p] = TRUE]
    /\ UNCHANGED <<kvstore, rq, at, ever, steady, jobs, late, orphans>>

(* One probe of the walk.  A failed read counts as "no permission".         *)
Walk(p) ==
    LET q == rq[p]
        e == Probe(q, at[p])
    IN /\ pc[p] = "walk"
       /\ at[p] <= NumProbes(q)
       /\ \/ /\ checkPermission(StoredAt(perms, getPermissionString(q, e)), Wanted(q))
             /\ IF CacheSeconds <= 1
                THEN Granted(p)
                ELSE pc' = [pc EXCEPT ![p] = "cache"] /\ entry' = [entry EXCEPT ![p] = e]
             /\ UNCHANGED <<at, blind, failures>>
          \/ /\ ~checkPermission(StoredAt(perms, getPermissionString(q, e)), Wanted(q))
             /\ at' = [at EXCEPT ![p] = @ + 1]
             /\ UNCHANGED <<pc, entry, blind, failures>>
          \/ /\ MayFail
             /\ at' = [at EXCEPT ![p] = @ + 1]
             /\ blind' = [blind EXCEPT ![p] = TRUE]
             /\ UNCHANGED <<pc, entry>>
       /\ UNCHANGED <<kvstore, rq, ever, steady, jobs, late, orphans>>

(* The walk is over.                                                        *)
Deny(p) ==
    /\ pc[p] = "walk"
    /\ at[p] > NumProbes(rq[p])
    /\ pc' = [pc EXCEPT ![p] = "denied"]
    /\ UNCHANGED <<kvstore, rq, at, entry, ever, steady, blind, jobs, trouble>>

(* cache(): the entry first; if that fails there is no ttl record either.   *)
CachePut(p) ==
    /\ pc[p] = "cache"
    /\ \/ /\ cached' = [cached EXCEPT ![getCacheKey(rq[p])] = entry[p]]
          /\ pc' = [pc EXCEPT ![p] = "ttl"]
          /\ entry' = [entry EXCEPT ![p] = NoEntry]
          /\ UNCHANGED <<late, failures>>
       \/ /\ TimesOut("cache", getCacheKey(rq[p]), entry[p])
          /\ Granted(p)
          /\ UNCHANGED cached
    /\ UNCHANGED <<perms, ttls, rq, at, ever, steady, blind, jobs, orphans>>

(* Mutant: no ttl record for an entry.                                      *)
TtlPut_Skipped(p) ==
    /\ pc[p] = "ttl"
    /\ Granted(p)
    /\ UNCHANGED <<kvstore, rq, at, ever, steady, blind, jobs, trouble>>

(* ttl(): its error is dropped by cache().                                  *)
TtlPut(p) ==
    /\ pc[p] = "ttl"
    /\ Granted(p)
    /\ \/ /\ ttls' = ttls \cup {[key |-> getCacheKey(rq[p]), expired |-> FALSE]}
          /\ UNCHANGED <<late, orphans, failures>>
       \/ /\ TimesOut("ttl", getCacheKey(rq[p]), NoEntry)
          /\ orphans' = orphans \cup {getCacheKey(rq[p])}
          /\ UNCHANGED ttls
    /\ UNCHANGED <<perms, cached, rq, at, ever, steady, blind, jobs>>

(* The caller has its answer.                                               *)
Finish(p) ==
    /\ pc[p] \in {"granted", "denied"}
    /\ pc' = [pc EXCEPT ![p] = "idle"]
    /\ rq' = [rq EXCEPT ![p] = AnyRequest]
    /\ at' = [at EXCEPT ![p] = 1]
    /\ ever' = [ever EXCEPT ![p] = FALSE]
    /\ steady' = [steady EXCEPT ![p] = {}]
    /\ blind' = [blind EXCEPT ![p] = FALSE]
    /\ UNCHANGED <<kvstore, entry, jobs, trouble>>

-----------------------------------------------------------------------------
(* permiss: one batch, applied atomically.  A batch that times out and is   *)
(* applied late is a later Permiss; one that is lost changes nothing.       *)
Permiss(b) ==
    /\ perms' = [k \in PermKeys |->
                    IF \E p \in b : p.key = k THEN (CHOOSE p \in b : p.key = k).val ELSE perms[k]]
    /\ ever' = [p \in Procs |-> ever[p] \/ (pc[p] # "idle" /\ Backed(perms', rq[p]))]
    /\ steady' = [p \in Procs |->
                    IF pc[p] = "idle" THEN {} ELSE steady[p] \cap Matching(perms', rq[p])]
    /\ UNCHANGED <<cached, ttls, pc, rq, at, entry, blind, jobs, trouble>>

(* revoke: a scan of the user's cache entries, then their deletion one by   *)
(* one; a deletion that fails is skipped.                                   *)
RevokeScan(u) ==
    /\ rev = Nil
    /\ rev' = u
    /\ sweep' = {c \in CacheKeys : cached[c] # Nil /\ c.user \in PrefixUsers[u]}
    /\ UNCHANGED <<kvstore, calls, todo, victim, trouble>>

RevokeDelete(c) ==
    /\ c \in sweep
    /\ sweep' = sweep \ {c}
    /\ \/ /\ cached' = [cached EXCEPT ![c] = Nil]
          /\ orphans' = orphans \ {c}
          /\ UNCHANGED <<late, failures>>
       \/ /\ TimesOut("uncache", c, NoEntry)
          /\ UNCHANGED <<cached, orphans>>
    /\ UNCHANGED <<perms, ttls, calls, todo, victim, rev>>

RevokeReturn ==
    /\ rev # Nil /\ sweep = {}
    /\ rev' = Nil
    /\ UNCHANGED <<kvstore, calls, todo, victim, sweep, trouble>>

-----------------------------------------------------------------------------
(* Expiry.                                                                  *)

(* CacheSeconds have passed since the record was written.                   *)
Expire(t) ==
    /\ t \in ttls /\ ~t.expired
    /\ ttls' = (ttls \ {t}) \cup {[t EXCEPT !.expired = TRUE]}
    /\ UNCHANGED <<perms, cached, calls, jobs, trouble>>

(* prune: the reverse scan up to now; a scan that fails is no scan.         *)
PruneScan ==
    /\ todo = {} /\ victim = Nil
    /\ todo' = {t \in ttls : t.expired}
    /\ todo' # {}
    /\ UNCHANGED <<kvstore, calls, victim, rev, sweep, trouble>>

(* Mutant: the record itself is taken for the key of its entry.             *)
PruneTtl_RecordAsKey(t) ==
    /\ t \in todo /\ victim = Nil
    /\ ttls' = ttls \ {t}
    /\ todo' = todo \ {t}
    /\ victim' = t
    /\ UNCHANGED <<perms, cached, calls, rev, sweep, trouble>>

(* For every record found: the record goes first, its entry next; an error  *)
(* ends the call.                                                           *)
PruneTtl(t) ==
    /\ t \in todo /\ victim = Nil
    /\ \/ /\ ttls' = ttls \ {t}
          /\ todo' = todo \ {t}
          /\ victim' = t.key
          /\ UNCHANGED <<late, failures>>
       \/ /\ TimesOut("unttl", t.key, NoEntry)
          /\ todo' = {}
          /\ UNCHANGED <<ttls, victim>>
    /\ UNCHANGED <<perms, cached, calls, rev, sweep, orphans>>

PruneEntry ==
    /\ victim # Nil
    /\ victim' = Nil
    /\ \/ /\ cached' = [cached EXCEPT ![victim] = Nil]
          /\ orphans' = orphans \ {victim}
          /\ UNCHANGED <<todo, late, failures>>
       \/ /\ TimesOut("uncache", victim, NoEntry)
          /\ todo' = {}
          /\ orphans' = orphans \cup {victim}
          /\ UNCHANGED cached
    /\ UNCHANGED <<perms, ttls, calls, rev, sweep>>

Authorize(p) ==
    \/ Hit(p) \/ Recheck(p) \/ Walk(p) \/ Deny(p)
    \/ CachePut(p) \/ TtlPut(p) \/ Finish(p)

Prune == PruneScan \/ (\E t \in todo : PruneTtl(t)) \/ PruneEntry

Next ==
    \/ \E p \in Procs, q \in Requests : Begin(p, q)
    \/ \E p \in Procs : Authorize(p)
    \/ \E b \in Batches : Permiss(b)
    \/ \E u \in Users : RevokeScan(u)
    \/ \E c \in sweep : RevokeDelete(c)
    \/ RevokeReturn
    \/ \E w \in late : Land(w)
    \/ \E t \in ttls : Expire(t)
    \/ Prune

Spec == Init /\ [][Next]_vars

-----------------------------------------------------------------------------
(* Properties.                                                              *)

TypeOK ==
    /\ \A k \in PermKeys : perms[k] = Nil \/ perms[k] \in Seq(0..255)
    /\ cached \in [CacheKeys -> Entries \cup {Nil}]
    /\ ttls \subseteq [key : CacheKeys, expired : BOOLEAN]
    /\ pc \in [Procs -> {"idle", "hit", "recheck", "walk", "cache", "ttl", "granted", "denied"}]
    /\ rq \in [Procs -> Requests]
    /\ \A p \in Procs : at[p] \in 1..NumProbes(rq[p]) + 1
    /\ entry \in [Procs -> Entries \cup {NoEntry}]
    /\ todo \subseteq [key : CacheKeys, expired : {TRUE}]
    /\ victim \in CacheKeys \cup {Nil}
    /\ rev \in Users \cup {Nil}
    /\ sweep \subseteq CacheKeys /\ orphans \subseteq CacheKeys
    /\ late \subseteq [op : {"cache", "ttl", "uncache", "unttl"}, key : CacheKeys,
                        val : Entries \cup {NoEntry}]
    /\ failures \in 0..MaxFailures

(* A request is granted only if, at some moment of the call, the store held *)
(* a permission for one of its entities on a part of its path that          *)
(* checkPermission accepts: however stale the cache is when hit() reads it. *)
GrantBacked == \A p \in Procs : pc[p] = "granted" => ever[p]

(* A request is denied only if a read failed or no permission matched from  *)
(* its beginning to its end: neither a stale cache entry nor a change       *)
(* behind the walk loses a permission that was there all the time.          *)
DenialJustified == \A p \in Procs : pc[p] = "denied" => blind[p] \/ steady[p] = {}

(* Every cache entry will be found by prune: it has a ttl record, or one is *)
(* about to be written, or the pruner holds it, unless the write of the ttl *)
(* record or the deletion of the entry failed.                              *)
EntryExpires ==
    \A c \in CacheKeys : cached[c] # Nil =>
        \/ \E t \in ttls : t.key = c
        \/ \E p \in Procs : pc[p] = "ttl" /\ getCacheKey(rq[p]) = c
        \/ victim = c
        \/ c \in orphans

(* "Delete a permission": when revoke has deleted all it read, the user has *)
(* no permission left.                                                      *)
RevokeDeletesPermissions ==
    \A w \in Users : rev = w /\ sweep = {} =>
        \A k \in PermKeys : k.ent = w => perms[k] = Nil
=============================================================================
