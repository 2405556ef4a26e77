# Verification of roo

roo is a transparent proxy for container clusters: every node runs an HTTPS
proxy, an HTTP API and one replica of a Raft-replicated key-value store
(dragonboat) that holds routes, certificates, permissions and cluster state.
This directory models the parts of roo that carry its own logic in TLA+, checks
them with TLC on small instances, and proves with TLAPS, for every value of the
constants, every invariant of the passing runs and the refinement of the abstract
replica. Liveness is only model-checked. Line numbers are those of `src/roo/`.

## Inventory

| Component | State it keeps | Operations | Talks to | What is hard |
|---|---|---|---|---|
| On-disk state machine (`kvdisk.go`) | node directory: `current`, `current.updating`, one directory per Pebble database; `lastApplied`, `d.db` | Open, Update, PrepareSnapshot, SaveSnapshot, RecoverFromSnapshot, Close | called by the Raft library | kills and power losses between any two file operations; replay after a restart; snapshots beside updates |
| Database handle (`kvdisk.go`) | atomic pointer `d.db`, per-handle RWMutex and `closed`, `d.closed` | Lookup (Get, Scan, ReverseScan), swap by recovery, Close | called by the Raft library's readers | readers against swap and close |
| Permissions (`permissions.go`, `utils.go`) | in the store: `p:` permissions, `c:` cache entries, `ttl:` records | authorize (hit, cache, ttl), permiss, revoke, prune | store, API routes, prune loop of main | stale cache entries, changes during a walk, half-done writes, writes applied after a timeout |
| Admission and API routes (`roo.go`) | `connc` tokens, main's `err`, daily counts | one handler per route, proxy handler, check | every other component | handlers run concurrently and share `err` and the pool; panics |
| Discovery and bootstrap (`kv.go`) | replica ID, `initialMembers`, `olderThan`, `waited`, `com.roo.started` | connect | status, kv and join routes of the peers, StartOnDiskReplica | nodes start in any order, restart with a new ID, clocks differ, answers get lost |
| Membership and join (`kv.go`) | Raft membership, peer keys | SERVE_POST_JOIN | Raft membership, store | handlers that outlive the process they serve |
| Key-value API (`kv.go`) | none | execute, serve | store | pass-through |
| Raft watcher (`kvwatcher.go`, `network.go`) | pingCache | ping members, delete silent ones | status routes, Raft membership | leadership changes, grace period |
| Swarm routes (`kvdocker.go`, `docker.go`) | swarm manager and worker keys, host keys | updateFromSwarm, runSwarmWorker | Docker, store | updates that overtake each other, ignored errors |
| Proxy and host policy (`proxy.go`, `roo.go`) | Proxies, ProxyCache, HostCache | Proxy, HostPolicy | store | unlocked map, negative caching |
| Certificate cache (`kvcache.go`) | CertCache | Get, Put, Delete | store | two caches of one value |
| NATS notifier (`nats.go`), buffer pool, configuration, types, load test | none of their own | | | |

What makes them correct, in one line each: the state machine holds exactly the
prefix of the log it has reported, whatever stops it; a query never touches a
closed database; a grant rests on a permission that was there; a cache entry
goes away; a token comes back; a set of nodes forms one cluster; only dead
members are removed; routes and certificates follow the store.

`PROJECT.json` lists the hazards of the code, each at its line, with the
properties that watch it.

## Modules

| Module | Models | Role |
|---|---|---|
| `ReplicaState` | what Raft may rely on from a replica's disk | abstract specification |
| `DiskKV` | the on-disk state machine and its crashes | core; implements `ReplicaState` |
| `DbHandle` | queries against swap and close | component |
| `Permissions` | permission checks and their cache | component, on an atomic store |
| `Admission` | tokens, shared `err`, daily limit | component |
| `Discovery` | connect: how nodes bootstrap or join | component, on an abstract Raft |
| `Membership` | the join handler and the watcher of the leader | component, on Raft's membership changes |
| `Swarm` | from docker's labels to the routes in the store | component |
| `Proxy` | Proxy() with its map and cache, HostPolicy with its cache | component |
| `Routing` | `Swarm` and `Proxy` over one store | composition |
| `CertCache` | autocert's cache: Get, Put, Delete on several nodes | component |
| `...Proofs` | | theorems about the component, or about `Routing` |
| `MC...` | | constants for TLC |

### DiskKV

State. `fs` is the node directory as the running system sees it and `durable`
as it was last synced; each holds the two pointer files and the set of database
directories. `store[d]` is the content of the Pebble database in `d`; a batch
applied with Sync is atomic and durable. `log` and `hist` are the committed log
and what each of its prefixes means. `pc` is the step a call is at; `db`,
`lastApplied`, `wb`, `old`, `new` are the variables of the code; `raftApplied`
is the index the Raft library has reached, which runs ahead of `lastApplied`
when it keeps entries to itself. `acked` is the highest index a completed call
has reported.

Actions. One per step of a call that a crash can separate from the next:
Open (`OpenNew` or `OpenExisting`, `CleanupDir`, `OpenLoad`, `OpenCreate`), the
current-file protocol that Open and recovery share (`SaveCreate` ...
`ReplaceDirSync`), Update (`UpdateBegin`, `UpdateEntry`, `UpdateApply`,
`UpdateReturn`), snapshots, recovery (`RecoverBegin` ... `RecoverReturn`),
`ReturnError`, `Close`; `Kill` and `PowerLoss` stop the machine anywhere.
A kill loses the memory. A power loss also keeps or loses each directory entry
changed since the last sync, and leaves an unsynced file with its content or
torn.

Abstractions. A log entry is its net effect on the keys. A value is a natural
number, because `appliedIndexKey` lies in the same key space and is decoded as
one. What the Raft library does (consecutive entries, no overlap of recovery
with Update or SaveSnapshot, snapshots only from a longer prefix) is modelled
from the way the code relies on it. The snapshots of the peers are written by the
same code (`Offered`). A sync that fails is not modelled.

Which directory is opened. The name of the node directory holds the replica ID,
and every process draws its ID anew from 65534 (`kv.go:119`). A crash followed by
`OpenExisting` therefore stands for a start that draws an ID this host has had
before. A start with any other ID is `OpenNew` on an empty directory, which is
`Init`; what the old directory held is then of no use to it, and the replica is a
new member that Raft brings up to date. The theorems about restarts are about
the first kind of start, which is what Open's branch for an existing directory
and the current-file protocol are written for. This is also the weight of one
window of the code: a process killed in its first Open between the rename of
`current` and createDB (`kvdisk.go:358-362`) leaves a directory on which Open panics, but only a start
that draws the same ID meets it, and `LostBeforeFirstAck` shows that nothing had
been reported from it.

`mode` says which faults a machine suffers: kills only, power losses only, or
both; the run has all three. With both, a kill after the rename and before its
sync leaves a visible `current` that Open never syncs, so a later power loss may
undo it after indexes have been reported on it. `AckedSurvives` therefore speaks
of the first two modes, and the abstract replica has a machine that is `"steady"`
or `"fickle"`: on a fickle one (both) the disk may fall back to a shorter prefix
(`FallBack`), on a steady one never.

### DbHandle

`ptr` is `d.db`, `dclosed` is `d.closed`, `closed`, `open` and `writer` belong
to a handle. A reader loads the pointer, takes the read lock, tests `closed`,
reads, and (Get, Scan) tests `d.closed` after the lock is released. ReverseScan
takes no lock. Recovery and Close swap the pointer first and close the old
handle under the write lock. Go's RWMutex lets no new reader in while a writer
waits.

### Permissions

`perms`, `cached` and `ttls` are the three kinds of keys. A call of authorize
takes one step per access to the store: `Hit`, `Recheck`, `Walk` (one probe
each: every entity for every part of the path), `CachePut`, `TtlPut`. `Permiss`
is one atomic batch; revoke and prune take one step per deletion. Reads may time
out; a write that times out goes to `late` and may be applied by `Land` at any
later time. `ever`, `steady`, `blind` and `orphans` record what happened during
a call, for the properties. Two facts of the code show in the model: the cache
key holds neither the rune of the resource nor, when an action is named, the
right, so a hit may serve a request for another rune (`GrantBacked` accepts a
permission under any rune; a request with an action is not checked for its right
anywhere); and an entry
cached for the root has an empty context, under which no permission is found
again, so it never helps.

### Admission

`connc` is the number of tokens. An API handler takes a token, assigns the
shared `err`, tests it, reads it again for the message, puts the token back; the
proxy handler takes a token, reads and writes the daily count in two steps and
forwards. Panics (a refused join, an aborted proxy response) end a handler
without the last step; so does the return on the daily limit. While the API
serves, main still connects the cluster, the notifiers and the consumers and
assigns the same `err` (`KvConnect`, `KvTest`, `NatsConnect`, `NatsTest`, lines
464, 509 and 536); until `configuration.API` is set the API answers 200 and does
nothing, and the proxy comes last. A handler's assignment between main's own and
main's test can make main give up a service it is connected to. The other way
round main is safe: a failed connect leaves Session nil, which it tests too.
`lost`, `missed`, `passed`, `raced` and `result` record what happened, for the
properties.

### Discovery

`node[n]` is the process on `n`: how far connect() has come (`pc`) and its
variables `ReplicaID` (`id`), `Instantiated` (`inst`), `olderThan` (`older`),
`initialMembers` (`members`), `bootstrap` (`boot`), `readyToJoin` (`ready`),
`waited`. One step per request to a peer: the status (`PollFail`, `PollBad`,
`PollOk`), the read of `com.roo.started` (`CheckStarted`), the join (`Join`).
`Verdict` is the end of a round, `NextHost` the loop. `StartBootstrap` and
`StartJoin` are StartOnDiskReplica, `PutStarted` the goroutine that announces
the cluster. A node with no other hosts runs no round and goes from the draw of
its ID straight to the verdict. A process may end anywhere and come back with a
new ID (`Restart`). A cluster is known by the list it was founded with, since that
is what decides whether two bootstraps are one cluster; it serves while a majority
of its present members runs. Members come and go: a join handler adds one, may
delete the host's old one without waiting and then fail to add (`AddMember`,
`OnlyDelete`), and the watcher of a leader removes a member whose host does not
answer a ping (`Prune`). A peer whose API has no session yet answers a join with
200 and does nothing (`Unready`); the joiner then runs a replica that no cluster
has.

What the code does not promise shows in the properties' exceptions. A status is
served before the ID is drawn, so an early reader puts the ID 0 into its list; a
bad answer drops a host from it; the ID of a process that has ended since stays
in it. A read of the started key that fails counts as "no cluster", and a node
then bootstraps beside a running cluster; that the two cannot serve apart rests
on the list holding every host that has answered, started ones too, and on at
most one node having been taken from the two clusters (`NoSplitBrain`). The bound
is tight: with two nodes gone, three faults lead two nodes to two clusters that
serve apart, since one of them was shrunk to a single member. A node that has joined and is
then found to be the oldest (its clock is behind everybody's) bootstraps with an
empty list and retries for ever: `EmptyListOnlyIfOldest` says that this is the
only way there.

### Membership

`conf` and `removed` are Raft's members and former members, `changes` the
requests it has not decided, `peer[h]` the peer key of a host. A replica ID is
the host and the number of its process. A join handler reads the key
(`JoinGet`), asks for the old replica to be deleted without waiting
(`JoinDelete`), asks for the new one to be added (`JoinAdd`), waits, and stores
the key (`JoinPut`). The watcher takes the members at its tick and pings their
hosts one by one; `Overdue` evaluates the comparison of `kvwatcher.go:100` as Go
does, where `*10^9` is an exclusive or, so a silent host is removed at its first
failed ping. `pruned` records the removals that are nobody's fault but the
watcher's or that of a handler working for an ended process.

### Swarm, Proxy, Routing

`docker[o]` is the set of destinations of the tasks that docker lists for an
origin: it lists old and stopped tasks too, and the code neither filters them nor
removes duplicates. `Swarm` has the role key a manager writes once (`Boot`), the
leader's `Tick` and `Post`, and the goroutines that `Write` every listed
destination, in docker's order, which is any: several may be at work, an older one
may write last, and every refresh may write an origin's destinations in turn. So
the routes come to name a listed task, not the newest. `GetKey` and `RequestKey` are the two ways the code
builds one key, from labels and from a request; an origin is its scheme and
port. `Proxy` has one step per access to the map `Proxies`, `ProxyCache` and the
store. Concurrent access to the map may end the process (`Fatal`). `Scan` and
`Forget` are HostPolicy and the four minutes its answers are kept
(`src/README.md:388` mentions the four minutes of a refusal). `Routing` joins the two on `routes`.

### CertCache

A value is the number of the Put that wrote it; `hist` is what the store has
applied. An entry of the cache holds bytes when Get set it and a pointer when
Put did: Get panics on the latter. A proposal that timed out may be applied
later (`LateApply`).

## Runs

| Run | Instance | Shows |
|---|---|---|
| `diskkv` | 3 directory names (symmetric), 2 keys, 4 entries, log of 2, 3 faults: kills, power losses or both; 2.6 million states | all properties of `DiskKV`, and that it implements `ReplicaState` |
| `diskkv_alias` | `IterValueStable = FALSE` | finding: a snapshot may mix up values |
| `dbhandle` | 3 readers, 3 handles, fairness | locked reads are safe, refusals need an overlap, swaps complete |
| `permissions` | 2 calls (symmetric), 2 requests with one cache key, 2 permission keys, 2 batches, 1 timeout | grants and denials are justified, entries expire |
| `permissions_revoke` | 1 call, exact comparison, no timeout | finding: DELETE perm/user leaves the permissions |
| `admission` | 3 requests, 2 tokens, 1 service for main to connect, limit 1, 3 checks, fairness; 1.3 million states | where tokens go and come back; what `err` and the count may spoil |
| `admission_busy` | 2 requests, 2 tokens | finding: lost tokens make a node refuse service |
| `discovery` | 3 nodes that list each other in different orders, clocks that may agree, 2 rounds, 1 restart, lost answer or lost ping, fairness; 571 thousand states | founding lists agree, one oldest, no two clusters that serve apart, the search ends |
| `membership` | 3 hosts of which 2 have formed the cluster and 1 can lead, 2 joins, 2 processes per host, 2 faults, fairness | peer keys name members, a joined process stays unless pruned, dead hosts go |
| `routing` | a secure origin with two destinations and a plain one, 1 manager, 2 goroutines, 2 requests, 1 deployment, 1 fault, fairness; 577 thousand states | requests keep their origin, routes, proxies and host answers come to agree with the listed tasks |
| `routing_whitelist` | three names, one of them routed and one a prefix of it | finding: a name that is not in the store is accepted |
| `certcache` | 2 nodes, 2 calls, 2 values, fairness | what Get may return, and that caches come to agree |

Why the bounds are enough. In `diskkv`, three names allow a recovery while the
directory of an earlier one is still being cleaned up; a log of 2 has a
batch of two entries, and an entry before and one after a snapshot; three faults
allow a crash during the recovery from a crash, and one after it. In `dbhandle`,
three handles allow two recoveries and a Close with a reader on each. In `permissions`, two requests that share a cache
key and two keys on different parts of the path give every kind of hit (valid,
stale, of another rune), with a permission that comes and goes beside one that
stays; two calls that share an entry are what it takes to write and prune it at
the same time. In `admission`, three requests on two tokens give a refusal
and an interleaving of two handlers with main; three checks go past the limit of
one twice. In
`discovery`, three nodes are the fewest of which two can disagree about the
third, and two rounds the fewest in which a node can join after its peers have
started; one fault is a restart in any state, one lost or bad answer, or one
ping that removes a running member. In
`membership`, two processes per host and two joins give a handler that serves an ended process
beside one that serves its successor. In `routing`, two goroutines overtake each
other, and two requests race on one key or ask for two. In `certcache`, two
calls give every race between a fill and a Put, and two values an older and a
newer one; deletions are values too.

Deadlock is checked except where the system may stop: nodes give up
(`discovery`), a majority is lost (`membership`), docker and clients are quiet
(`routing`).

Fairness. `DbHandle`: goroutines that hold or wait for the mutex run (`Reader`,
`Closer`); no call has to come. `Admission`: the steps of a handler between its
two calls that may hang (`Prompt`); serve reads the body without a timeout and an
upgraded connection is forwarded without one, so neither has to return, and
`TokenReturns` says what their hanging costs; main has to do nothing.
`Discovery`: a process that runs takes its next step; every request has a
timeout. `Membership`: the ticker of the watcher goes on, and Raft decides what it
was asked while it has a majority; no handler has to. `Routing`: the leader's
ticker, the goroutines and the clocks of the caches go on; a request may hang.
`CertCache`: calls end after their timeout, entries expire. `DiskKV` and `Permissions`
claim no liveness.

## Proofs

Each `...Proofs` module proves the invariants of its component for every value
of the constants: any number of nodes, readers, handlers, calls, keys and
commands, any bounds. What they assume of the constants are the named ASSUMEs of
the components, which TLC evaluates on every run, and the hypotheses of
single theorems, below. All proofs have one shape. `IInv` is a conjunction of
named parts; one lemma per action shows that the action keeps it; `NextIInv` (in
`DiskKVProofs`, `InvStep`) puts them together; each theorem then follows because
`IInv` implies the property. Every `IInv` was checked with TLC on the component's run
before it was proved.

| Module | Theorems | States |
|---|---|---|
| `DiskKVProofs` | `CurrentWhole` | `CurrentNeverTorn`, without conditions |
| | `TypeCorrect`, `Invariance`, `AppliedPrefix`, `Forward`, `OnlyUnreportedIsLost`, `NoLeftovers` | `TypeOK`, `IInv`, `ServesAppliedPrefix`, `NeverBackward`, `LostBeforeFirstAck`, `OnlyTheOpenDB`, for every mode, under `Unmixed` |
| | `SnapshotsFaithful` | `SnapshotTraceable`, and `SnapshotFaithful` if iterator values are stable, for every mode, under `Unmixed` |
| | `Durability`, `Implements` | `AckedSurvives`, `ImplementsReplicaState`, under `Unmixed`; the first is about machines with one kind of fault, the second lets a machine with both fall back |
| | `StableIsUnmixed` | stable iterator values imply `Unmixed` |
| `DbHandleProofs` | `TypeCorrect`, `LockedReadsAreSafe`, `OnlyOverlapRefuses`, `ClosesOnceAlone` | `TypeOK`, `LockedReadSafe`, `RefusedOnlyOnOverlap`, `CloseOnce` |
| `PermissionsProofs` | `TypeCorrect`, `GrantsAreBacked`, `DenialsAreJustified`, `EntriesExpire` | `TypeOK`, `GrantBacked`, `DenialJustified`, `EntryExpires` |
| `AdmissionProofs` | `TypeCorrect`, `TokensAreAccounted`, `TokensFitTheChannel`, `FailuresAreReported`, `LimitIsEnforced` | `TypeOK`, `TokensAccounted`, `PutNeverBlocks`, `FailureReported`, `LimitEnforced` |
| `DiscoveryProofs` | `TypeCorrect`, `FoundersAgree`, `OldestIsUnique`, `EmptyListExplained`, `NoTwoClusters` | `TypeOK`, `BootstrapAgreement`, `OldestUnique`, `EmptyListOnlyIfOldest`, `NoSplitBrain` |
| `MembershipProofs` | `TypeCorrect`, `PeerKeysNameMembers`, `JoinedIsMember` | `TypeOK`, `PeerNamesMember`, `MemberUnlessPruned` |
| `RoutingProofs` | `RequestsKeepTheirKey`, `OriginsAreKept` | `KeyKept`, `OriginKept` under `DistinctOrigins` |
| `CertCacheProofs` | `GetReturnsStored`, `GetSeesOwnPut` | `GetWasStored`, `GetNotOlderThanOwn` |

Hypotheses. `Unmixed`: the replica never recovers from a snapshot whose values
are mixed up. The code does not ensure it by itself: saveToWriter keeps
`iter.Value()` past `Next` (run `diskkv_alias`), and a replica that recovers from
such a snapshot holds what no prefix of the log means, so nothing about its
content can be true. `StableIsUnmixed` shows that it follows from stable iterator
values, which is a condition on Pebble and not on the run. Without stable values a
replica that does not recover from a mixed-up snapshot still has every property,
and its own snapshots are `SnapshotTraceable`: filed under an applied prefix, with
exactly its keys and none but its values, possibly under the wrong keys.
`DistinctOrigins`: no two origins of the host have one key;
`RequestsKeepTheirKey` is what holds without it. `OnlyUnreportedIsLost` is about
machines whose processes only die, and `Durability` about machines with kills
only or power losses only, by the properties' own conditions.

### Why the invariants are not enough by themselves

DiskKV. The properties speak of `"idle"` or of a panic, and of none of the steps
that lead there. `Shape`: `current` is always whole, and `updating` is whole and
synced before it is renamed. `HistInv`: the history follows the log, and applied
indexes grow along it. `SnapInv`: a captured snapshot is an element of the
history, and a saved one was written from it. `DirInv`: which directories exist at each step, that outside the
rename the visible and the durable pointer agree when only power fails, and that
no directory exists before a pointer has been synced. `MemInv`: the
pending batch, `lastApplied` and the stores of the old and the new database at
each step. `DiskInv`: the database any surviving pointer names is a prefix of the
log, if it is there, and not behind `acked` unless both kinds of faults occur.
`SnapInv` holds whatever the iterator returned; `Unmixed` is needed at one step
only, `RecoverBegin`.

The refinement maps `disk` to what a restart would open. Most steps are
stutters, because neither the surviving pointer nor the database it names
changes (`Invisible`); a batch and the rename of `current` (kills) or its sync (power losses)
advance the disk along the history; returns acknowledge; a crash loses the disk
or keeps it, or, where both kinds of faults occur, falls back to what the synced
pointer names. What `IInv` does not say is that a lost disk stays lost. That is
`Kept`, an invariant of its own: when power may fail, the directory that the
synced pointer names is still there if it was there at the last sync.

DbHandle. `PtrInv`: what `d.db` names is open. `VictimInv`: the handle being
closed has left `d.db` and has no reader once the write lock is granted.
`ReaderInv`: a query holds a handle that is open or marked closed, which is what
makes the test of `closed` under the lock enough.

Permissions. `CacheInv`: an entry, and a late write of one, is a probe of some
request with that cache key. `EntryOf`, `EverOf`, `SteadyOf`: what each call
holds, that a permission seen was there, and that the permissions that stayed are
those the walk has not passed. `DenialJustified` needs the walk to reach every
pair of an entity and a part of the path: `ProbeCovers`, from the division lemmas
`Quotient` and `Index`.

Admission. `Tokens` counts holders, so every step that takes or leaves a token
changes the cardinality of a set by one. `ErrInv`: until another goroutine assigns
`err`, it is the result of the handler that tests it; `MainInv`: the same for main. `LimitInv`: the stored
count falls behind what has passed only by overwritten checks.

Discovery. `Counters`, `Members` and `Flags` tie the variables of connect() to
its step. `Seen`: every host asked so far is in the list, or the process is
blind. `Known`: an ID in a list has been drawn. `Order`: as long as every host
asked was counted in `olderThan`, each of them is younger if it still is the
process that answered. With `ClusterInv` (the list of a founder that is not
blind names every node, and a node without a member in such a cluster has had one
removed), a cluster that has lost no node has a majority of more than half of the
nodes, and one that has lost one node of more than half of the rest: two of them
meet, which is `NoSplitBrain`.

Membership. `BegunInv`: only IDs of processes that were started are known, so a
handler's deletion of the old replica cannot hit a future one. `HandlerInv`: a
handler that is about to store a key has had its replica added, and deletes
another replica of the same host. `JoinedInv`: the last process of a host is
removed only with a record in `pruned`.

Routing. What stands under a key, in docker's labels, in a goroutine's hands, in
the store, in `Proxies` or with a request, is a destination of an origin with
that key (`Backing`).

CertCache. `OnceInv`: a value is applied once, so its position in the history is
its age. `StoredInv`: what a Get holds or has left in the cache was stored.
`AgeInv`: it is behind the node's own last Put only if another call was about to
write the cache when that Put returned.

### What the proofs found

- `Membership.Apply` was a CASE with overlapping guards: TLC took the first, the
  provers either. It is an IF now.
- `Discovery.DrawID` sent a node without other hosts into a loop it does not
  run in the code.
- Version 1.4.5 of tlapm gives the SMT solver an axiom about `Len` that holds of
  sequences and is stated of all values; from it, an obligation that mentions
  `Len` and a function whose domain is not an interval can be contradictory. All
  proofs were therefore checked a second time with that axiom restricted to
  sequences. One leaf of `CertCacheProofs` and some of `DiskKVProofs` had rested
  on it and were redone; the proof that Open finds no directory beside a missing
  pointer needed a part of `DirInv` that was not there before.

### Only model-checked

Liveness: `CloseCompletes`, `TokenReturns`, `Decides`, `DeadHostPruned`,
`RoutesConverge`, `ProxyConverges`, `HostConverges`, `CachesConverge`. They rest
on fairness and ENABLED, which the prover does not handle. The four findings
(`diskkv_alias`, `permissions_revoke`, `admission_busy`, `routing_whitelist`) are
counterexamples of TLC.

## Plan

1. What a machine with both kinds of faults can still promise of acknowledged
   indexes: how far back the disk may fall.
2. The safety half of the convergence properties: once the causes are gone, a
   step never leads away from the state they converge to.

## Not modelled

- The NATS client, the Docker client, the buffer pool, logging, the load test:
  I/O without state of their own.
- Configuration parsing and the choice of a binding among the node's addresses.
- Equal replica IDs, drawn from 65534, in a cluster: `Discovery` and `Membership`
  take them to differ, because the code has no answer to equal ones.
- Destinations that do not parse: `Proxy` then uses a nil URL.
- The assertion of Get and Scan that `d.closed` is unset: `DbHandle` has the
  step, and the panic is reachable when Close runs between the read and the test
  (`kvdisk.go:426`); no property forbids it.
- In `Routing`, more than one manager and more than one deployment: the
  composition grows too large. Leadership is taken to be settled there.
- Raft, Pebble, net/http, go-cache and the file system are modelled only as far
  as the code relies on them.
