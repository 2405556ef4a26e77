----------------------------- MODULE Membership -----------------------------
(***************************************************************************)
(* The members of a running Raft cluster: the join handler (SERVE_POST_JOIN *)
(* in roo/kv.go), which replaces the replica a host had by its new one, and *)
(* the watcher of the leader (roo/kvwatcher.go), which removes the replicas *)
(* of hosts that do not answer.                                            *)
(*                                                                         *)
(* A handler goes on when the process that asked for it has ended and been *)
(* started again with a new replica ID.                                    *)
(*                                                                         *)
(* Abstracted: a replica ID is <<host, k>> for the k-th process of a host. *)
(* Raft is external: a requested change of the membership is applied at    *)
(* any later time, or never, while a majority of the members runs; a       *)
(* removed ID is not added again, and the last member is not removed.      *)
(* Leadership is not followed: a running member may be the leader at any   *)
(* tick of its watcher.                                                    *)
(***************************************************************************)
EXTENDS Integers, FiniteSets

CONSTANTS
    Hosts,
    Founders,          \* the hosts that have formed the cluster; the others join
    Leaders,           \* the hosts that Raft may elect (a bound: any could be)
    Handlers,          \* bound: the requests to join, and the handlers that run for them
    BOOTSTRAP_WAIT_S,
    MaxGen,            \* bound: processes started on a host
    MaxPending,        \* bound: changes under way; further requests fail
    MaxFaults          \* bound: ends of a process, lost pings and lost changes

ASSUME MembershipAssumption ==
    /\ IsFiniteSet(Hosts) /\ Hosts # {} /\ Hosts \cap Handlers = {}
    /\ BOOTSTRAP_WAIT_S \in Nat /\ MaxGen \in Nat \ {0} /\ {MaxPending, MaxFaults} \subseteq Nat
    /\ Leaders \subseteq Hosts /\ Founders \subseteq Hosts /\ Founders # {}

VARIABLES
    proc,     \* proc[h]: the process on h, and what it has reached
    conf,     \* the members of the cluster
    removed,  \* the IDs that were members
    pruned,   \* those removed after a failed ping, or for a process that had ended
    changes,  \* the changes of the membership that are under way
    peer,     \* peer[h]: the key <PEER_PREFIX><h>, 0 while it is missing
    join,     \* join[p]: a join handler
    watch,    \* watch[h]: the watcher of h
    faults

vars == <<proc, conf, removed, pruned, changes, peer, join, watch, faults>>

Gens == 1..MaxGen
IDs == Hosts \X Gens
Change == [op : {"add", "delete"}, id : IDs, by : Hosts \cup Handlers, for : IDs]

Idle == [pc |-> "idle"]
Over == [pc |-> "over"]
Handler == {Idle, Over} \cup [pc : {"get", "delete", "add", "wait", "put"}, id : IDs, old : 0..MaxGen]

(* A cluster has formed; new hosts are about to join.                       *)
Init ==
    /\ proc = [h \in Hosts |-> [gen |-> 1, at |-> IF h \in Founders THEN "member" ELSE "joining"]]
    /\ conf = {<<h, 1>> : h \in Founders}
    /\ removed = {} /\ pruned = {} /\ changes = {}
    /\ peer = [h \in Hosts |-> IF h \in Founders THEN 1 ELSE 0]
    /\ join = [p \in Handlers |-> Idle]
    /\ watch = [h \in Leaders |-> [todo |-> {}, pinged |-> {}]]
    /\ faults = 0

Up(h) == proc[h].at # "down"
Current(h) == <<h, proc[h].gen>>
Live == {Current(h) : h \in {x \in Hosts : proc[x].at \in {"joined", "member"}}}
Quorate == 2 * Cardinality(conf \cap Live) > Cardinality(conf)
Leads(h) == Quorate /\ proc[h].at = "member" /\ Current(h) \in conf
Fault == faults < MaxFaults /\ faults' = faults + 1

-----------------------------------------------------------------------------
(* Processes.                                                               *)

NoWatch(h) == watch' = [g \in Leaders |-> IF g = h THEN [todo |-> {}, pinged |-> {}] ELSE watch[g]]

(* The process of h ends.                                                   *)
Crash(h) ==
    /\ Up(h) /\ Fault
    /\ proc' = [proc EXCEPT ![h].at = "down"]
    /\ NoWatch(h)
    /\ UNCHANGED <<conf, removed, pruned, changes, peer, join>>

(* Swarm starts it again; the new process draws a new replica ID.           *)
Start(h) ==
    /\ ~Up(h) /\ proc[h].gen < MaxGen
    /\ proc' = [proc EXCEPT ![h] = [gen |-> @.gen + 1, at |-> "joining"]]
    /\ UNCHANGED <<conf, removed, pruned, changes, peer, join, watch, faults>>

(* A joiner whose replica has started stores its own key.                   *)
PutPeer(h) ==
    /\ proc[h].at = "joined" /\ Quorate
    /\ peer' = [peer EXCEPT ![h] = proc[h].gen]
    /\ proc' = [proc EXCEPT ![h].at = "member"]
    /\ UNCHANGED <<conf, removed, pruned, changes, join, watch, faults>>

-----------------------------------------------------------------------------
(* Raft.                                                                    *)

Full == Cardinality(changes) >= MaxPending

(* by asks, on behalf of the process `for`.                                 *)
Request(op, id, by, for) ==
    /\ ~Full
    /\ changes' = changes \cup {[op |-> op, id |-> id, by |-> by, for |-> for]}

(* A change takes effect or is rejected; the handler that waits for it      *)
(* learns which.                                                            *)
Effective(c) ==
    IF c.op = "add" THEN c.id \notin removed ELSE c.id \in conf /\ conf # {c.id}

Apply(c) ==
    /\ Quorate /\ c \in changes /\ changes' = changes \ {c}
    /\ conf' = IF ~Effective(c) THEN conf
               ELSE IF c.op = "add" THEN conf \cup {c.id} ELSE conf \ {c.id}
    /\ removed' = IF Effective(c) /\ c.op = "delete" THEN removed \cup {c.id} ELSE removed
    /\ pruned' = IF removed' # removed /\ (c.by \in Hosts \/ c.for # Current(c.for[1]))
                   THEN pruned \cup {c.id} ELSE pruned
    /\ IF c.op = "add" /\ join[c.by].pc = "wait" /\ join[c.by].id = c.id
         THEN join' = [join EXCEPT ![c.by] = IF Effective(c) THEN [@ EXCEPT !.pc = "put"] ELSE Over]
         ELSE UNCHANGED join
    /\ UNCHANGED <<proc, peer, watch, faults>>

Drop(c) ==
    /\ c \in changes /\ changes' = changes \ {c} /\ Fault
    /\ UNCHANGED <<proc, conf, removed, pruned, peer, join, watch>>

-----------------------------------------------------------------------------
(* The join handler.                                                        *)

HandlerOnly == <<proc, conf, removed, pruned, watch, faults>>
Become(p, r) == join' = [join EXCEPT ![p] = r]

(* A new process asks to join; it may ask again while an earlier handler    *)
(* still runs.                                                              *)
JoinPost(p, h) ==
    /\ join[p] = Idle /\ proc[h].at = "joining"
    /\ Become(p, [pc |-> "get", id |-> Current(h), old |-> 0])
    /\ UNCHANGED <<HandlerOnly, changes, peer>>

(* Mutant: a missing key is taken for replica 0.                            *)
Replaced_Missing(id, k) == k # id[2]

(* Mutant: the joiner is deleted as well.                                   *)
Replaced_Same(id, k) == k # 0

(* The replica that the key names is deleted unless it is the joiner.       *)
Replaced(id, k) == k \notin {0, id[2]}

(* The key is read; an error counts as a missing key.                       *)
JoinGet(p) ==
    /\ join[p].pc = "get"
    /\ \E k \in {0} \cup (IF Quorate THEN {peer[join[p].id[1]]} ELSE {}) :
          Become(p, IF Replaced(join[p].id, k)
                      THEN [join[p] EXCEPT !.pc = "delete", !.old = k]
                      ELSE [join[p] EXCEPT !.pc = "add"])
    /\ UNCHANGED <<HandlerOnly, changes, peer>>

(* RequestDeleteReplica: an error is returned to the joiner, the outcome is *)
(* not awaited.                                                             *)
JoinDelete(p) ==
    /\ join[p].pc = "delete"
    /\ \/ /\ Request("delete", <<join[p].id[1], join[p].old>>, p, join[p].id)
          /\ Become(p, [join[p] EXCEPT !.pc = "add", !.old = 0])
       \/ Become(p, Over) /\ UNCHANGED changes
    /\ UNCHANGED <<HandlerOnly, peer>>

(* Mutant: the outcome of RequestAddReplica is not awaited.                 *)
JoinAdd_NotAwaited(p) ==
    /\ join[p].pc = "add"
    /\ Request("add", join[p].id, p, join[p].id) /\ Become(p, [join[p] EXCEPT !.pc = "put"])
    /\ UNCHANGED <<HandlerOnly, peer>>

(* RequestAddReplica: with an error the handler panics on the nil request.  *)
JoinAdd(p) ==
    /\ join[p].pc = "add"
    /\ \/ Request("add", join[p].id, p, join[p].id) /\ Become(p, [join[p] EXCEPT !.pc = "wait"])
       \/ Become(p, Over) /\ UNCHANGED changes
    /\ UNCHANGED <<HandlerOnly, peer>>

(* Three seconds, after which the change may still be applied.              *)
JoinTimeout(p) ==
    /\ join[p].pc = "wait"
    /\ Become(p, Over)
    /\ UNCHANGED <<HandlerOnly, changes, peer>>

(* The key is stored and the joiner, if it still waits, is answered; or the *)
(* write fails, perhaps only for the handler.                               *)
JoinPut(p) ==
    LET h == join[p].id[1]
        k == join[p].id[2]
    IN  /\ join[p].pc = "put"
        /\ Become(p, Over)
        /\ \/ /\ Quorate /\ peer' = [peer EXCEPT ![h] = k]
              /\ \/ /\ proc[h] = [gen |-> k, at |-> "joining"]
                    /\ proc' = [proc EXCEPT ![h].at = "joined"]
                 \/ UNCHANGED proc
           \/ UNCHANGED <<peer, proc>>
        /\ UNCHANGED <<conf, removed, pruned, changes, watch, faults>>

-----------------------------------------------------------------------------
(* The watcher.                                                             *)

(* x ^ 9 of Go, an exclusive or: bits 0 and 3 are flipped.                  *)
XorNine(x) == x + (IF x % 2 = 1 THEN -1 ELSE 1) + (IF (x \div 8) % 2 = 1 THEN -8 ELSE 8)

(* int64(BOOTSTRAP_WAIT_S)*10^9, in nanoseconds, against the second or more *)
(* that has passed since the ping of an earlier tick.                       *)
TickNs == 1000000000
Overdue == TickNs > XorNine(BOOTSTRAP_WAIT_S * 10)

(* A tick on the leader: the members of this moment are looked at one after *)
(* the other.  Entries of pingCache may have expired since the last one.    *)
Tick(h) ==
    /\ Leads(h) /\ watch[h].todo = {}
    /\ \E S \in SUBSET watch[h].pinged : watch' = [watch EXCEPT ![h] = [todo |-> conf, pinged |-> S]]
    /\ UNCHANGED <<proc, conf, removed, pruned, changes, peer, join, faults>>

(* The status of the host, whatever process serves it.                      *)
PingOk(h, id) ==
    /\ id \in watch[h].todo /\ Up(id[1])
    /\ watch' = [watch EXCEPT ![h] = [todo |-> @.todo \ {id}, pinged |-> @.pinged \cup {id[1]}]]
    /\ UNCHANGED <<proc, conf, removed, pruned, changes, peer, join, faults>>

(* Mutant: a host that is not in the cache is left alone.                   *)
Silent_Cached(h, g) == g \in watch[h].pinged /\ Overdue

(* No answer: the replica is deleted if its host was never heard of, or not *)
(* lately.  A request that fails is logged, like one that is dropped.       *)
Silent(h, g) == g \in watch[h].pinged => Overdue

PingFail(h, id) ==
    /\ id \in watch[h].todo
    /\ watch' = [watch EXCEPT ![h].todo = @ \ {id}]
    /\ IF Up(id[1]) THEN Fault ELSE UNCHANGED faults
    /\ IF Silent(h, id[1]) /\ ~Full THEN Request("delete", id, h, id) ELSE UNCHANGED changes
    /\ UNCHANGED <<proc, conf, removed, pruned, peer, join>>

-----------------------------------------------------------------------------
Handle(p) ==
    JoinGet(p) \/ JoinDelete(p) \/ JoinAdd(p) \/ JoinTimeout(p) \/ JoinPut(p)

Ping(h) == \E id \in IDs : PingOk(h, id) \/ PingFail(h, id)

Next ==
    \/ \E h \in Hosts : Crash(h) \/ Start(h) \/ PutPeer(h)
    \/ \E h \in Leaders : Tick(h) \/ Ping(h)
    \/ \E p \in Handlers : Handle(p) \/ \E h \in Hosts : JoinPost(p, h)
    \/ \E c \in changes : Apply(c) \/ Drop(c)

(* A leader's watcher ticks and goes through its members, and Raft, while   *)
(* it has a majority, decides the changes it was asked for.                 *)
Spec ==
    /\ Init /\ [][Next]_vars
    /\ WF_vars(\E h \in Leaders : Tick(h) \/ Ping(h))
    /\ WF_vars(\E c \in changes : Apply(c))

-----------------------------------------------------------------------------
(* Properties.                                                              *)

(* Processes, members, changes and handlers are of their kinds, and a       *)
(* watcher looks only at IDs that are or were members.                      *)
TypeOK ==
    /\ proc \in [Hosts -> [gen : Gens, at : {"down", "joining", "joined", "member"}]]
    /\ conf \subseteq IDs /\ conf # {} /\ removed \subseteq IDs
    /\ conf \cap removed = {} /\ pruned \subseteq removed
    /\ changes \subseteq Change
    /\ peer \in [Hosts -> 0..MaxGen]
    /\ \A p \in Handlers : join[p] \in Handler
    /\ \A h \in Leaders : watch[h].todo \subseteq conf \cup removed /\ watch[h].pinged \subseteq Hosts
    /\ faults \in 0..MaxFaults

(* The peer key of a host names a replica that Raft has added, although the *)
(* handler stores it long after it asked, and for a process that may have   *)
(* ended (SERVE_POST_JOIN, the PUT after res.Completed()).                  *)
PeerNamesMember ==
    \A h \in Hosts : peer[h] # 0 => <<h, peer[h]>> \in conf \cup removed

(* A process that was told it has joined is a member, unless a ping of its  *)
(* host failed or a handler that works for an ended process of its host     *)
(* removed it (SERVE_POST_JOIN: RequestDeleteReplica is not awaited, and    *)
(* the key it goes by is read before).                                      *)
MemberUnlessPruned ==
    \A h \in Hosts : proc[h].at \in {"joined", "member"} => Current(h) \in conf \cup pruned

(* Once no process ends or starts any more, the members on hosts that are   *)
(* down are removed, as long as some member can watch (runRaftWatcher).     *)
DeadHostPruned ==
    <>[]((\E h \in Leaders : Leads(h)) => \A id \in conf : Up(id[1]))
=============================================================================
