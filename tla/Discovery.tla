------------------------------ MODULE Discovery ------------------------------
(***************************************************************************)
(* How nodes find each other and decide to bootstrap a Raft cluster or to  *)
(* join one: connect() of roo/kv.go, on the status that every node serves  *)
(* from the moment its API is up (roo/roo.go).                             *)
(*                                                                         *)
(* The processes interleave between any two requests, a request may be     *)
(* lost, and a process may end at any time and be started again with a new *)
(* replica ID and a new reading of its clock (clocks are not synchronized).*)
(*                                                                         *)
(* Abstracted: a node is its binding; a member list is its set of replica  *)
(* IDs.  IDs never repeat (the code draws one of 65534 at random).  Raft   *)
(* is external: a cluster is known by the list it was founded with, serves *)
(* reads and writes while a majority of its members runs, and never takes  *)
(* back an ID it removed.  The join request and the leader's ping of a     *)
(* member are one step each here, with every outcome their handlers have;  *)
(* the handlers are the subject of Membership.                             *)
(***************************************************************************)
EXTENDS Integers, Sequences, FiniteSets

CONSTANTS
    Nodes,
    NoID,         \* ReplicaID 0: the status of a node that has not drawn its ID
    Hosts,        \* Hosts[n]: the configured hosts, the binding of n removed
    Clock(_, _),  \* Clock(n, k): Instantiated of the k-th process on n, a set of times
    WaitLimit,    \* BOOTSTRAP_WAIT_S
    MaxFaults     \* bound: restarts and lost or bad answers of a status

IDs == (Nodes \X Nat) \cup {NoID}

ASSUME HostsAssumption ==
    /\ IsFiniteSet(Nodes)
    /\ Hosts \in [Nodes -> Seq(Nodes)]
    /\ \A n \in Nodes : \A h \in Nodes \ {n} : \E i \in DOMAIN Hosts[n] : Hosts[n][i] = h
ASSUME ClockAssumption ==
    /\ \A n \in Nodes, k \in 1..1 + MaxFaults : Clock(n, k) \subseteq Nat \ {0}
    /\ NoID \notin Nodes \X Nat
ASSUME LimitsAssumption == WaitLimit \in Nat /\ MaxFaults \in Nat

VARIABLES
    node,      \* node[n]: the process on n
    gen,       \* gen[n]: processes started on n so far
    clusters,  \* founding list -> its members now, the IDs removed from it,
               \* com.roo.started, and whether its first founder missed a node
    faults     \* restarts and lost or bad answers so far

vars == <<node, gen, clusters, faults>>

(* A process whose API has just come up.  skipped: it passed over a host    *)
(* whose answer was bad; oldest: it took the OLDEST branch; home: the       *)
(* founding list of the cluster its replica is part of.                     *)
Fresh == [pc |-> "api", id |-> NoID, inst |-> 0, at |-> 1, older |-> 0, members |-> {},
        boot |-> FALSE, ready |-> FALSE, waited |-> 0, skipped |-> FALSE,
        oldest |-> FALSE, home |-> {}]
Off == [Fresh EXCEPT !.pc = "off"]

Init ==
    /\ node = [n \in Nodes |-> Fresh]
    /\ gen = [n \in Nodes |-> 1]
    /\ clusters = [L \in {} |-> {}]
    /\ faults = 0

-----------------------------------------------------------------------------
(* Raft.                                                                    *)

Running(n) == node[n].pc \in {"up", "done"}
Live == {node[n].id : n \in {x \in Nodes : Running(x)}}
Quorums(L) == {Q \in SUBSET (clusters[L].members \cap Live) :
                   2 * Cardinality(Q) > Cardinality(clusters[L].members)}
CanServe(n) ==
    /\ Running(n) /\ node[n].home \in DOMAIN clusters
    /\ node[n].id \in clusters[node[n].home].members
    /\ Quorums(node[n].home) # {}

(* A replica ID names its host.                                             *)
Names(S, h) == \E x \in S \ {NoID} : x[1] = h

-----------------------------------------------------------------------------
(* The life of a process.                                                   *)

Become(n, r) == node' = [node EXCEPT ![n] = r]
Stop(n) == Become(n, Off)

Fault == faults < MaxFaults /\ faults' = faults + 1

(* The process ends (killed, os.Exit, or a panic: the goroutine that        *)
(* announces the node may find kvs.nh still nil) and is started again: main *)
(* serves the API before it loads the cluster.                              *)
Restart(n) ==
    /\ Fault
    /\ gen' = [gen EXCEPT ![n] = @ + 1]
    /\ Become(n, Fresh)
    /\ UNCHANGED clusters

Instantiate(n, t) ==
    /\ node[n].pc = "api"
    /\ Become(n, [node[n] EXCEPT !.pc = "inst", !.inst = t])
    /\ UNCHANGED <<gen, clusters, faults>>

-----------------------------------------------------------------------------
(* The loop over the hosts.                                                 *)

Host(n) == Hosts[n][node[n].at]

(* What the API of h answers, from the moment it is up.                     *)
Status(h) == [id |-> node[h].id, inst |-> node[h].inst, started |-> Running(h)]

(* Mutant: olderThan is not set back to 0 for the next round.               *)
Verdict_KeepsCount(n, r) ==
    LET w == [r EXCEPT !.waited = @ + 1]
    IN  CASE r.boot  -> [w EXCEPT !.pc = "start"]
          [] ~r.boot /\ r.older = Len(Hosts[n]) ->
                [w EXCEPT !.pc = "start", !.boot = TRUE, !.oldest = TRUE]
          [] OTHER ->
                IF r.ready                    THEN [w EXCEPT !.pc = "start"]
                ELSE IF w.waited >= WaitLimit THEN Off
                ELSE [w EXCEPT !.pc = "poll", !.at = 1]

(* The end of a round.  OLDEST is asked before PEERING.                     *)
Verdict(n, r) ==
    LET w == [r EXCEPT !.waited = @ + 1]
    IN  CASE r.boot  -> [w EXCEPT !.pc = "start"]
          [] ~r.boot /\ r.older = Len(Hosts[n]) ->
                [w EXCEPT !.pc = "start", !.boot = TRUE, !.oldest = TRUE]
          [] OTHER ->
                IF r.ready                    THEN [w EXCEPT !.pc = "start"]
                ELSE IF w.waited >= WaitLimit THEN Off
                ELSE [w EXCEPT !.pc = "poll", !.at = 1, !.older = 0]

(* r, a record of n, at the next host; after the last the round ends.       *)
NextHost(n, r) ==
    IF r.at < Len(Hosts[n]) THEN [r EXCEPT !.at = @ + 1, !.pc = "poll"] ELSE Verdict(n, r)

(* rand.Intn: every process draws its own.                                  *)
ReplicaID(n) == <<n, gen[n]>>

(* Itself the first member.  A node that is alone in its configuration has  *)
(* no host to ask.                                                          *)
DrawID(n) ==
    /\ node[n].pc = "inst"
    /\ LET r == [node[n] EXCEPT !.pc = "poll", !.id = ReplicaID(n), !.members = {ReplicaID(n)}]
       IN  Become(n, IF Hosts[n] = << >> THEN Verdict(n, r) ELSE r)
    /\ UNCHANGED <<gen, clusters, faults>>

(* Mutant: the failed attempts are not counted.                             *)
PollFail_Uncounted(n) ==
    /\ node[n].pc = "poll"
    /\ IF node[Host(n)].pc = "off" THEN UNCHANGED faults ELSE Fault
    /\ UNCHANGED <<node, gen, clusters>>

(* No answer in time: the same host is asked again, up to the limit.        *)
PollFail(n) ==
    /\ node[n].pc = "poll"
    /\ IF node[n].waited + 1 >= WaitLimit
         THEN Stop(n)
         ELSE Become(n, [node[n] EXCEPT !.waited = @ + 1])
    /\ IF node[Host(n)].pc = "off" THEN UNCHANGED faults ELSE Fault
    /\ UNCHANGED <<gen, clusters>>

(* A body that cannot be read, or is not JSON: the host is passed over.     *)
PollBad(n) ==
    /\ node[n].pc = "poll" /\ node[Host(n)].pc # "off"
    /\ Fault
    /\ Become(n, NextHost(n, [node[n] EXCEPT !.skipped = TRUE]))
    /\ UNCHANGED <<gen, clusters>>

(* Mutant: any other time counts.                                           *)
Counted_Any(r, s) == IF s.inst # r.inst THEN 1 ELSE 0

Counted(r, s) == IF s.inst > r.inst THEN 1 ELSE 0

(* Mutant: only a host that has not started becomes an initial member.      *)
PollOk_NewOnly(n) ==
    LET s == Status(Host(n))
        r == [node[n] EXCEPT !.older = @ + Counted(node[n], s)]
    IN  /\ node[n].pc = "poll" /\ node[Host(n)].pc # "off" /\ s.inst # node[n].inst
        /\ Become(n, IF s.started THEN [r EXCEPT !.pc = "check"]
                     ELSE NextHost(n, [r EXCEPT !.members = @ \cup {s.id}]))
        /\ UNCHANGED <<gen, clusters, faults>>

PollOk(n) ==
    LET s == Status(Host(n))
        r == [node[n] EXCEPT !.older = @ + Counted(node[n], s), !.members = @ \cup {s.id}]
    IN  /\ node[n].pc = "poll" /\ node[Host(n)].pc # "off"
        /\ \/ s.inst = node[n].inst /\ Stop(n)
           \/ /\ s.inst # node[n].inst
              /\ Become(n, IF s.started THEN [r EXCEPT !.pc = "check"] ELSE NextHost(n, r))
        /\ UNCHANGED <<gen, clusters, faults>>

(* Mutant: break instead of continue.                                       *)
NotStarted_Break(n, r) == Verdict(n, [r EXCEPT !.boot = TRUE])

(* GET com.roo.started from the host.  No answer, an error and "false" are  *)
(* one and the same: no cluster yet.  checkedBootstrapped starts at 0, so   *)
(* the question is never repeated.                                          *)
NotStarted(n, r) == NextHost(n, [r EXCEPT !.boot = TRUE])

CheckStarted(n) ==
    /\ node[n].pc = "check"
    /\ \/ /\ CanServe(Host(n)) /\ clusters[node[Host(n)].home].started
          /\ Become(n, [node[n] EXCEPT !.pc = "join", !.boot = FALSE])
       \/ Become(n, NotStarted(n, node[n]))
    /\ UNCHANGED <<gen, clusters, faults>>

(* The handler of the join: it may delete the ID last stored for the host,  *)
(* without waiting for the result, and the addition may fail after that.    *)
Replaceable(n, L) == {x \in clusters[L].members \ {NoID, node[n].id} : x[1] = n}

ChangeMembers(L, out, in) ==
    clusters' = [clusters EXCEPT ![L].members = (@ \ out) \cup in, ![L].removed = @ \cup out]

AddMember(n, h) ==
    LET L == node[h].home IN
    /\ CanServe(h)
    /\ node[n].id \notin clusters[L].removed
    /\ \E out \in {{}} \cup {{x} : x \in Replaceable(n, L)} : ChangeMembers(L, out, {node[n].id})

OnlyDelete(n, h) ==
    /\ CanServe(h)
    /\ \E x \in Replaceable(n, node[h].home) : ChangeMembers(node[h].home, {x}, {})

(* Mutant: the loop goes on after a join that succeeded.                    *)
Joined_GoesOn(n, r) == NextHost(n, [r EXCEPT !.members = {}, !.ready = TRUE])

Joined(n, r) == Verdict(n, [r EXCEPT !.members = {}, !.ready = TRUE])

(* main may not have set configuration.API yet: until then the handler of   *)
(* the join does nothing and answers 200.                                   *)
Unready(h) == node[h].pc \notin {"off", "done"}

(* POST join: the member may have been added although the answer is lost.   *)
Join(n) ==
    /\ node[n].pc = "join"
    /\ \/ AddMember(n, Host(n)) /\ Become(n, Joined(n, node[n]))
       \/ Unready(Host(n)) /\ UNCHANGED clusters /\ Become(n, Joined(n, node[n]))
       \/ AddMember(n, Host(n)) /\ Become(n, NextHost(n, node[n]))
       \/ OnlyDelete(n, Host(n)) /\ Become(n, NextHost(n, node[n]))
       \/ UNCHANGED clusters /\ Become(n, NextHost(n, node[n]))
    /\ UNCHANGED <<gen, faults>>

-----------------------------------------------------------------------------
(* StartOnDiskReplica and the announcement of the node.                     *)

(* Service.Started is set at once; what only the loop used is dropped.      *)
Up(r, L) == [r EXCEPT !.pc = "up", !.at = 1, !.older = 0, !.waited = 0, !.home = L]

(* What a founder may not have seen: a host passed over, or one without ID. *)
Blind(r) == r.skipped \/ NoID \in r.members

(* With an empty list and bootstrap it fails, and is tried again for ever.  *)
StartBootstrap(n) ==
    /\ node[n].pc = "start" /\ node[n].boot /\ node[n].members # {}
    /\ LET L == node[n].members
       IN  /\ Become(n, Up(node[n], L))
           /\ clusters' = IF L \in DOMAIN clusters THEN clusters
                          ELSE [x \in DOMAIN clusters \cup {L} |->
                                  IF x = L THEN [members |-> L, removed |-> {}, started |-> FALSE,
                                               blind |-> Blind(node[n])]
                                           ELSE clusters[x]]
    /\ UNCHANGED <<gen, faults>>

(* A joiner becomes part of a cluster that has it.  Raft starts its replica *)
(* all the same when none does; it then waits to be added.                  *)
StartJoin(n) ==
    /\ node[n].pc = "start" /\ ~node[n].boot
    /\ LET adders == {L \in DOMAIN clusters : node[n].id \in clusters[L].members}
       IN  \E L \in IF adders = {} THEN {{}} ELSE adders : Become(n, Up(node[n], L))
    /\ UNCHANGED <<gen, clusters, faults>>

(* Once the peer key is stored, and half of BOOTSTRAP_WAIT_S has passed;    *)
(* each of the two writes is tried until it is stored.                      *)
PutStarted(n) ==
    /\ node[n].pc = "up" /\ CanServe(n)
    /\ clusters' = [clusters EXCEPT ![node[n].home].started = TRUE]
    /\ Become(n, [node[n] EXCEPT !.pc = "done"])
    /\ UNCHANGED <<gen, faults>>

-----------------------------------------------------------------------------
(* The watcher of n, if its replica leads: a member whose host does not     *)
(* answer the ping is removed.  Raft keeps the last one.                    *)
Prune(n) ==
    LET L == node[n].home IN
    /\ CanServe(n)
    /\ \E x \in clusters[L].members :
          /\ clusters[L].members # {x}
          /\ IF x = NoID THEN UNCHANGED faults
             ELSE IF node[x[1]].pc = "off" THEN UNCHANGED faults ELSE Fault
          /\ ChangeMembers(L, {x}, {})
    /\ UNCHANGED <<node, gen>>

-----------------------------------------------------------------------------
Step(n) ==
    \/ \E t \in Clock(n, gen[n]) : Instantiate(n, t)
    \/ DrawID(n) \/ PollFail(n) \/ PollBad(n) \/ PollOk(n) \/ CheckStarted(n) \/ Join(n)
    \/ StartBootstrap(n) \/ StartJoin(n) \/ PutStarted(n)

Next == \E n \in Nodes : Restart(n) \/ Step(n) \/ Prune(n)

(* A process that runs takes its next step.                                 *)
Spec == Init /\ [][Next]_vars /\ \A n \in Nodes : WF_vars(Step(n))
-----------------------------------------------------------------------------
(* Properties.                                                              *)

(* Every process is in a state of connect() with counters in range, and     *)
(* every cluster was founded by a list of replica IDs.                      *)
TypeOK ==
    /\ \A n \in Nodes :
          /\ node[n].pc \in {"off", "api", "inst", "poll", "check", "join", "start",
                             "up", "done"}
          /\ node[n].id \in IDs /\ node[n].members \subseteq IDs /\ node[n].home \subseteq IDs
          /\ node[n].inst \in Nat
          /\ node[n].at \in {1} \cup 1..Len(Hosts[n]) /\ node[n].older \in 0..Len(Hosts[n])
          /\ node[n].waited \in 0..WaitLimit + 1
          /\ {node[n].boot, node[n].ready, node[n].skipped, node[n].oldest} \subseteq BOOLEAN
          /\ gen[n] \in Nat
    /\ DOMAIN clusters \subseteq SUBSET IDs
    /\ faults \in 0..MaxFaults

Founded(n) == Running(n) /\ node[n].boot
Current(L) == L \subseteq {node[n].id : n \in Nodes}

(* Two nodes that both bootstrap start Raft with the same member list       *)
(* (connect(), initialMembers), unless one of them passed over a bad        *)
(* answer, read a status from before its sender drew its replica ID, or     *)
(* holds the ID of a process that has ended since.                          *)
BootstrapAgreement ==
    \A m, n \in Nodes : Founded(m) /\ Founded(n) =>
        \/ node[m].home = node[n].home
        \/ Blind(node[m]) \/ Blind(node[n])
        \/ ~Current(node[m].home \cup node[n].home)

(* Two nodes that both decided they are the oldest do not both hold the     *)
(* other's present replica ID: `olderThan` is a strict order on the         *)
(* processes, whatever their clocks say (connect(), [[OLDEST]]).            *)
OldestUnique ==
    \A m, n \in Nodes :
        m # n /\ node[m].oldest /\ node[n].oldest =>
            ~(node[m].id \in node[n].members /\ node[n].id \in node[m].members)

(* The nodes that a cluster has lost all replicas of.                       *)
Gone(L) == {h \in Nodes : Names(clusters[L].removed, h) /\ ~Names(clusters[L].members, h)}

(* Of the clusters whose founders missed no node, no two can serve with     *)
(* disjoint majorities, although a lost read of com.roo.started makes a     *)
(* restarted node bootstrap beside a running cluster (connect()), as long   *)
(* as the join handlers and the watchers have taken at most one node from   *)
(* the two (RequestDeleteReplica).                                          *)
NoSplitBrain ==
    \A K, L \in DOMAIN clusters :
        /\ ~clusters[K].blind /\ ~clusters[L].blind
        /\ Cardinality(Gone(K)) + Cardinality(Gone(L)) <= 1
        => \A P \in Quorums(K), Q \in Quorums(L) : P \cap Q # {}

(* A node that has joined a cluster bootstraps all the same only when it    *)
(* was then found to be the oldest; it is with the empty list of a joiner   *)
(* that the `rejoin` loop calls StartOnDiskReplica for ever.                *)
EmptyListOnlyIfOldest ==
    \A n \in Nodes :
        node[n].pc = "start" /\ node[n].boot =>
            /\ node[n].ready => node[n].oldest
            /\ node[n].members = {} <=> node[n].ready

Looking(n) == node[n].pc \in {"poll", "check", "join"}

(* The loop of connect() ends: once no process is started any more, every   *)
(* node has started a replica or given up, whatever its peers answered.     *)
Decides == <>[](\A n \in Nodes : ~Looking(n))
=============================================================================
