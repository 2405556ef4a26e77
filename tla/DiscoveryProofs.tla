--------------------------- MODULE DiscoveryProofs ---------------------------
(***************************************************************************)
(* Proofs about Discovery, for any nodes, orders of the hosts, clocks and  *)
(* number of restarts and lost answers: type correctness, the agreement of *)
(* the founders, the order behind OLDEST, and that clusters whose founders *)
(* missed no node, and that lost one node at most, cannot serve side by    *)
(* side.                                                                   *)
(***************************************************************************)
EXTENDS Discovery, FiniteSetTheorems, TLAPS

Asking == {"poll", "check", "join"}
Decided == {"start", "up", "done"}

Process == [pc : {"off", "api", "inst"} \cup Asking \cup Decided, id : IDs, inst : Nat,
            at : Nat, older : Nat, members : SUBSET IDs, boot : BOOLEAN, ready : BOOLEAN,
            waited : Nat, skipped : BOOLEAN, oldest : BOOLEAN, home : SUBSET IDs]
Cluster == [members : SUBSET IDs, removed : SUBSET IDs, started : BOOLEAN, blind : BOOLEAN]

(* What connect() knows of its own variables: r is the g-th process of n.   *)
Counters(n, r) ==
    /\ r.at \in {1} \cup 1..Len(Hosts[n])
    /\ r.older <= Len(Hosts[n]) /\ r.waited <= WaitLimit + 1
    /\ r.pc \in Asking => r.at <= Len(Hosts[n]) /\ r.older <= r.at /\ r.waited <= WaitLimit
    /\ r.pc = "poll" => r.older < r.at

Members(n, r, g) ==
    /\ r.id = IF r.pc \in Asking \cup Decided THEN <<n, g>> ELSE NoID
    /\ IsFiniteSet(r.members)
    /\ r.ready => r.members = {} /\ r.pc \in Decided
    /\ r.pc \in Asking \cup Decided /\ ~r.ready => r.id \in r.members

Flags(r) ==
    /\ r.pc = "api" => r = Fresh
    /\ r.pc = "inst" => r = [Fresh EXCEPT !.pc = "inst", !.inst = r.inst]
    /\ r.oldest => r.pc \in Decided
    /\ r.pc = "join" => ~r.boot
    /\ r.ready /\ r.boot => r.oldest
    /\ r.pc \in {"up", "done"} /\ r.boot => r.home = r.members /\ ~r.ready

(* The i-th host has been asked in this round, or the loop is over.         *)
Asked(r, i) ==
    \/ r.pc = "poll" /\ i < r.at
    \/ r.pc \in {"check", "join"} /\ i <= r.at
    \/ r.pc \in Decided /\ ~r.ready

Seen(n, r) ==
    \A i \in 1..Len(Hosts[n]) : Asked(r, i) => Blind(r) \/ Names(r.members, Hosts[n][i])

(* A replica ID is known only once its process has drawn it.                *)
Drawn(x) ==
    \/ x[2] < gen[x[1]]
    \/ x[2] = gen[x[1]] /\ node[x[1]].pc \notin {"api", "inst"}
Known(r) == \A x \in r.members \ {NoID} : Drawn(x)

(* Every host asked so far was counted in olderThan.                        *)
Counts(r, i) ==
    \/ r.pc = "poll" /\ r.older + 1 = r.at /\ i < r.at
    \/ r.pc \in {"check", "join"} /\ r.older = r.at /\ i <= r.at
    \/ r.oldest

(* r is older than h, if it holds the ID that h has now.                    *)
Ahead(r, h) == node[h].id \in r.members \ {NoID} => node[h].inst > r.inst
Order(n, r) == \A i \in 1..Len(Hosts[n]) : Counts(r, i) => Ahead(r, Hosts[n][i])

Local(n, r, g) ==
    r \in Process /\ Counters(n, r) /\ Members(n, r, g) /\ Flags(r) /\ Seen(n, r)
NodeInv(n, r) == Local(n, r, gen[n]) /\ Known(r) /\ Order(n, r)

(* A founder stays a member until it is removed, and a founding list that   *)
(* is not blind names every node.                                           *)
ClusterInv ==
    /\ clusters \in [DOMAIN clusters -> Cluster]
    /\ \A L \in DOMAIN clusters :
          /\ L \subseteq clusters[L].members \cup clusters[L].removed
          /\ IsFiniteSet(clusters[L].members)
          /\ ~clusters[L].blind => \A h \in Nodes : Names(L, h)

Values ==
    /\ node \in [Nodes -> Process]
    /\ gen \in [Nodes -> Nat] /\ \A n \in Nodes : gen[n] \in 1..1 + faults
    /\ faults \in 0..MaxFaults
NodesInv == \A n \in Nodes : NodeInv(n, node[n])

IInv == Values /\ NodesInv /\ ClusterInv

-----------------------------------------------------------------------------
(* An ID is a host and the number of one of its processes. *)
LEMMA IDParts ==
    ASSUME NEW x \in IDs \ {NoID}
    PROVE  x[1] \in Nodes /\ x[2] \in Nat /\ x = <<x[1], x[2]>>
BY DEF IDs

(* The ID a process draws. *)
LEMMA OwnID ==
    ASSUME NEW n \in Nodes, NEW g \in Nat
    PROVE  <<n, g>> \in IDs \ {NoID} /\ <<n, g>>[1] = n /\ <<n, g>>[2] = g
BY ClockAssumption DEF IDs

(* A host list names all other nodes. *)
LEMMA HostsFacts ==
    ASSUME NEW n \in Nodes
    PROVE  /\ Len(Hosts[n]) \in Nat
           /\ \A i \in 1..Len(Hosts[n]) : Hosts[n][i] \in Nodes
           /\ \A h \in Nodes \ {n} : \E i \in 1..Len(Hosts[n]) : Hosts[n][i] = h
           /\ Hosts[n] # << >> => 1 <= Len(Hosts[n])
           /\ Hosts[n] = << >> => Len(Hosts[n]) = 0
BY HostsAssumption

(* A process that starts, and one that has ended. *)
LEMMA FreshFacts ==
    /\ Fresh \in Process /\ Off \in Process
    /\ Fresh.pc = "api" /\ Off.pc = "off"
    /\ \A r \in {Fresh, Off} :
          /\ r.id = NoID /\ r.inst = 0 /\ r.at = 1 /\ r.older = 0 /\ r.members = {}
          /\ r.boot = FALSE /\ r.ready = FALSE /\ r.waited = 0 /\ r.skipped = FALSE
          /\ r.oldest = FALSE /\ r.home = {}
<1>1. Fresh \in Process /\ Off \in Process /\ Fresh.pc = "api" /\ Off.pc = "off"
  BY DEF Fresh, Off, Process, IDs, Asking, Decided
<1>2. ASSUME NEW r \in {Fresh, Off}
      PROVE  /\ r.id = NoID /\ r.inst = 0 /\ r.at = 1 /\ r.older = 0 /\ r.members = {}
             /\ r.boot = FALSE /\ r.ready = FALSE /\ r.waited = 0 /\ r.skipped = FALSE
             /\ r.oldest = FALSE /\ r.home = {}
  <2>1. CASE r = Fresh
    BY <2>1 DEF Fresh
  <2>2. CASE r = Off
    BY <2>2 DEF Off, Fresh
  <2> QED
    BY <2>1, <2>2
<1> QED
  BY <1>1, <1>2

(* A process that has just been started, or has ended.                      *)
LEMMA FreshOK ==
    ASSUME NEW n \in Nodes, NEW r \in {Fresh, Off}
    PROVE  NodeInv(n, r) /\ \A g : Local(n, r, g)
<1>1. r \in Process /\ r.pc \in {"api", "off"} /\ (r.pc = "api" => r = Fresh)
  BY FreshFacts
<1>2. /\ r.id = NoID /\ r.inst = 0 /\ r.at = 1 /\ r.older = 0 /\ r.members = {}
      /\ r.boot = FALSE /\ r.ready = FALSE /\ r.waited = 0 /\ r.oldest = FALSE
  BY FreshFacts
<1>3. Counters(n, r)
  BY <1>1, <1>2, HostsFacts, LimitsAssumption DEF Counters, Asking
<1>4. \A g : Members(n, r, g)
  BY <1>1, <1>2, FS_EmptySet DEF Members, Asking, Decided
<1>5. Flags(r)
  BY <1>1, <1>2 DEF Flags, Decided
<1>6. Seen(n, r) /\ Known(r) /\ Order(n, r)
  BY <1>1, <1>2 DEF Seen, Asked, Known, Order, Counts, Decided
<1> QED
  BY <1>1, <1>3, <1>4, <1>5, <1>6 DEF NodeInv, Local

-----------------------------------------------------------------------------
(* The loop over the hosts.  r has finished with the host it is at.         *)

Finished(n, r) ==
    /\ r \in Process
    /\ r.id = <<n, gen[n]>> /\ r.id \in r.members /\ IsFiniteSet(r.members)
    /\ r.at \in 1..Len(Hosts[n]) /\ r.older <= r.at /\ r.waited <= WaitLimit
    /\ ~r.ready /\ ~r.oldest
    /\ \A i \in 1..r.at : Blind(r) \/ Names(r.members, Hosts[n][i])
    /\ Known(r)
    /\ r.older = r.at => \A i \in 1..r.at : Ahead(r, Hosts[n][i])

(* What a step within connect() leaves alone.                               *)
SameProcess(r, v) == v.id = r.id /\ v.inst = r.inst /\ v.pc \in Asking \cup Decided
Follows(n, r, v) == NodeInv(n, v) /\ (v = Off \/ SameProcess(r, v))

(* The invariant of a record that differs from r in what the loop counts.   *)
LEMMA FinishedOK ==
    ASSUME NEW n \in Nodes, NEW r, Finished(n, r), NEW v \in Process,
           v.id = r.id, v.inst = r.inst, v.members = r.members, v.skipped = r.skipped,
           v.ready = r.ready,
           Counters(n, v),
           \/ v.pc = "poll" /\ v.at = r.at + 1 /\ v.older = r.older /\ ~v.oldest
           \/ v.pc = "poll" /\ v.at = 1 /\ ~v.oldest
           \/ v.pc = "check" /\ v.at = r.at /\ v.older = r.older /\ ~v.oldest
           \/ v.pc = "join" /\ v.at = r.at /\ v.older = r.older /\ ~v.oldest /\ ~v.boot
           \/ v.pc = "start" /\ r.at = Len(Hosts[n]) /\ ~v.oldest
           \/ v.pc = "start" /\ r.older = Len(Hosts[n]) /\ r.at = Len(Hosts[n])
    PROVE  Follows(n, r, v)
<1>a. r \in Process /\ r.at \in Nat /\ r.older \in Nat /\ v.at \in Nat /\ v.older \in Nat
  BY DEF Finished, Process
<1>b. Len(Hosts[n]) \in Nat
  BY HostsFacts
<1>1. v.pc \in Asking \cup Decided
  BY DEF Asking, Decided
<1>2. Members(n, v, gen[n])
  BY <1>1 DEF Members, Finished
<1>3. Flags(v)
  BY DEF Flags, Finished, Decided
<1>4. Seen(n, v)
  <2> SUFFICES ASSUME NEW i \in 1..Len(Hosts[n]), Asked(v, i)
               PROVE  Blind(v) \/ Names(v.members, Hosts[n][i])
    BY DEF Seen
  <2>1. i \in 1..r.at
    BY <1>a, <1>b DEF Asked, Decided
  <2> QED
    BY <2>1 DEF Finished, Blind
<1>5. Known(v)
  BY DEF Known, Finished
<1>6. Order(n, v)
  <2> SUFFICES ASSUME NEW i \in 1..Len(Hosts[n]), Counts(v, i)
               PROVE  Ahead(v, Hosts[n][i])
    BY DEF Order
  <2>1. r.older = r.at /\ i \in 1..r.at
    BY <1>a, <1>b DEF Counts
  <2> QED
    BY <2>1 DEF Finished, Ahead
<1> QED
  BY <1>1, <1>2, <1>3, <1>4, <1>5, <1>6 DEF Follows, NodeInv, Local, SameProcess

(* The end of a round over the hosts keeps the process's invariant. *)
LEMMA VerdictOK ==
    ASSUME NEW n \in Nodes, NEW r, Finished(n, r), r.at = Len(Hosts[n])
    PROVE  Follows(n, r, Verdict(n, r))
<1> DEFINE w == [r EXCEPT !.waited = @ + 1]
<1>a. r \in Process /\ r.waited \in Nat /\ r.waited <= WaitLimit /\ r.older \in Nat /\ r.at \in Nat
      /\ r.older <= r.at /\ Len(Hosts[n]) \in Nat /\ r.at >= 1
  BY HostsFacts DEF Finished, Process
<1>w. w \in Process /\ w.waited = r.waited + 1
  BY <1>a DEF Process
<1>1. CASE r.boot
  <2> DEFINE v == [w EXCEPT !.pc = "start"]
  <2>1. /\ v \in Process /\ v.pc = "start" /\ v.id = r.id /\ v.inst = r.inst
        /\ v.members = r.members /\ v.skipped = r.skipped /\ v.ready = r.ready
        /\ v.oldest = r.oldest /\ v.at = r.at /\ v.older = r.older /\ v.waited = r.waited + 1
    BY <1>a, <1>w DEF Process, Decided
  <2>2. Verdict(n, r) = v
    BY <1>1 DEF Verdict
  <2> HIDE DEF v
  <2>3. Counters(n, v)
    BY <1>a, <2>1, LimitsAssumption DEF Counters, Asking
  <2>4. ~v.oldest
    BY <2>1 DEF Finished
  <2> QED
    BY <2>1, <2>2, <2>3, <2>4, FinishedOK
<1>2. CASE ~r.boot /\ r.older = Len(Hosts[n])
  <2> DEFINE v == [w EXCEPT !.pc = "start", !.boot = TRUE, !.oldest = TRUE]
  <2>1. /\ v \in Process /\ v.pc = "start" /\ v.id = r.id /\ v.inst = r.inst
        /\ v.members = r.members /\ v.skipped = r.skipped /\ v.ready = r.ready
        /\ v.at = r.at /\ v.older = r.older /\ v.waited = r.waited + 1
    BY <1>a, <1>w DEF Process, Decided
  <2>2. Verdict(n, r) = v
    BY <1>2 DEF Verdict
  <2> HIDE DEF v
  <2>3. Counters(n, v)
    BY <1>a, <2>1, LimitsAssumption DEF Counters, Asking
  <2> QED
    BY <1>2, <2>1, <2>2, <2>3, FinishedOK
<1>3. CASE ~r.boot /\ r.older # Len(Hosts[n])
  <2>1. ~r.ready
    BY DEF Finished
  <2>2. CASE w.waited >= WaitLimit
    <3>1. Verdict(n, r) = Off
      BY <1>3, <2>1, <2>2 DEF Verdict
    <3> QED
      BY <3>1, FreshOK DEF Follows
  <2>3. CASE ~(w.waited >= WaitLimit)
    <3> DEFINE v == [w EXCEPT !.pc = "poll", !.at = 1, !.older = 0]
    <3>1. /\ v \in Process /\ v.pc = "poll" /\ v.id = r.id /\ v.inst = r.inst
          /\ v.members = r.members /\ v.skipped = r.skipped /\ v.ready = r.ready
          /\ v.oldest = r.oldest /\ v.at = 1 /\ v.older = 0 /\ v.waited = w.waited
      BY <1>a, <1>w DEF Process, Asking
    <3>2. Verdict(n, r) = v
      BY <1>3, <2>1, <2>3 DEF Verdict
    <3>3. w.waited \in Nat /\ w.waited <= WaitLimit
      BY <1>a, <1>w, <2>3, LimitsAssumption
    <3> HIDE DEF v, w
    <3>4. Counters(n, v)
      BY <1>a, <3>1, <3>3, LimitsAssumption DEF Counters, Asking
    <3>5. ~v.oldest
      BY <3>1 DEF Finished
    <3> QED
      BY <3>1, <3>2, <3>4, <3>5, FinishedOK
  <2> QED
    BY <2>2, <2>3
<1> QED
  BY <1>1, <1>2, <1>3

(* So does the step to the next host. *)
LEMMA NextHostOK ==
    ASSUME NEW n \in Nodes, NEW r, Finished(n, r)
    PROVE  Follows(n, r, NextHost(n, r))
<1>a. r \in Process /\ r.waited \in Nat /\ r.waited <= WaitLimit /\ r.older \in Nat /\ r.at \in Nat
      /\ r.older <= r.at /\ Len(Hosts[n]) \in Nat /\ r.at >= 1 /\ r.at <= Len(Hosts[n])
  BY HostsFacts DEF Finished, Process
<1>1. CASE r.at < Len(Hosts[n])
  <2> DEFINE v == [r EXCEPT !.at = r.at + 1, !.pc = "poll"]
  <2>0. r.at + 1 \in Nat
    BY <1>a
  <2>1. /\ v \in Process /\ v.pc = "poll" /\ v.id = r.id /\ v.inst = r.inst
        /\ v.members = r.members /\ v.skipped = r.skipped /\ v.ready = r.ready
        /\ v.oldest = r.oldest /\ v.at = r.at + 1 /\ v.older = r.older /\ v.waited = r.waited
    BY <1>a, <2>0 DEF Process, Asking
  <2>2. NextHost(n, r) = v
    BY <1>1 DEF NextHost
  <2> HIDE DEF v
  <2>3. Counters(n, v)
    BY <1>a, <1>1, <2>1, LimitsAssumption DEF Counters, Asking
  <2>4. ~v.oldest
    BY <2>1 DEF Finished
  <2> QED
    BY <2>1, <2>2, <2>3, <2>4, FinishedOK
<1>2. CASE ~(r.at < Len(Hosts[n]))
  <2>1. r.at = Len(Hosts[n])
    BY <1>a, <1>2
  <2>2. NextHost(n, r) = Verdict(n, r)
    BY <1>2 DEF NextHost
  <2> QED
    BY <2>1, <2>2, VerdictOK
<1> QED
  BY <1>1, <1>2

-----------------------------------------------------------------------------
(* One process changes; what the others hold stays true.                    *)

Late(pc) == pc \notin {"api", "inst"}

(* A step of one process, described by what it leaves in the record, keeps NodesInv. *)
LEMMA Moves ==
    ASSUME Values, NodesInv, NEW n \in Nodes, NEW r \in Process, Become(n, r),
           gen' \in [Nodes -> Nat], \A m \in Nodes \ {n} : gen'[m] = gen[m],
           \/ gen'[n] > gen[n]
           \/ gen'[n] = gen[n] /\ (Late(node[n].pc) => Late(r.pc)),
           Local(n, r, gen'[n]), Order(n, r),
           \/ Known(r)
           \/ r.members = {<<n, gen'[n]>>} /\ Late(r.pc),
           \/ r.id = NoID
           \/ r.id = node[n].id /\ r.inst = node[n].inst
           \/ /\ \A m \in Nodes \ {n} : r.id \notin node[m].members
              /\ \A i \in 1..Len(Hosts[n]) : ~Counts(r, i)
    PROVE  NodesInv' /\ node' \in [Nodes -> Process]
<1>1. node' \in [Nodes -> Process] /\ node'[n] = r /\ \A m \in Nodes \ {n} : node'[m] = node[m]
  BY DEF Values, Become
<1>2. ASSUME NEW m \in Nodes
      PROVE  Local(m, node'[m], gen'[m]) /\ Order(m, node'[m])
  BY <1>1 DEF NodesInv, NodeInv
<1>3. ASSUME NEW x \in IDs \ {NoID}, Drawn(x)
      PROVE  Drawn(x)'
  <2>1. x[1] \in Nodes /\ x[2] \in Nat /\ gen[x[1]] \in Nat /\ gen'[x[1]] \in Nat
    BY IDParts DEF Values
  <2> QED
    BY <1>1, <1>3, <2>1 DEF Drawn, Late
<1>4. ASSUME NEW m \in Nodes
      PROVE  Known(node[m])'
  <2> SUFFICES ASSUME NEW x \in node'[m].members \ {NoID}
               PROVE  Drawn(x)'
    BY DEF Known
  <2>1. x \in IDs \ {NoID}
    BY <1>1 DEF Process
  <2>2. CASE m = n /\ ~Known(r)
    BY <1>1, <2>2, OwnID DEF Drawn, Late
  <2>3. CASE m # n \/ Known(r)
    <3>1. Drawn(x)
      BY <1>1, <2>3 DEF NodesInv, NodeInv, Known
    <3> QED
      BY <1>3, <2>1, <3>1
  <2> QED
    BY <2>2, <2>3
<1>5. ASSUME NEW m \in Nodes
      PROVE  Order(m, node[m])'
  <2> SUFFICES ASSUME NEW i \in 1..Len(Hosts[m]), Counts(node'[m], i)
               PROVE  Ahead(node[m], Hosts[m][i])'
    BY DEF Order, Counts
  <2> DEFINE h == Hosts[m][i]
  <2>0. h \in Nodes
    BY HostsFacts
  <2>1. Ahead(node'[m], h)
    BY <1>2 DEF Order
  <2> HIDE DEF h
  <2>2. CASE h # n
    BY <1>1, <2>0, <2>1, <2>2 DEF Ahead, h
  <2>3. CASE h = n
    BY <1>1, <2>0, <2>1, <2>3 DEF Ahead, h
  <2> QED
    BY <2>2, <2>3
<1>6. ASSUME NEW m \in Nodes
      PROVE  Local(m, node[m], gen[m])'
  BY <1>2 DEF Local, Counters, Members, Flags, Seen, Asked, Blind, Names
<1> QED
  BY <1>1, <1>4, <1>5, <1>6 DEF NodesInv, NodeInv

(* A step of connect() between two requests, or the end of the process.     *)
LEMMA Continues ==
    ASSUME Values, NodesInv, NEW n \in Nodes, node[n].pc \in Asking \cup Decided,
           NEW r \in Process, Follows(n, node[n], r), Become(n, r), UNCHANGED gen
    PROVE  NodesInv' /\ node' \in [Nodes -> Process]
<1>1. gen' \in [Nodes -> Nat] /\ \A m \in Nodes : gen'[m] = gen[m]
  BY DEF Values
<1>2. Local(n, r, gen'[n]) /\ Order(n, r) /\ Known(r)
  BY <1>1 DEF Follows, NodeInv
<1>3. Late(r.pc)
  BY FreshFacts DEF Follows, SameProcess, Asking, Decided, Late
<1>4. r.id = NoID \/ (r.id = node[n].id /\ r.inst = node[n].inst)
  BY FreshFacts DEF Follows, SameProcess
<1> QED
  BY <1>1, <1>2, <1>3, <1>4, Moves

(* What follows a process is a process. *)
LEMMA FollowsType ==
    ASSUME NEW n, NEW r, NEW v, Follows(n, r, v)
    PROVE  v \in Process
BY DEF Follows, NodeInv, Local

(* The invariant of the variables the processes do not share.               *)
LEMMA ValuesStep ==
    ASSUME Values, UNCHANGED <<gen, faults>>, node' \in [Nodes -> Process]
    PROVE  Values'
BY DEF Values

(* A fault keeps the counter's type. *)
LEMMA FaultStep ==
    ASSUME Values, UNCHANGED gen, UNCHANGED faults \/ Fault, node' \in [Nodes -> Process]
    PROVE  Values'
BY LimitsAssumption DEF Values, Fault

(* What is said of the processes depends on node and gen alone.             *)
LEMMA NodesSame == NodesInv /\ UNCHANGED <<node, gen>> => NodesInv'
<1> SUFFICES ASSUME NodesInv, node' = node, gen' = gen, NEW n \in Nodes
             PROVE  NodeInv(n, node[n])'
  BY DEF NodesInv
<1>1. NodeInv(n, node[n])
  BY DEF NodesInv
<1> QED
  BY <1>1 DEF NodeInv, Local, Counters, Members, Flags, Seen, Asked, Blind, Names,
              Known, Drawn, Order, Counts, Ahead

(* ClusterInv depends on the clusters alone. *)
LEMMA ClustersSame == ClusterInv /\ UNCHANGED clusters => ClusterInv'
BY DEF ClusterInv

-----------------------------------------------------------------------------
(* The steps of a process, one lemma each.                                  *)

(* The initial states satisfy IInv. *)
LEMMA InitIInv == Init => IInv
<1> SUFFICES ASSUME Init
             PROVE  IInv
  OBVIOUS
<1>1. node = [n \in Nodes |-> Fresh] /\ gen = [n \in Nodes |-> 1] /\ faults = 0
  BY DEF Init
<1>2. Values
  BY <1>1, FreshFacts, LimitsAssumption DEF Values
<1>3. NodesInv
  BY <1>1, FreshOK DEF NodesInv
<1>4. ClusterInv
  BY DEF Init, ClusterInv
<1> QED
  BY <1>2, <1>3, <1>4 DEF IInv

(* IInv is kept by Restart. *)
LEMMA RestartIInv ==
    ASSUME IInv, NEW n \in Nodes, Restart(n)
    PROVE  IInv'
<1>0. Values /\ NodesInv /\ ClusterInv
  BY DEF IInv
<1>1. /\ gen' \in [Nodes -> Nat] /\ gen'[n] = gen[n] + 1 /\ gen[n] \in Nat
      /\ \A m \in Nodes \ {n} : gen'[m] = gen[m]
  BY <1>0 DEF Restart, Values
<1>2. Local(n, Fresh, gen'[n]) /\ Order(n, Fresh) /\ Known(Fresh)
  BY FreshOK DEF NodeInv
<1>3. Fresh \in Process /\ Fresh.id = NoID /\ Become(n, Fresh) /\ gen'[n] > gen[n]
  BY <1>1, FreshFacts DEF Restart
<1>4. NodesInv' /\ node' \in [Nodes -> Process]
  BY <1>0, <1>1, <1>2, <1>3, Moves
<1>5. Values'
  BY <1>0, <1>1, <1>4, LimitsAssumption DEF Values, Restart, Fault
<1>6. ClusterInv'
  BY <1>0, ClustersSame DEF Restart
<1> QED
  BY <1>4, <1>5, <1>6 DEF IInv

(* IInv is kept by Instantiate. *)
LEMMA InstantiateIInv ==
    ASSUME IInv, NEW n \in Nodes, NEW t \in Clock(n, gen[n]), Instantiate(n, t)
    PROVE  IInv'
<1>0. Values /\ NodesInv /\ ClusterInv
  BY DEF IInv
<1>1. t \in Nat
  <2>1. gen[n] \in 1..1 + MaxFaults
    BY <1>0, LimitsAssumption DEF Values
  <2> QED
    BY <2>1, ClockAssumption
<1>2. node[n] = Fresh
  BY <1>0 DEF Instantiate, NodesInv, NodeInv, Local, Flags
<1> DEFINE r == [Fresh EXCEPT !.pc = "inst", !.inst = t]
<1>3. /\ r \in Process /\ r.pc = "inst" /\ r.id = NoID /\ r.inst = t /\ r.at = 1 /\ r.older = 0
      /\ r.members = {} /\ r.boot = FALSE /\ r.ready = FALSE /\ r.waited = 0 /\ r.oldest = FALSE
      /\ r = [Fresh EXCEPT !.pc = "inst", !.inst = r.inst]
  BY <1>1 DEF Fresh, Process, IDs
<1>4. Become(n, r)
  BY <1>2 DEF Instantiate
<1> HIDE DEF r
<1>5. /\ gen' \in [Nodes -> Nat] /\ \A m \in Nodes : gen'[m] = gen[m]
  BY <1>0 DEF Instantiate, Values
<1>6. Counters(n, r)
  BY <1>3, HostsFacts, LimitsAssumption DEF Counters, Asking
<1>7. Members(n, r, gen'[n])
  BY <1>3, FS_EmptySet DEF Members, Asking, Decided
<1>8. Flags(r)
  BY <1>3 DEF Flags
<1>9. Seen(n, r) /\ Known(r) /\ Order(n, r)
  BY <1>3 DEF Seen, Asked, Known, Order, Counts, Decided
<1>10. Local(n, r, gen'[n])
  BY <1>3, <1>6, <1>7, <1>8, <1>9 DEF Local
<1>11. ~Late(node[n].pc)
  BY <1>2, FreshFacts DEF Late
<1>12. NodesInv' /\ node' \in [Nodes -> Process]
  BY <1>0, <1>3, <1>4, <1>5, <1>9, <1>10, <1>11, Moves
<1>13. Values' /\ ClusterInv'
  BY <1>0, <1>12, ValuesStep, ClustersSame DEF Instantiate
<1> QED
  BY <1>12, <1>13 DEF IInv

(* IInv is kept by DrawID. *)
LEMMA DrawIDIInv ==
    ASSUME IInv, NEW n \in Nodes, DrawID(n)
    PROVE  IInv'
<1>0. Values /\ NodesInv /\ ClusterInv
  BY DEF IInv
<1> DEFINE id == ReplicaID(n)
           o == node[n]
           p == [o EXCEPT !.pc = "poll", !.id = id, !.members = {id}]
           q == [[p EXCEPT !.waited = @ + 1] EXCEPT !.pc = "start", !.boot = TRUE, !.oldest = TRUE]
           r == IF Hosts[n] = << >> THEN Verdict(n, p) ELSE p
<1>1. gen[n] \in Nat /\ id = <<n, gen[n]>> /\ id \in IDs /\ id # NoID
  BY <1>0, OwnID DEF Values, ReplicaID
<1>2. /\ o \in Process /\ o.pc = "inst" /\ o.at = 1 /\ o.older = 0 /\ o.boot = FALSE
      /\ o.ready = FALSE /\ o.waited = 0 /\ o.oldest = FALSE /\ o.inst \in Nat
  <2>1. o \in Process /\ o.pc = "inst" /\ o = [Fresh EXCEPT !.pc = "inst", !.inst = o.inst]
    BY <1>0 DEF DrawID, NodesInv, NodeInv, Local, Flags
  <2> QED
    BY <2>1 DEF Fresh, Process
<1> HIDE DEF id, o
<1>3. /\ p \in Process /\ p.pc = "poll" /\ p.id = id /\ p.at = 1 /\ p.older = 0
      /\ p.members = {id} /\ p.boot = FALSE /\ p.ready = FALSE /\ p.waited = 0 /\ p.oldest = FALSE
  BY <1>1, <1>2 DEF Process, Asking
<1> HIDE DEF p
<1>4. /\ q \in Process /\ q.pc = "start" /\ q.id = id /\ q.at = 1 /\ q.older = 0
      /\ q.members = {id} /\ q.ready = FALSE /\ q.waited = 1 /\ q.boot = TRUE /\ q.oldest = TRUE
  <2>1. p.waited + 1 = 1 /\ 1 \in Nat
    BY <1>3
  <2> QED
    BY <1>3, <2>1 DEF Process, Decided
<1>5. Hosts[n] = << >> => r = q
  <2>1. Hosts[n] = << >> => p.older = Len(Hosts[n])
    BY <1>3, HostsFacts
  <2> QED
    BY <1>3, <2>1 DEF Verdict
<1>6. Hosts[n] # << >> => r = p
  OBVIOUS
<1>7. Become(n, r)
  BY DEF DrawID, id, o, p
<1> HIDE DEF q, r
<1>8. /\ r \in Process /\ r.id = id /\ r.members = {id} /\ r.at = 1 /\ r.older = 0
      /\ r.ready = FALSE /\ r.pc \in {"poll", "start"} /\ r.waited \in 0..1
      /\ r.pc = "poll" => r.waited = 0 /\ Hosts[n] # << >> /\ r.oldest = FALSE
      /\ r.pc = "start" => Hosts[n] = << >>
  BY <1>3, <1>4, <1>5, <1>6
<1>9. Counters(n, r)
  BY <1>8, HostsFacts, LimitsAssumption DEF Counters, Asking
<1>10. Members(n, r, gen[n])
  BY <1>1, <1>8, FS_Singleton DEF Members, Asking, Decided
<1>11. Flags(r)
  BY <1>8 DEF Flags, Decided
<1>12. \A i \in 1..Len(Hosts[n]) : ~Asked(r, i) /\ ~Counts(r, i)
  BY <1>8, HostsFacts DEF Asked, Counts, Decided
<1>13. Local(n, r, gen[n]) /\ Order(n, r)
  BY <1>8, <1>9, <1>10, <1>11, <1>12 DEF Local, Seen, Order
<1>14. \A m \in Nodes \ {n} : r.id \notin node[m].members
  <2> SUFFICES ASSUME NEW m \in Nodes, id \in node[m].members
               PROVE  FALSE
    BY <1>8
  <2>1. Drawn(id)
    BY <1>0, <1>1 DEF NodesInv, NodeInv, Known
  <2> QED
    BY <1>1, <1>2, <2>1, OwnID DEF Drawn, id, o
<1>15. /\ gen' \in [Nodes -> Nat] /\ \A m \in Nodes : gen'[m] = gen[m]
  BY <1>0 DEF DrawID, Values
<1>16. r.members = {<<n, gen'[n]>>} /\ Late(r.pc)
  BY <1>1, <1>8, <1>15 DEF Late
<1>17. NodesInv' /\ node' \in [Nodes -> Process]
  BY <1>0, <1>7, <1>8, <1>12, <1>13, <1>14, <1>15, <1>16, Moves
<1>18. Values' /\ ClusterInv'
  BY <1>0, <1>17, ValuesStep, ClustersSame DEF DrawID
<1> QED
  BY <1>17, <1>18 DEF IInv

(* What the invariant says of the process that takes the step.              *)
LEMMA AskingFacts ==
    ASSUME IInv, NEW n \in Nodes, node[n].pc \in Asking
    PROVE  LET r == node[n] IN
           /\ r \in Process /\ NodeInv(n, r) /\ gen[n] \in Nat
           /\ r.id = <<n, gen[n]>> /\ r.id \in r.members /\ IsFiniteSet(r.members)
           /\ r.at \in 1..Len(Hosts[n]) /\ r.older <= r.at /\ r.waited <= WaitLimit
           /\ ~r.ready /\ ~r.oldest
           /\ Known(r)
           /\ Host(n) \in Nodes /\ Host(n) = Hosts[n][r.at]
           /\ r.pc = "poll" => r.older < r.at
           /\ r.at \in Nat /\ r.older \in Nat /\ r.waited \in Nat /\ r.inst \in Nat
<1> DEFINE r == node[n]
<1>1. /\ r \in Process /\ NodeInv(n, r) /\ gen[n] \in Nat /\ r.pc \in Asking
      /\ Counters(n, r) /\ Members(n, r, gen[n]) /\ Flags(r) /\ Known(r)
      /\ Host(n) = Hosts[n][r.at]
  BY DEF IInv, Values, NodesInv, NodeInv, Local, Host
<1> HIDE DEF r
<1>2. r.pc \notin Decided
  BY <1>1 DEF Asking, Decided
<1>3. r.at \in Nat /\ r.older \in Nat /\ r.waited \in Nat /\ r.inst \in Nat
      /\ r.ready \in BOOLEAN /\ r.oldest \in BOOLEAN
  BY <1>1 DEF Process
<1>4. r.at \in 1..Len(Hosts[n]) /\ r.older <= r.at /\ r.waited <= WaitLimit
      /\ (r.pc = "poll" => r.older < r.at)
  BY <1>1, <1>3, HostsFacts DEF Counters
<1>5. ~r.ready /\ ~r.oldest /\ r.id = <<n, gen[n]>> /\ r.id \in r.members /\ IsFiniteSet(r.members)
  BY <1>1, <1>2 DEF Members, Flags
<1>6. Host(n) \in Nodes
  BY <1>1, <1>4, HostsFacts
<1> QED
  BY <1>1, <1>3, <1>4, <1>5, <1>6 DEF r

(* Once the status of the host has been read, the host is done with.        *)
LEMMA AskedIsFinished ==
    ASSUME IInv, NEW n \in Nodes, node[n].pc \in {"check", "join"}
    PROVE  Finished(n, node[n])
<1> DEFINE r == node[n]
<1>0. r.pc \in Asking
  BY DEF Asking
<1>1. /\ r \in Process /\ NodeInv(n, r)
      /\ r.id = <<n, gen[n]>> /\ r.id \in r.members /\ IsFiniteSet(r.members)
      /\ r.at \in 1..Len(Hosts[n]) /\ r.older <= r.at /\ r.waited <= WaitLimit
      /\ ~r.ready /\ ~r.oldest /\ Known(r) /\ r.at \in Nat
  BY <1>0, AskingFacts
<1>2. \A i \in 1..r.at : i \in 1..Len(Hosts[n]) /\ i <= r.at
  BY <1>1, HostsFacts
<1>3. \A i \in 1..r.at : Blind(r) \/ Names(r.members, Hosts[n][i])
  BY <1>1, <1>2 DEF NodeInv, Local, Seen, Asked
<1>4. r.older = r.at => \A i \in 1..r.at : Ahead(r, Hosts[n][i])
  BY <1>1, <1>2 DEF NodeInv, Order, Counts
<1> QED
  BY <1>1, <1>3, <1>4 DEF Finished

(* The last lemma of every step of connect() that leaves the clusters.      *)
LEMMA StepIInv ==
    ASSUME IInv, NEW n \in Nodes, node[n].pc \in Asking \cup Decided,
           NEW r, Follows(n, node[n], r), Become(n, r),
           UNCHANGED <<gen, clusters>>, UNCHANGED faults \/ Fault
    PROVE  IInv'
<1>1. NodesInv' /\ node' \in [Nodes -> Process]
  BY FollowsType, Continues DEF IInv
<1>2. Values' /\ ClusterInv'
  BY <1>1, FaultStep, ClustersSame DEF IInv
<1> QED
  BY <1>1, <1>2 DEF IInv

(* A process may always end. *)
LEMMA StopFollows ==
    ASSUME NEW n \in Nodes, NEW r
    PROVE  Follows(n, r, Off)
BY FreshOK DEF Follows

(* IInv is kept by PollFail. *)
LEMMA PollFailIInv ==
    ASSUME IInv, NEW n \in Nodes, PollFail(n)
    PROVE  IInv'
<1> DEFINE o == node[n]
           r == [o EXCEPT !.waited = o.waited + 1]
<1>0. node[n].pc \in Asking /\ o.pc = "poll" /\ UNCHANGED <<gen, clusters>>
      /\ (UNCHANGED faults \/ Fault)
  BY DEF PollFail, Asking
<1>1. CASE o.waited + 1 >= WaitLimit
  <2>1. Become(n, Off)
    BY <1>1 DEF PollFail, Stop
  <2> QED
    BY <1>0, <2>1, StepIInv, StopFollows
<1>2. CASE ~(o.waited + 1 >= WaitLimit)
  <2>1. Become(n, r)
    BY <1>2 DEF PollFail
  <2>2. o \in Process /\ NodeInv(n, o) /\ o.waited \in Nat
    BY <1>0, AskingFacts
  <2> HIDE DEF o
  <2>3. o.waited + 1 \in Nat /\ o.waited + 1 <= WaitLimit
    BY <1>2, <2>2, LimitsAssumption
  <2>4. /\ r \in Process /\ r.pc = "poll" /\ r.id = o.id /\ r.inst = o.inst /\ r.at = o.at
        /\ r.older = o.older /\ r.members = o.members /\ r.boot = o.boot /\ r.ready = o.ready
        /\ r.waited = o.waited + 1 /\ r.skipped = o.skipped /\ r.oldest = o.oldest
    BY <1>0, <2>2, <2>3 DEF Process, Asking
  <2> HIDE DEF r
  <2>5. Counters(n, r)
    BY <1>0, <2>2, <2>3, <2>4, LimitsAssumption DEF NodeInv, Local, Counters, Asking
  <2>6. Members(n, r, gen[n]) /\ Flags(r) /\ Seen(n, r)
    BY <1>0, <2>2, <2>4 DEF NodeInv, Local, Members, Flags, Seen, Asked, Blind
  <2>7. Known(r) /\ Order(n, r)
    BY <1>0, <2>2, <2>4 DEF NodeInv, Known, Order, Counts, Ahead
  <2>8. Follows(n, node[n], r)
    BY <2>4, <2>5, <2>6, <2>7 DEF Follows, NodeInv, Local, SameProcess, Asking, o
  <2> QED
    BY <1>0, <2>1, <2>8, StepIInv
<1> QED
  BY <1>1, <1>2

(* IInv is kept by PollBad. *)
LEMMA PollBadIInv ==
    ASSUME IInv, NEW n \in Nodes, PollBad(n)
    PROVE  IInv'
<1> DEFINE o == node[n]
           r == [o EXCEPT !.skipped = TRUE]
<1>0. node[n].pc \in Asking /\ o.pc = "poll" /\ UNCHANGED <<gen, clusters>> /\ Fault
      /\ Become(n, NextHost(n, r))
  BY DEF PollBad, Asking
<1>1. /\ o \in Process /\ o.id = <<n, gen[n]>> /\ o.id \in o.members /\ IsFiniteSet(o.members)
      /\ o.at \in 1..Len(Hosts[n]) /\ o.older < o.at /\ o.waited <= WaitLimit
      /\ ~o.ready /\ ~o.oldest /\ Known(o) /\ o.at \in Nat /\ o.older \in Nat
  BY <1>0, AskingFacts
<1> HIDE DEF o
<1>2. /\ r \in Process /\ r.id = o.id /\ r.inst = o.inst /\ r.at = o.at
      /\ r.older = o.older /\ r.members = o.members /\ r.ready = o.ready
      /\ r.waited = o.waited /\ r.skipped = TRUE /\ r.oldest = o.oldest
  BY <1>1 DEF Process
<1> HIDE DEF r
<1>3. Finished(n, r)
  BY <1>1, <1>2 DEF Finished, Blind, Known
<1>4. Follows(n, node[n], NextHost(n, r))
  BY <1>2, <1>3, NextHostOK DEF Follows, SameProcess, o
<1> QED
  BY <1>0, <1>4, StepIInv

(* The status that was read is that of the process on the host.             *)
LEMMA IDFacts ==
    ASSUME IInv, NEW h \in Nodes, node[h].id # NoID
    PROVE  node[h].id = <<h, gen[h]>> /\ node[h].id \in IDs \ {NoID} /\ node[h].id[1] = h
           /\ Drawn(node[h].id)
<1>1. gen[h] \in Nat /\ Members(h, node[h], gen[h])
  BY DEF IInv, Values, NodesInv, NodeInv, Local
<1>2. node[h].pc \in Asking \cup Decided /\ node[h].id = <<h, gen[h]>>
  BY <1>1 DEF Members
<1>3. Late(node[h].pc)
  BY <1>2 DEF Late, Asking, Decided
<1> QED
  BY <1>1, <1>2, <1>3, OwnID DEF Drawn, Late

(* A status that was answered is counted and listed as Finished demands. *)
LEMMA StatusFinished ==
    ASSUME IInv, NEW n \in Nodes, node[n].pc = "poll",
           NEW s, s = Status(Host(n)), NEW r,
           r = [node[n] EXCEPT !.older = @ + Counted(node[n], s), !.members = @ \cup {s.id}]
    PROVE  Finished(n, r) /\ r.id = node[n].id /\ r.inst = node[n].inst
<1> DEFINE o == node[n]
           h == Host(n)
           c == Counted(o, s)
<1>1. /\ o \in Process /\ NodeInv(n, o) /\ o.id = <<n, gen[n]>> /\ o.id \in o.members
      /\ IsFiniteSet(o.members) /\ o.pc = "poll" /\ h \in Nodes /\ h = Hosts[n][o.at]
      /\ o.at \in 1..Len(Hosts[n]) /\ o.older < o.at /\ o.waited <= WaitLimit
      /\ ~o.ready /\ ~o.oldest /\ Known(o) /\ o.at \in Nat /\ o.older \in Nat /\ o.inst \in Nat
  BY AskingFacts DEF Asking
<1>2. s.id = node[h].id /\ s.inst = node[h].inst
  BY DEF Status
<1>3. s.id \in IDs /\ s.inst \in Nat
  BY <1>1, <1>2 DEF IInv, Values, Process
<1>4. c \in 0..1 /\ (c = 1 => s.inst > o.inst)
  BY <1>1, <1>3 DEF Counted
<1>5. r = [o EXCEPT !.older = o.older + c, !.members = o.members \cup {s.id}]
  OBVIOUS
<1> HIDE DEF o, h, c
<1>6. o.older + c \in Nat /\ o.members \cup {s.id} \in SUBSET IDs
  BY <1>1, <1>3, <1>4 DEF Process
<1>7. /\ r \in Process /\ r.id = o.id /\ r.inst = o.inst /\ r.at = o.at
      /\ r.older = o.older + c /\ r.members = o.members \cup {s.id} /\ r.ready = o.ready
      /\ r.waited = o.waited /\ r.skipped = o.skipped /\ r.oldest = o.oldest
  BY <1>1, <1>5, <1>6 DEF Process
<1>8. IsFiniteSet(r.members)
  BY <1>1, <1>7, FS_AddElement
<1>9. ASSUME NEW i \in 1..r.at
      PROVE  Blind(r) \/ Names(r.members, Hosts[n][i])
  <2>1. CASE i = r.at
    BY <1>1, <1>2, <1>7, <2>1, IDFacts DEF Blind, Names
  <2>2. CASE i # r.at
    <3>1. i \in 1..Len(Hosts[n]) /\ i < o.at
      BY <1>1, <1>7, <2>2, HostsFacts
    <3>2. Blind(o) \/ Names(o.members, Hosts[n][i])
      BY <1>1, <3>1 DEF NodeInv, Local, Seen, Asked
    <3> QED
      BY <1>7, <3>2 DEF Blind, Names
  <2> QED
    BY <2>1, <2>2
<1>10. Known(r)
  BY <1>1, <1>2, <1>7, IDFacts DEF Known
<1>11. ASSUME r.older = r.at, NEW i \in 1..r.at
       PROVE  Ahead(r, Hosts[n][i])
  <2>1. c = 1 /\ o.older + 1 = o.at /\ i \in 1..Len(Hosts[n])
    BY <1>1, <1>4, <1>7, <1>11, HostsFacts
  <2> DEFINE k == Hosts[n][i]
  <2>2. k \in Nodes
    BY <2>1, HostsFacts
  <2> SUFFICES ASSUME node[k].id \in r.members, node[k].id # NoID
               PROVE  node[k].inst > r.inst
    BY DEF Ahead
  <2>3. CASE node[k].id = s.id
    <3>1. k = h
      BY <1>1, <1>2, <2>2, <2>3, IDFacts
    <3> HIDE DEF k
    <3> QED
      BY <1>2, <1>4, <1>7, <2>1, <3>1
  <2>4. CASE node[k].id # s.id
    <3>1. i # o.at
      BY <1>1, <1>2, <2>4
    <3>2. i < o.at
      BY <1>1, <1>7, <3>1
    <3>3. Ahead(o, k)
      BY <1>1, <2>1, <3>2 DEF NodeInv, Order, Counts
    <3> HIDE DEF k
    <3> QED
      BY <1>7, <2>4, <3>3 DEF Ahead
  <2> QED
    BY <2>3, <2>4
<1>12. r.older <= r.at
  BY <1>1, <1>4, <1>7
<1> QED
  BY <1>1, <1>7, <1>8, <1>9, <1>10, <1>11, <1>12 DEF Finished, o

(* IInv is kept by PollOk. *)
LEMMA PollOkIInv ==
    ASSUME IInv, NEW n \in Nodes, PollOk(n)
    PROVE  IInv'
<1> DEFINE s == Status(Host(n))
           r == [node[n] EXCEPT !.older = @ + Counted(node[n], s), !.members = @ \cup {s.id}]
           v == [r EXCEPT !.pc = "check"]
<1>0. node[n].pc \in Asking /\ node[n].pc = "poll" /\ UNCHANGED <<gen, clusters, faults>>
  BY DEF PollOk, Asking
<1>1. Finished(n, r) /\ r.id = node[n].id /\ r.inst = node[n].inst
  BY <1>0, StatusFinished
<1>2. Become(n, Off) \/ Become(n, v) \/ Become(n, NextHost(n, r))
  BY DEF PollOk, Stop
<1> HIDE DEF s, r
<1>3. CASE Become(n, Off)
  BY <1>0, <1>3, StepIInv, StopFollows
<1>4. CASE Become(n, v)
  <2>1. /\ r \in Process /\ r.at \in 1..Len(Hosts[n]) /\ r.older <= r.at /\ r.waited <= WaitLimit
        /\ r.at \in Nat /\ r.older \in Nat /\ r.waited \in Nat /\ ~r.oldest
    BY <1>1 DEF Finished, Process
  <2>2. /\ v \in Process /\ v.pc = "check" /\ v.id = r.id /\ v.inst = r.inst
        /\ v.members = r.members /\ v.skipped = r.skipped /\ v.ready = r.ready
        /\ v.oldest = r.oldest /\ v.at = r.at /\ v.older = r.older /\ v.waited = r.waited
    BY <2>1 DEF Process, Asking
  <2> HIDE DEF v
  <2>3. Counters(n, v)
    BY <2>1, <2>2, HostsFacts, LimitsAssumption DEF Counters, Asking
  <2>4. Follows(n, r, v)
    BY <1>1, <2>1, <2>2, <2>3, FinishedOK
  <2>5. Follows(n, node[n], v)
    BY <1>1, <2>4 DEF Follows, SameProcess
  <2> QED
    BY <1>0, <1>4, <2>5, StepIInv
<1>5. CASE Become(n, NextHost(n, r))
  <2>1. Follows(n, node[n], NextHost(n, r))
    BY <1>1, NextHostOK DEF Follows, SameProcess
  <2> QED
    BY <1>0, <1>5, <2>1, StepIInv
<1> QED
  BY <1>2, <1>3, <1>4, <1>5

(* IInv is kept by CheckStarted. *)
LEMMA CheckStartedIInv ==
    ASSUME IInv, NEW n \in Nodes, CheckStarted(n)
    PROVE  IInv'
<1> DEFINE o == node[n]
           v == [o EXCEPT !.pc = "join", !.boot = FALSE]
           r == [o EXCEPT !.boot = TRUE]
<1>0. node[n].pc \in Asking /\ UNCHANGED <<gen, clusters, faults>> /\ Finished(n, o)
  BY AskedIsFinished DEF CheckStarted, Asking
<1>1. Become(n, v) \/ Become(n, NextHost(n, r))
  BY DEF CheckStarted, NotStarted
<1>2. /\ o \in Process /\ o.at \in 1..Len(Hosts[n]) /\ o.older <= o.at /\ o.waited <= WaitLimit
      /\ o.at \in Nat /\ o.older \in Nat /\ o.waited \in Nat /\ ~o.oldest
  BY <1>0 DEF Finished, Process
<1> HIDE DEF o
<1>3. CASE Become(n, v)
  <2>1. /\ v \in Process /\ v.pc = "join" /\ v.id = o.id /\ v.inst = o.inst
        /\ v.members = o.members /\ v.skipped = o.skipped /\ v.ready = o.ready /\ v.boot = FALSE
        /\ v.oldest = o.oldest /\ v.at = o.at /\ v.older = o.older /\ v.waited = o.waited
    BY <1>2 DEF Process, Asking
  <2> HIDE DEF v
  <2>2. Counters(n, v)
    BY <1>2, <2>1, HostsFacts, LimitsAssumption DEF Counters, Asking
  <2>3. Follows(n, o, v)
    BY <1>0, <1>2, <2>1, <2>2, FinishedOK
  <2> QED
    BY <1>0, <1>3, <2>3, StepIInv DEF o
<1>4. CASE Become(n, NextHost(n, r))
  <2>1. /\ r \in Process /\ r.id = o.id /\ r.inst = o.inst
        /\ r.members = o.members /\ r.skipped = o.skipped /\ r.ready = o.ready
        /\ r.oldest = o.oldest /\ r.at = o.at /\ r.older = o.older /\ r.waited = o.waited
    BY <1>2 DEF Process
  <2> HIDE DEF r
  <2>2. Finished(n, r)
    BY <1>0, <2>1 DEF Finished, Blind, Known, Ahead
  <2>3. Follows(n, o, NextHost(n, r))
    BY <2>1, <2>2, NextHostOK DEF Follows, SameProcess
  <2> QED
    BY <1>0, <1>4, <2>3, StepIInv DEF o
<1> QED
  BY <1>1, <1>3, <1>4

(* A successful join ends the loop with the empty list.                     *)
LEMMA JoinedOK ==
    ASSUME IInv, NEW n \in Nodes, node[n].pc = "join"
    PROVE  Follows(n, node[n], Joined(n, node[n]))
<1> DEFINE o == node[n]
           r == [o EXCEPT !.members = {}, !.ready = TRUE]
           w == [r EXCEPT !.waited = @ + 1]
           v == IF r.older = Len(Hosts[n])
                  THEN [w EXCEPT !.pc = "start", !.boot = TRUE, !.oldest = TRUE]
                  ELSE [w EXCEPT !.pc = "start"]
<1>1. /\ o \in Process /\ NodeInv(n, o) /\ gen[n] \in Nat /\ o.id = <<n, gen[n]>>
      /\ o.at \in 1..Len(Hosts[n]) /\ o.older <= o.at /\ o.waited <= WaitLimit /\ ~o.oldest
      /\ o.at \in Nat /\ o.older \in Nat /\ o.waited \in Nat
  BY AskingFacts DEF Asking
<1>2. ~o.boot
  BY <1>1 DEF NodeInv, Local, Flags
<1>3. Joined(n, o) = v
  <2>1. r.boot = o.boot /\ r.ready = TRUE
    BY <1>1 DEF Process
  <2> HIDE DEF r
  <2> QED
    BY <1>2, <2>1 DEF Joined, Verdict, r
<1> HIDE DEF o
<1>4. r \in Process /\ r.id = o.id /\ r.inst = o.inst /\ r.at = o.at /\ r.older = o.older
      /\ r.members = {} /\ r.boot = o.boot /\ r.ready = TRUE /\ r.waited = o.waited
      /\ r.oldest = o.oldest
  BY <1>1 DEF Process
<1> HIDE DEF r
<1>5. w \in Process /\ w.id = o.id /\ w.inst = o.inst /\ w.at = o.at /\ w.older = o.older
      /\ w.members = {} /\ w.boot = o.boot /\ w.ready = TRUE /\ w.waited = o.waited + 1
      /\ w.oldest = o.oldest
  <2>1. r.waited + 1 \in Nat
    BY <1>1, <1>4
  <2> QED
    BY <1>4, <2>1 DEF Process
<1> HIDE DEF w
<1>6. /\ v \in Process /\ v.pc = "start" /\ v.id = o.id /\ v.inst = o.inst /\ v.at = o.at
      /\ v.older = o.older /\ v.members = {} /\ v.ready = TRUE /\ v.waited = o.waited + 1
      /\ v.boot => v.oldest
  BY <1>2, <1>5 DEF Process, Decided
<1> HIDE DEF v
<1>7. Counters(n, v)
  BY <1>1, <1>6, HostsFacts, LimitsAssumption DEF Counters, Asking
<1>8. Members(n, v, gen[n]) /\ Flags(v)
  BY <1>1, <1>6, FS_EmptySet DEF Members, Flags, Decided
<1>9. Seen(n, v) /\ Known(v) /\ Order(n, v)
  BY <1>6 DEF Seen, Asked, Known, Order, Ahead, Decided
<1>10. Follows(n, o, v)
  BY <1>6, <1>7, <1>8, <1>9 DEF Follows, NodeInv, Local, SameProcess, Decided
<1> QED
  BY <1>3, <1>10 DEF o

(* The members of a cluster change; whoever leaves is remembered.           *)
LEMMA ChangeMembersOK ==
    ASSUME ClusterInv, NEW K \in DOMAIN clusters, NEW out \in SUBSET clusters[K].members,
           NEW in \in SUBSET IDs, IsFiniteSet(in), ChangeMembers(K, out, in)
    PROVE  ClusterInv'
<1> DEFINE M == (clusters[K].members \ out) \cup in
           R == clusters[K].removed \cup out
           c == [clusters[K] EXCEPT !.members = M, !.removed = R]
<1>1. clusters[K] \in Cluster /\ IsFiniteSet(clusters[K].members)
  BY DEF ClusterInv
<1>2. M \in SUBSET IDs /\ R \in SUBSET IDs
  BY <1>1 DEF Cluster
<1>3. c \in Cluster /\ c.members = M /\ c.removed = R /\ c.blind = clusters[K].blind
  BY <1>1, <1>2 DEF Cluster
<1>4. clusters' = [clusters EXCEPT ![K] = c]
  BY <1>1 DEF ChangeMembers, ClusterInv, Cluster
<1>5. IsFiniteSet(M)
  BY <1>1, FS_Difference, FS_Union
<1>6. K \subseteq M \cup R
  BY DEF ClusterInv
<1> HIDE DEF c, M, R
<1>7. /\ DOMAIN clusters' = DOMAIN clusters /\ clusters' \in [DOMAIN clusters' -> Cluster]
      /\ clusters'[K] = c /\ \A L \in DOMAIN clusters : L # K => clusters'[L] = clusters[L]
  BY <1>3, <1>4 DEF ClusterInv
<1> QED
  BY <1>3, <1>5, <1>6, <1>7 DEF ClusterInv

(* The outcomes of a join handler. *)
LEMMA HandlerOK ==
    ASSUME ClusterInv, NEW n, NEW h, node[n].id \in IDs, AddMember(n, h) \/ OnlyDelete(n, h)
    PROVE  ClusterInv'
<1>1. node[h].home \in DOMAIN clusters
  BY DEF AddMember, OnlyDelete, CanServe
<1>2. PICK out \in SUBSET clusters[node[h].home].members, in \in {{}, {node[n].id}} :
         ChangeMembers(node[h].home, out, in)
  BY DEF AddMember, OnlyDelete, Replaceable
<1>3. in \in SUBSET IDs /\ IsFiniteSet(in)
  <2>1. CASE in = {}
    BY <2>1, FS_EmptySet
  <2>2. CASE in = {node[n].id}
    BY <2>2, FS_Singleton
  <2> QED
    BY <2>1, <2>2
<1> QED
  BY <1>1, <1>2, <1>3, ChangeMembersOK

(* IInv is kept by Join. *)
LEMMA JoinIInv ==
    ASSUME IInv, NEW n \in Nodes, Join(n)
    PROVE  IInv'
<1>0. node[n].pc \in Asking /\ node[n].pc = "join" /\ UNCHANGED <<gen, faults>>
  BY DEF Join, Asking
<1>1. Finished(n, node[n]) /\ node[n].id \in IDs
  BY <1>0, AskedIsFinished DEF Finished, Process
<1>2. Follows(n, node[n], NextHost(n, node[n])) /\ Follows(n, node[n], Joined(n, node[n]))
  BY <1>0, <1>1, NextHostOK, JoinedOK
<1>3. NodesInv' /\ node' \in [Nodes -> Process]
  <2>1. CASE Become(n, NextHost(n, node[n]))
    BY <1>0, <1>2, <2>1, FollowsType, Continues DEF IInv
  <2>2. CASE Become(n, Joined(n, node[n]))
    BY <1>0, <1>2, <2>2, FollowsType, Continues DEF IInv
  <2> QED
    BY <2>1, <2>2 DEF Join
<1>4. ClusterInv'
  <2>1. CASE UNCHANGED clusters
    BY <2>1, ClustersSame DEF IInv
  <2>2. CASE AddMember(n, Host(n)) \/ OnlyDelete(n, Host(n))
    BY <1>1, <2>2, HandlerOK DEF IInv
  <2> QED
    BY <2>1, <2>2 DEF Join
<1> QED
  BY <1>0, <1>3, <1>4, ValuesStep DEF IInv

-----------------------------------------------------------------------------
(* The replica is started.                                                  *)

(* What is known of a process that has decided. *)
LEMMA DecidedFacts ==
    ASSUME IInv, NEW n \in Nodes, node[n].pc \in Decided
    PROVE  LET r == node[n] IN
           /\ r \in Process /\ NodeInv(n, r) /\ gen[n] \in Nat /\ r.id = <<n, gen[n]>>
           /\ IsFiniteSet(r.members) /\ (r.ready => r.members = {})
           /\ r.waited \in Nat /\ r.at \in Nat
<1>1. node[n] \in Process /\ NodeInv(n, node[n]) /\ gen[n] \in Nat /\ Members(n, node[n], gen[n])
  BY DEF IInv, Values, NodesInv, NodeInv, Local
<1>2. node[n].waited \in Nat /\ node[n].at \in Nat
  BY <1>1 DEF Process
<1> QED
  BY <1>1, <1>2 DEF Members

(* Starting the replica keeps the process's invariant. *)
LEMMA UpOK ==
    ASSUME IInv, NEW n \in Nodes, node[n].pc = "start", NEW L \in SUBSET IDs,
           node[n].boot => L = node[n].members /\ ~node[n].ready
    PROVE  Follows(n, node[n], Up(node[n], L))
<1> DEFINE o == node[n]
           r == Up(o, L)
<1>1. o \in Process /\ NodeInv(n, o) /\ o.pc = "start"
  BY DecidedFacts DEF Decided
<1> HIDE DEF o
<1>2. /\ r \in Process /\ r.pc = "up" /\ r.id = o.id /\ r.inst = o.inst /\ r.at = 1
      /\ r.older = 0 /\ r.members = o.members /\ r.boot = o.boot /\ r.ready = o.ready
      /\ r.waited = 0 /\ r.skipped = o.skipped /\ r.oldest = o.oldest /\ r.home = L
  BY <1>1 DEF Up, Process, Decided
<1> HIDE DEF r
<1>3. Counters(n, r)
  BY <1>2, HostsFacts, LimitsAssumption DEF Counters, Asking
<1>4. Members(n, r, gen[n]) /\ Seen(n, r)
  BY <1>1, <1>2 DEF NodeInv, Local, Members, Seen, Asked, Blind, Decided
<1>5. Flags(r)
  BY <1>1, <1>2 DEF NodeInv, Local, Flags, Decided, o
<1>6. Known(r) /\ Order(n, r)
  BY <1>1, <1>2 DEF NodeInv, Known, Order, Counts, Ahead
<1>7. Follows(n, o, r)
  BY <1>2, <1>3, <1>4, <1>5, <1>6 DEF Follows, NodeInv, Local, SameProcess, Decided
<1> QED
  BY <1>7 DEF o, r

(* The list of a founder that is not blind names every node.                *)
LEMMA FounderSees ==
    ASSUME IInv, NEW n \in Nodes, node[n].pc \in Decided, ~node[n].ready, ~Blind(node[n]),
           NEW h \in Nodes
    PROVE  Names(node[n].members, h)
<1>1. NodeInv(n, node[n]) /\ gen[n] \in Nat /\ node[n].id = <<n, gen[n]>> /\ node[n].id \in node[n].members
  BY DecidedFacts DEF NodeInv, Local, Members
<1>2. CASE h = n
  BY <1>1, <1>2, OwnID DEF Names
<1>3. CASE h # n
  <2>1. PICK i \in 1..Len(Hosts[n]) : Hosts[n][i] = h
    BY <1>3, HostsFacts
  <2> QED
    BY <1>1, <2>1 DEF NodeInv, Local, Seen, Asked
<1> QED
  BY <1>2, <1>3

(* IInv is kept by StartBootstrap. *)
LEMMA StartBootstrapIInv ==
    ASSUME IInv, NEW n \in Nodes, StartBootstrap(n)
    PROVE  IInv'
<1> DEFINE L == node[n].members
           c == [members |-> L, removed |-> {}, started |-> FALSE, blind |-> Blind(node[n])]
<1>0. node[n].pc = "start" /\ node[n].pc \in Decided /\ node[n].boot /\ L # {}
      /\ UNCHANGED <<gen, faults>> /\ Become(n, Up(node[n], L))
  BY DEF StartBootstrap, Decided
<1>1. node[n] \in Process /\ IsFiniteSet(L) /\ ~node[n].ready /\ L \in SUBSET IDs
      /\ node[n].skipped \in BOOLEAN
  BY <1>0, DecidedFacts DEF Process
<1>2. Follows(n, node[n], Up(node[n], L))
  BY <1>0, <1>1, UpOK
<1>3. NodesInv' /\ node' \in [Nodes -> Process]
  BY <1>0, <1>2, FollowsType, Continues DEF IInv
<1>4. ClusterInv'
  <2>1. CASE L \in DOMAIN clusters
    BY <2>1, ClustersSame DEF IInv, StartBootstrap
  <2>2. CASE L \notin DOMAIN clusters
    <3>1. c \in Cluster /\ c.members = L /\ c.removed = {} /\ c.blind = Blind(node[n])
      BY <1>1 DEF Cluster, Blind
    <3>2. clusters' = [x \in DOMAIN clusters \cup {L} |-> IF x = L THEN c ELSE clusters[x]]
      BY <2>2 DEF StartBootstrap
    <3>3. ~c.blind => \A h \in Nodes : Names(L, h)
      BY <1>0, <1>1, <3>1, FounderSees
    <3> HIDE DEF c, L
    <3>4. /\ DOMAIN clusters' = DOMAIN clusters \cup {L} /\ clusters' \in [DOMAIN clusters' -> Cluster]
          /\ clusters'[L] = c /\ \A x \in DOMAIN clusters : clusters'[x] = clusters[x]
      BY <2>2, <3>1, <3>2 DEF IInv, ClusterInv
    <3> QED
      BY <1>1, <3>1, <3>3, <3>4 DEF IInv, ClusterInv
  <2> QED
    BY <2>1, <2>2
<1> QED
  BY <1>0, <1>3, <1>4, ValuesStep DEF IInv

(* A founding list is a set of IDs.                                         *)
LEMMA FoundingList ==
    ASSUME ClusterInv, NEW L \in DOMAIN clusters
    PROVE  L \in SUBSET IDs /\ clusters[L] \in Cluster
<1>1. clusters[L] \in Cluster /\ L \subseteq clusters[L].members \cup clusters[L].removed
  BY DEF ClusterInv
<1>2. clusters[L].members \subseteq IDs /\ clusters[L].removed \subseteq IDs
  BY <1>1 DEF Cluster
<1> QED
  BY <1>1, <1>2

(* IInv is kept by StartJoin. *)
LEMMA StartJoinIInv ==
    ASSUME IInv, NEW n \in Nodes, StartJoin(n)
    PROVE  IInv'
<1>0. node[n].pc = "start" /\ node[n].pc \in Asking \cup Decided /\ ~node[n].boot
      /\ UNCHANGED <<gen, clusters, faults>>
  BY DEF StartJoin, Decided
<1>1. PICK L \in DOMAIN clusters \cup {{}} : Become(n, Up(node[n], L))
  BY DEF StartJoin
<1>2. Follows(n, node[n], Up(node[n], L))
  BY <1>0, FoundingList, UpOK DEF IInv
<1> QED
  BY <1>0, <1>1, <1>2, StepIInv

(* IInv is kept by PutStarted. *)
LEMMA PutStartedIInv ==
    ASSUME IInv, NEW n \in Nodes, PutStarted(n)
    PROVE  IInv'
<1> DEFINE o == node[n]
           K == o.home
           r == [o EXCEPT !.pc = "done"]
           c == [clusters[K] EXCEPT !.started = TRUE]
<1>0. o.pc = "up" /\ node[n].pc \in Decided /\ UNCHANGED <<gen, faults>> /\ Become(n, r)
      /\ K \in DOMAIN clusters /\ clusters' = [clusters EXCEPT ![K] = c]
  BY DEF PutStarted, Decided, CanServe
<1>1. o \in Process /\ NodeInv(n, o)
  BY <1>0, DecidedFacts
<1>2. Follows(n, o, r)
  <2> HIDE DEF o, K, c
  <2>1. /\ r \in Process /\ r.pc = "done" /\ r.id = o.id /\ r.inst = o.inst /\ r.at = o.at
        /\ r.older = o.older /\ r.members = o.members /\ r.boot = o.boot /\ r.ready = o.ready
        /\ r.waited = o.waited /\ r.skipped = o.skipped /\ r.oldest = o.oldest /\ r.home = o.home
    BY <1>1 DEF Process, Decided
  <2> HIDE DEF r
  <2>2. Counters(n, r) /\ Members(n, r, gen[n]) /\ Seen(n, r) /\ Flags(r)
    BY <1>0, <1>1, <2>1 DEF NodeInv, Local, Counters, Members, Flags, Seen, Asked, Blind, Asking, Decided
  <2>3. Known(r) /\ Order(n, r)
    BY <1>0, <1>1, <2>1 DEF NodeInv, Known, Order, Counts, Ahead
  <2> QED
    BY <2>1, <2>2, <2>3 DEF Follows, NodeInv, Local, SameProcess, Decided
<1>3. NodesInv' /\ node' \in [Nodes -> Process]
  BY <1>0, <1>2, FollowsType, Continues DEF IInv
<1>4. ClusterInv'
  <2>1. clusters[K] \in Cluster
    BY <1>0, FoundingList DEF IInv
  <2>2. c \in Cluster /\ c.members = clusters[K].members /\ c.removed = clusters[K].removed
        /\ c.blind = clusters[K].blind
    BY <2>1 DEF Cluster
  <2> HIDE DEF c, K
  <2>3. /\ DOMAIN clusters' = DOMAIN clusters /\ clusters' \in [DOMAIN clusters' -> Cluster]
        /\ clusters'[K] = c /\ \A L \in DOMAIN clusters : L # K => clusters'[L] = clusters[L]
    BY <1>0, <2>2 DEF IInv, ClusterInv
  <2> QED
    BY <1>0, <2>2, <2>3 DEF IInv, ClusterInv
<1> QED
  BY <1>0, <1>3, <1>4, ValuesStep DEF IInv

(* IInv is kept by Prune. *)
LEMMA PruneIInv ==
    ASSUME IInv, NEW n \in Nodes, Prune(n)
    PROVE  IInv'
<1> DEFINE L == node[n].home
<1>1. L \in DOMAIN clusters /\ UNCHANGED <<node, gen>> /\ (UNCHANGED faults \/ Fault)
  BY DEF Prune, CanServe
<1>2. PICK x \in clusters[L].members : ChangeMembers(L, {x}, {})
  BY DEF Prune
<1> HIDE DEF L
<1>3. ClusterInv'
  BY <1>1, <1>2, ChangeMembersOK, FS_EmptySet DEF IInv
<1>4. NodesInv' /\ node' \in [Nodes -> Process]
  BY <1>1, NodesSame DEF IInv, Values
<1> QED
  BY <1>1, <1>3, <1>4, FaultStep DEF IInv

(* Every step keeps IInv. *)
LEMMA NextIInv == IInv /\ [Next]_vars => IInv'
<1> SUFFICES ASSUME IInv, [Next]_vars
             PROVE  IInv'
  OBVIOUS
<1>1. CASE UNCHANGED vars
  <2>1. node' = node /\ gen' = gen /\ clusters' = clusters /\ faults' = faults
    BY <1>1 DEF vars
  <2> QED
    BY <2>1, NodesSame, ClustersSame DEF IInv, Values
<1>2. CASE Next
  <2>1. PICK n \in Nodes : Restart(n) \/ Step(n) \/ Prune(n)
    BY <1>2 DEF Next
  <2>2. CASE Restart(n)
    BY <2>2, RestartIInv
  <2>3. CASE Step(n)
    BY <2>3, InstantiateIInv, DrawIDIInv, PollFailIInv, PollBadIInv, PollOkIInv,
       CheckStartedIInv, JoinIInv, StartBootstrapIInv, StartJoinIInv, PutStartedIInv DEF Step
  <2> QED
    BY <2>1, <2>2, <2>3, PruneIInv
<1> QED
  BY <1>1, <1>2

(* IInv is an invariant. *)
LEMMA InvariantHolds == Spec => []IInv
BY InitIInv, NextIInv, PTL DEF Spec

-----------------------------------------------------------------------------
(* What follows.                                                            *)

(* IInv is well typed. *)
LEMMA IInvTypeOK == IInv => TypeOK
<1> SUFFICES ASSUME IInv
             PROVE  TypeOK
  OBVIOUS
<1>1. ASSUME NEW n \in Nodes
      PROVE  /\ node[n].pc \in {"off", "api", "inst", "poll", "check", "join", "start",
                                "up", "done"}
             /\ node[n].id \in IDs /\ node[n].members \subseteq IDs /\ node[n].home \subseteq IDs
             /\ node[n].inst \in Nat
             /\ node[n].at \in {1} \cup 1..Len(Hosts[n]) /\ node[n].older \in 0..Len(Hosts[n])
             /\ node[n].waited \in 0..WaitLimit + 1
             /\ {node[n].boot, node[n].ready, node[n].skipped, node[n].oldest} \subseteq BOOLEAN
             /\ gen[n] \in Nat
  <2> DEFINE r == node[n]
  <2>1. r \in Process /\ Counters(n, r) /\ gen[n] \in Nat
    BY DEF IInv, Values, NodesInv, NodeInv, Local
  <2> HIDE DEF r
  <2>2. r.older \in Nat /\ r.waited \in Nat /\ Len(Hosts[n]) \in Nat
    BY <2>1, HostsFacts DEF Process
  <2>3. r.older \in 0..Len(Hosts[n]) /\ r.waited \in 0..WaitLimit + 1
        /\ r.at \in {1} \cup 1..Len(Hosts[n])
    BY <2>1, <2>2, LimitsAssumption DEF Counters
  <2>4. r.boot \in BOOLEAN /\ r.ready \in BOOLEAN /\ r.skipped \in BOOLEAN /\ r.oldest \in BOOLEAN
    BY <2>1 DEF Process
  <2>5. r.pc \in {"off", "api", "inst", "poll", "check", "join", "start", "up", "done"}
        /\ r.id \in IDs /\ r.members \subseteq IDs /\ r.home \subseteq IDs /\ r.inst \in Nat
    BY <2>1 DEF Process, Asking, Decided
  <2> QED
    BY <2>1, <2>3, <2>4, <2>5 DEF r
<1>2. DOMAIN clusters \subseteq SUBSET IDs
  BY FoundingList DEF IInv
<1>3. faults \in 0..MaxFaults
  BY DEF IInv, Values
<1> QED
  BY <1>1, <1>2, <1>3 DEF TypeOK

(* Every process is in a state of connect() with its counters in range.     *)
THEOREM TypeCorrect == Spec => []TypeOK
BY InvariantHolds, IInvTypeOK, PTL

(* IInv implies that founding lists agree. *)
LEMMA IInvAgreement == IInv => BootstrapAgreement
<1> SUFFICES ASSUME IInv, NEW m \in Nodes, NEW n \in Nodes, Founded(m), Founded(n),
                    ~Blind(node[m]), ~Blind(node[n]),
                    Current(node[m].home \cup node[n].home)
             PROVE  node[m].home = node[n].home
  BY DEF BootstrapAgreement
<1>1. ASSUME NEW p \in Nodes, Founded(p)
      PROVE  node[p].pc \in Decided /\ ~node[p].ready /\ node[p].home = node[p].members
  BY <1>1 DEF IInv, NodesInv, NodeInv, Local, Flags, Founded, Running, Decided
<1>2. ASSUME NEW p \in Nodes, NEW q \in Nodes, Founded(p), Founded(q), ~Blind(node[p]),
             ~Blind(node[q]), Current(node[p].home \cup node[q].home), NEW x \in node[p].home
      PROVE  x \in node[q].home
  <2>1. PICK h \in Nodes : x = node[h].id
    BY <1>2 DEF Current
  <2>2. x # NoID
    BY <1>1, <1>2 DEF Blind
  <2>3. PICK y \in node[q].members \ {NoID} : y[1] = h
    BY <1>1, <1>2, FounderSees DEF Names
  <2>4. PICK k \in Nodes : y = node[k].id
    BY <1>1, <1>2, <2>3 DEF Current
  <2>5. x[1] = h /\ y[1] = k
    BY <2>1, <2>2, <2>3, <2>4, IDFacts
  <2> QED
    BY <1>1, <1>2, <2>1, <2>3, <2>4, <2>5
<1> QED
  BY <1>2

(* Two nodes that both bootstrap start Raft with the same list of members,  *)
(* however many nodes there are and in whatever order each asks its hosts,  *)
(* unless one is blind or a listed process has ended (initialMembers).      *)
THEOREM FoundersAgree == Spec => []BootstrapAgreement
BY InvariantHolds, IInvAgreement, PTL

(* IInv implies that at most one process is the oldest. *)
LEMMA IInvOldest == IInv => OldestUnique
<1> SUFFICES ASSUME IInv, NEW m \in Nodes, NEW n \in Nodes, m # n, node[m].oldest, node[n].oldest,
                    node[m].id \in node[n].members, node[n].id \in node[m].members
             PROVE  FALSE
  BY DEF OldestUnique
<1>1. ASSUME NEW p \in Nodes, node[p].oldest
      PROVE  node[p].id # NoID /\ node[p].inst \in Nat
  <2>1. node[p].pc \in Decided
    BY <1>1 DEF IInv, NodesInv, NodeInv, Local, Flags
  <2>2. node[p] \in Process /\ gen[p] \in Nat /\ node[p].id = <<p, gen[p]>>
    BY <2>1, DecidedFacts
  <2>3. node[p].inst \in Nat
    BY <2>2 DEF Process
  <2> QED
    BY <2>2, <2>3, OwnID
<1>2. ASSUME NEW p \in Nodes, NEW q \in Nodes, p # q, node[p].oldest, node[q].oldest,
             node[q].id \in node[p].members
      PROVE  node[q].inst > node[p].inst
  <2>1. PICK i \in 1..Len(Hosts[p]) : Hosts[p][i] = q
    BY <1>2, HostsFacts
  <2>2. Ahead(node[p], q)
    BY <1>2, <2>1 DEF IInv, NodesInv, NodeInv, Order, Counts
  <2> QED
    BY <1>1, <1>2, <2>2 DEF Ahead
<1>3. node[m].inst > node[n].inst /\ node[n].inst > node[m].inst
  BY <1>2
<1> QED
  BY <1>1, <1>3

(* No two processes that know each other both take the OLDEST branch.       *)
THEOREM OldestIsUnique == Spec => []OldestUnique
BY InvariantHolds, IInvOldest, PTL

(* IInv explains empty founding lists. *)
LEMMA IInvEmptyList == IInv => EmptyListOnlyIfOldest
<1> SUFFICES ASSUME IInv, NEW n \in Nodes, node[n].pc = "start", node[n].boot
             PROVE  /\ node[n].ready => node[n].oldest
                    /\ node[n].members = {} <=> node[n].ready
  BY DEF EmptyListOnlyIfOldest
<1>1. Flags(node[n]) /\ Members(n, node[n], gen[n]) /\ node[n] \in Process
  BY DEF IInv, NodesInv, NodeInv, Local
<1> QED
  BY <1>1 DEF Flags, Members, Decided

(* The rejoin loop spins with an empty list only after a join that the      *)
(* OLDEST branch overruled.                                                 *)
THEOREM EmptyListExplained == Spec => []EmptyListOnlyIfOldest
BY InvariantHolds, IInvEmptyList, PTL

-----------------------------------------------------------------------------
(* Majorities.                                                              *)

(* No more replicas run than there are nodes.                               *)
LEMMA LiveIsSmall == IsFiniteSet(Live) /\ Cardinality(Live) <= Cardinality(Nodes)
<1> DEFINE R == {x \in Nodes : Running(x)}
           f == [x \in R |-> node[x].id]
<1>1. IsFiniteSet(R) /\ Cardinality(R) <= Cardinality(Nodes)
  BY HostsAssumption, FS_Subset
<1>2. Live = {node[n].id : n \in R}
  BY DEF Live
<1> HIDE DEF R
<1>3. f \in Surjection(R, Live)
  BY <1>2 DEF Surjection
<1> HIDE DEF f
<1>4. IsFiniteSet(Live) /\ Cardinality(Live) <= Cardinality(R)
  BY <1>1, <1>3, FS_Surjection
<1> QED
  BY <1>1, <1>4, HostsAssumption, FS_CardinalityType

(* A set of IDs that names the nodes H has at least as many elements.       *)
LEMMA NamesAll ==
    ASSUME NEW S, IsFiniteSet(S), NEW H, \A h \in H : Names(S, h)
    PROVE  Cardinality(H) <= Cardinality(S)
<1> DEFINE f == [h \in H |-> CHOOSE x \in S \ {NoID} : x[1] = h]
<1>1. ASSUME NEW h \in H
      PROVE  f[h] \in S /\ f[h][1] = h
  BY Zenon DEF Names
<1> HIDE DEF f
<1>2. f \in Injection(H, S)
  <2>1. f \in [H -> S]
    <3>1. f = [h \in H |-> f[h]]
      BY DEF f
    <3> QED
      BY <1>1, <3>1
  <2> QED
    BY <1>1, <2>1 DEF Injection, IsInjective
<1> QED
  BY <1>2, FS_Injection

(* The members of a cluster that is not blind still name every node that is *)
(* not gone, so that a majority of them is more than half of those nodes.   *)
LEMMA MajorityOfNodes ==
    ASSUME IInv, NEW L \in DOMAIN clusters, ~clusters[L].blind, NEW Q \in Quorums(L)
    PROVE  /\ Q \subseteq Live /\ IsFiniteSet(Q) /\ Cardinality(Q) \in Nat
           /\ Cardinality(Gone(L)) \in Nat
           /\ 2 * Cardinality(Q) > Cardinality(Nodes) - Cardinality(Gone(L))
<1> DEFINE M == clusters[L].members
           G == Gone(L)
<1>1. /\ L \subseteq M \cup clusters[L].removed /\ IsFiniteSet(M)
      /\ \A h \in Nodes : Names(L, h)
  BY DEF IInv, ClusterInv
<1>2. Q \subseteq M \cap Live /\ 2 * Cardinality(Q) > Cardinality(M)
  BY DEF Quorums
<1>3. \A h \in Nodes \ G : Names(M, h)
  <2> SUFFICES ASSUME NEW h \in Nodes \ G
               PROVE  Names(M, h)
    OBVIOUS
  <2>1. PICK x \in L \ {NoID} : x[1] = h
    BY <1>1 DEF Names
  <2>2. CASE x \in M
    BY <2>1, <2>2 DEF Names
  <2>3. CASE x \in clusters[L].removed
    BY <2>1, <2>3 DEF Names, Gone
  <2> QED
    BY <1>1, <2>1, <2>2, <2>3
<1>4. G \subseteq Nodes /\ IsFiniteSet(Nodes)
  BY HostsAssumption DEF Gone
<1> HIDE DEF M, G
<1>5. Cardinality(Nodes \ G) <= Cardinality(M) /\ Cardinality(M) \in Nat
  BY <1>1, <1>3, NamesAll, FS_CardinalityType
<1>6. /\ Cardinality(Nodes) \in Nat /\ Cardinality(G) \in Nat
      /\ Cardinality(Nodes \ G) = Cardinality(Nodes) - Cardinality(G)
  <2>1. IsFiniteSet(G) /\ Nodes \cap G = G
    BY <1>4, FS_Subset
  <2> QED
    BY <1>4, <2>1, FS_Difference, FS_CardinalityType
<1>7. IsFiniteSet(Q)
  BY <1>1, <1>2, FS_Subset
<1>8. Cardinality(Q) \in Nat
  BY <1>7, FS_CardinalityType
<1> QED
  BY <1>2, <1>5, <1>6, <1>7, <1>8 DEF G

(* IInv rules out two clusters that serve apart: their majorities would meet. *)
LEMMA IInvNoSplit == IInv => NoSplitBrain
<1> SUFFICES ASSUME IInv, NEW K \in DOMAIN clusters, NEW L \in DOMAIN clusters,
                    ~clusters[K].blind, ~clusters[L].blind,
                    Cardinality(Gone(K)) + Cardinality(Gone(L)) <= 1,
                    NEW P \in Quorums(K), NEW Q \in Quorums(L), P \cap Q = {}
             PROVE  FALSE
  BY DEF NoSplitBrain
<1> DEFINE k == Cardinality(Gone(K))
           l == Cardinality(Gone(L))
<1>1. /\ P \subseteq Live /\ IsFiniteSet(P) /\ Cardinality(P) \in Nat
      /\ k \in Nat /\ 2 * Cardinality(P) > Cardinality(Nodes) - k
  BY MajorityOfNodes
<1>2. /\ Q \subseteq Live /\ IsFiniteSet(Q) /\ Cardinality(Q) \in Nat
      /\ l \in Nat /\ 2 * Cardinality(Q) > Cardinality(Nodes) - l
  BY MajorityOfNodes
<1>3. Cardinality(P \cup Q) = Cardinality(P) + Cardinality(Q)
  <2>1. Cardinality(P \cup Q) = Cardinality(P) + Cardinality(Q) - Cardinality({})
    BY <1>1, <1>2, FS_Union
  <2> QED
    BY <1>1, <1>2, <2>1, FS_EmptySet
<1>4. Cardinality(P \cup Q) <= Cardinality(Live)
  BY <1>1, <1>2, LiveIsSmall, FS_Subset
<1>5. Cardinality(Live) <= Cardinality(Nodes) /\ Cardinality(Live) \in Nat /\ Cardinality(Nodes) \in Nat
  BY LiveIsSmall, FS_CardinalityType, HostsAssumption
<1>6. k + l <= 1
  OBVIOUS
<1> HIDE DEF k, l
<1> QED
  BY <1>1, <1>2, <1>3, <1>4, <1>5, <1>6

(* Two clusters whose founders missed no node never serve side by side      *)
(* while the join handlers and the watchers have taken at most one node     *)
(* from the two: a majority of each is more than half of the nodes it still *)
(* has, and a node runs one replica.  With two nodes removed they can.      *)
THEOREM NoTwoClusters == Spec => []NoSplitBrain
BY InvariantHolds, IInvNoSplit, PTL

=============================================================================
