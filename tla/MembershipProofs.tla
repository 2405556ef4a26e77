-------------------------- MODULE MembershipProofs --------------------------
(***************************************************************************)
(* Proofs about Membership, for any hosts, handlers, restarts and faults:  *)
(* type correctness, what the peer keys name, and who is a member.         *)
(***************************************************************************)
EXTENDS Membership, TLAPS

Asked == [pc : {"get", "delete", "add", "wait", "put"}, id : IDs, old : 0..MaxGen]
Watcher == [todo : SUBSET IDs, pinged : SUBSET Hosts]

(* TypeOK, and that the handlers and the watchers are functions.            *)
Values == TypeOK /\ join \in [Handlers -> Handler] /\ watch \in [Leaders -> Watcher]

(* An ID is known only once its process has been started.                   *)
Begun(id) == id[2] <= proc[id[1]].gen
BegunInv ==
    /\ \A id \in conf \cup removed : Begun(id)
    /\ \A c \in changes : c.op = "add" => Begun(c.id)
    /\ \A p \in Handlers : join[p] \in Asked => Begun(join[p].id)

(* A handler adds what it was asked for, and deletes another replica of the *)
(* same host; when it stores the key, the replica has been added.           *)
HandlerInv ==
    /\ \A c \in changes : c.op = "add" => c.by \in Handlers
    /\ \A c \in changes : c.op = "delete" /\ c.by \in Handlers =>
          c.id[1] = c.for[1] /\ c.id[2] # c.for[2]
    /\ \A p \in Handlers : join[p].pc = "delete" => join[p].old \in Gens \ {join[p].id[2]}
    /\ \A p \in Handlers : join[p].pc = "put" => join[p].id \in conf \cup removed

(* A process that was told it has joined was added; one that was removed    *)
(* while it is its host's last process was pruned.                          *)
JoinedInv ==
    /\ PeerNamesMember
    /\ \A h \in Hosts : proc[h].at \in {"joined", "member"} => Current(h) \in conf \cup removed
    /\ \A h \in Hosts : Current(h) \in removed => Current(h) \in pruned

IInv == Values /\ BegunInv /\ HandlerInv /\ JoinedInv

-----------------------------------------------------------------------------
(* A handler that is at work serves an ID. *)
LEMMA AskedRecord ==
    ASSUME NEW r \in Handler
    PROVE  /\ r.pc \notin {"idle", "over"} => r \in Asked
           /\ r \in Asked => r.pc \in {"get", "delete", "add", "wait", "put"} /\ r.id \in IDs
BY DEF Handler, Asked, Idle, Over

(* A handler that is over does not. *)
LEMMA OverFact == Over \in Handler /\ Over \notin Asked /\ Over.pc = "over"
BY DEF Handler, Asked, Over

(* The parts of an ID.                                                      *)
LEMMA IDParts ==
    ASSUME NEW id \in IDs
    PROVE  id[1] \in Hosts /\ id[2] \in Gens /\ id[2] \in Nat /\ id = <<id[1], id[2]>>
BY MembershipAssumption DEF IDs, Gens

(* The parts of a process and its ID. *)
LEMMA ProcParts ==
    ASSUME Values, NEW h \in Hosts
    PROVE  /\ proc[h].gen \in Gens /\ proc[h].gen \in Nat
           /\ proc[h].at \in {"down", "joining", "joined", "member"}
           /\ Current(h) \in IDs
BY MembershipAssumption DEF Values, TypeOK, Gens, Current, IDs

(* What a handler writes of itself leaves the others alone.                 *)
LEMMA BecomeIs ==
    ASSUME Values, NEW p \in Handlers, NEW r \in Handler, Become(p, r)
    PROVE  join' \in [Handlers -> Handler] /\ join'[p] = r /\ \A q \in Handlers \ {p} : join'[q] = join[q]
BY DEF Become, Values

(* Request adds one change. *)
LEMMA RequestIs ==
    ASSUME Values, NEW op \in {"add", "delete"}, NEW id \in IDs, NEW by \in Hosts \cup Handlers,
           NEW for \in IDs, Request(op, id, by, for)
    PROVE  \E c \in Change : /\ changes' = changes \cup {c}
                             /\ c.op = op /\ c.id = id /\ c.by = by /\ c.for = for
<1> DEFINE c == [op |-> op, id |-> id, by |-> by, for |-> for]
<1>1. c \in Change /\ c.op = op /\ c.id = id /\ c.by = by /\ c.for = for
  BY DEF Change
<1> QED
  BY <1>1 DEF Request

-----------------------------------------------------------------------------
(* The initial states satisfy IInv. *)
LEMMA InitIInv == Init => IInv
<1> SUFFICES ASSUME Init PROVE IInv
  OBVIOUS
<1> USE MembershipAssumption
<1>0. 1 \in Gens /\ 1 \in 0..MaxGen /\ 0 \in 0..MaxGen /\ MaxFaults \in Nat
  BY DEF Gens
<1>1. proc \in [Hosts -> [gen : Gens, at : {"down", "joining", "joined", "member"}]]
      /\ \A h \in Hosts : proc[h].gen = 1 /\ (proc[h].at \in {"joined", "member"} => h \in Founders)
  BY <1>0 DEF Init
<1>2. conf \subseteq IDs /\ conf # {} /\ \A id \in conf : id[2] = 1 /\ id[1] \in Hosts
  <2>1. Founders \subseteq Hosts /\ conf = {<<h, 1>> : h \in Founders}
    BY DEF Init
  <2>2. PICK h \in Founders : TRUE
    OBVIOUS
  <2>3. <<h, 1>> \in conf
    BY <2>1
  <2>4. ASSUME NEW id \in conf
        PROVE  id \in IDs /\ id[2] = 1 /\ id[1] \in Hosts
    <3>1. PICK g \in Hosts : id = <<g, 1>>
      BY <2>1
    <3> QED
      BY <1>0, <3>1 DEF IDs
  <2> QED
    BY <2>3, <2>4
<1>3. join \in [Handlers -> Handler] /\ \A p \in Handlers : join[p].pc = "idle" /\ join[p] \notin Asked
  BY DEF Init, Handler, Idle, Asked
<1>4. watch \in [Leaders -> Watcher] /\ \A h \in Leaders : watch[h].todo = {} /\ watch[h].pinged = {}
  <2> DEFINE w == [todo |-> {}, pinged |-> {}]
  <2>1. w \in Watcher /\ w.todo = {} /\ w.pinged = {}
    BY DEF Watcher
  <2> QED
    BY <2>1 DEF Init
<1>5. peer \in [Hosts -> 0..MaxGen] /\ \A h \in Hosts : peer[h] \in {0, 1} /\ (peer[h] = 1 => h \in Founders)
  BY <1>0 DEF Init
<1>6. Values
  BY <1>0, <1>1, <1>2, <1>3, <1>4, <1>5 DEF Init, Values, TypeOK
<1>7. BegunInv
  BY <1>1, <1>2, <1>3 DEF Init, BegunInv, Begun
<1>8. HandlerInv
  BY <1>3 DEF Init, HandlerInv
<1>9. JoinedInv
  BY <1>1, <1>5 DEF Init, JoinedInv, PeerNamesMember, Current
<1> QED
  BY <1>6, <1>7, <1>8, <1>9 DEF IInv

(* The process of a host ends, and is started again with an ID that nobody  *)
(* knows.                                                                   *)
LEMMA ProcessStep ==
    ASSUME IInv, NEW h \in Hosts, Crash(h) \/ Start(h)
    PROVE  IInv'
<1> USE DEF IInv
<1>0. UNCHANGED <<conf, removed, pruned, changes, peer, join>>
  BY DEF Crash, Start
<1>1. /\ proc' \in [Hosts -> [gen : Gens, at : {"down", "joining", "joined", "member"}]]
      /\ proc'[h].at \in {"down", "joining"} /\ proc'[h].gen \in {proc[h].gen, proc[h].gen + 1}
      /\ \A g \in Hosts \ {h} : proc'[g] = proc[g]
  <2>1. CASE Crash(h)
    BY <2>1 DEF Crash, Values, TypeOK
  <2>2. CASE Start(h)
    <3> DEFINE r == [gen |-> proc[h].gen + 1, at |-> "joining"]
    <3>1. r \in [gen : Gens, at : {"down", "joining", "joined", "member"}]
          /\ r.gen = proc[h].gen + 1 /\ r.at = "joining"
      BY <2>2, ProcParts, MembershipAssumption DEF Start, Gens
    <3>2. proc' = [proc EXCEPT ![h] = r]
      BY <2>2 DEF Start
    <3> QED
      BY <3>1, <3>2 DEF Values, TypeOK
  <2> QED
    BY <2>1, <2>2
<1>2. \A g \in Hosts : proc[g].gen \in Nat /\ proc'[g].gen \in Nat /\ proc[g].gen <= proc'[g].gen
  BY <1>1, ProcParts
<1>3. watch' \in [Leaders -> Watcher]
      /\ \A g \in Leaders : watch'[g].todo \subseteq conf \cup removed /\ watch'[g].pinged \subseteq Hosts
  <2> DEFINE w == [todo |-> {}, pinged |-> {}]
  <2>1. w \in Watcher /\ w.todo = {} /\ w.pinged = {}
    BY DEF Watcher
  <2>2. watch' = watch \/ watch' = [g \in Leaders |-> IF g = h THEN w ELSE watch[g]]
    BY DEF Crash, Start, NoWatch
  <2> QED
    BY <2>1, <2>2 DEF Values, TypeOK
<1>4. faults' \in 0..MaxFaults
  BY MembershipAssumption DEF Crash, Start, Fault, Values, TypeOK
<1>5. Values'
  BY <1>0, <1>1, <1>3, <1>4 DEF Values, TypeOK
<1>6. BegunInv'
  <2>1. \A id \in IDs : Begun(id) => Begun(id)'
    BY <1>2, IDParts DEF Begun
  <2>2. \A c \in changes : c.id \in IDs
    BY DEF Values, TypeOK, Change
  <2>3. \A p \in Handlers : join[p] \in Asked => join[p].id \in IDs
    BY AskedRecord DEF Values
  <2> QED
    BY <1>0, <2>1, <2>2, <2>3 DEF BegunInv, Values, TypeOK
<1>7. HandlerInv'
  BY <1>0 DEF HandlerInv
<1>8. JoinedInv'
  <2>1. <<h, proc[h].gen + 1>> \notin removed
    BY <1>2 DEF BegunInv, Begun
  <2>2. \A g \in Hosts : Current(g)' \in {Current(g), <<g, proc[g].gen + 1>>} /\ (g # h => Current(g)' = Current(g))
    BY <1>1 DEF Current
  <2> QED
    BY <1>0, <1>1, <2>1, <2>2 DEF JoinedInv, PeerNamesMember
<1> QED
  BY <1>5, <1>6, <1>7, <1>8

(* A joiner stores its own key.                                             *)
LEMMA PutPeerStep ==
    ASSUME IInv, NEW h \in Hosts, PutPeer(h)
    PROVE  IInv'
<1> USE DEF IInv
<1>0. UNCHANGED <<conf, removed, pruned, changes, join, watch, faults>> /\ proc[h].at = "joined"
  BY DEF PutPeer
<1>1. /\ proc' \in [Hosts -> [gen : Gens, at : {"down", "joining", "joined", "member"}]]
      /\ \A g \in Hosts : proc'[g].gen = proc[g].gen
      /\ \A g \in Hosts \ {h} : proc'[g] = proc[g]
  BY DEF PutPeer, Values, TypeOK
<1>2. peer' \in [Hosts -> 0..MaxGen] /\ peer'[h] = proc[h].gen /\ \A g \in Hosts \ {h} : peer'[g] = peer[g]
  <2>1. proc[h].gen \in 0..MaxGen
    BY ProcParts, MembershipAssumption DEF Gens
  <2> QED
    BY <2>1 DEF PutPeer, Values, TypeOK
<1>3. Values'
  BY <1>0, <1>1, <1>2 DEF Values, TypeOK
<1>4. BegunInv'
  <2>1. \A id \in IDs : Begun(id)' <=> Begun(id)
    BY <1>1, IDParts DEF Begun
  <2>2. \A c \in changes : c.id \in IDs
    BY DEF Values, TypeOK, Change
  <2>3. \A p \in Handlers : join[p] \in Asked => join[p].id \in IDs
    BY AskedRecord DEF Values
  <2> QED
    BY <1>0, <2>1, <2>2, <2>3 DEF BegunInv, Values, TypeOK
<1>5. HandlerInv'
  BY <1>0 DEF HandlerInv
<1>6. JoinedInv'
  <2>1. \A g \in Hosts : Current(g)' = Current(g)
    BY <1>1 DEF Current
  <2>2. <<h, peer'[h]>> \in conf \cup removed
    BY <1>0, <1>2 DEF JoinedInv, Current
  <2> QED
    BY <1>0, <1>1, <1>2, <2>1, <2>2 DEF JoinedInv, PeerNamesMember
<1> QED
  BY <1>3, <1>4, <1>5, <1>6

(* A change of the membership is dropped.                                   *)
LEMMA DropStep ==
    ASSUME IInv, NEW c \in changes, Drop(c)
    PROVE  IInv'
<1> USE DEF IInv
<1>0. /\ UNCHANGED <<proc, conf, removed, pruned, peer, join, watch>> /\ changes' \subseteq changes
      /\ faults' \in 0..MaxFaults
  BY MembershipAssumption DEF Drop, Fault, Values, TypeOK
<1>1. Values'
  BY <1>0 DEF Values, TypeOK
<1>2. BegunInv' /\ HandlerInv'
  BY <1>0 DEF BegunInv, Begun, HandlerInv
<1>3. JoinedInv'
  BY <1>0 DEF JoinedInv, PeerNamesMember, Current
<1> QED
  BY <1>1, <1>2, <1>3

(* A change takes effect or is rejected.                                    *)
LEMMA ApplyStep ==
    ASSUME IInv, NEW c \in changes, Apply(c)
    PROVE  IInv'
<1> USE DEF IInv
<1>0. UNCHANGED <<proc, peer, watch, faults>> /\ changes' \subseteq changes
  BY DEF Apply
<1>1. /\ c \in Change /\ c.op \in {"add", "delete"} /\ c.id \in IDs /\ c.for \in IDs
      /\ c.by \in Hosts \cup Handlers
  BY DEF Values, TypeOK, Change
<1>2. /\ conf' \subseteq IDs /\ conf' # {} /\ conf' \cap removed' = {}
      /\ removed' \in {removed, removed \cup {c.id}}
      /\ conf \cup removed \subseteq conf' \cup removed'
      /\ conf' \cup removed' \subseteq conf \cup removed \cup {c.id}
  <2>0. conf \subseteq IDs /\ conf # {} /\ conf \cap removed = {}
    BY DEF Values, TypeOK
  <2>1. CASE ~Effective(c)
    <3>1. conf' = conf /\ removed' = removed
      BY <2>1 DEF Apply
    <3> QED
      BY <2>0, <3>1
  <2>2. CASE Effective(c) /\ c.op = "add"
    <3>1. conf' = conf \cup {c.id} /\ removed' = removed /\ c.id \notin removed
      BY <2>2 DEF Apply, Effective
    <3> QED
      BY <1>1, <2>0, <3>1
  <2>3. CASE Effective(c) /\ c.op = "delete"
    <3>1. conf' = conf \ {c.id} /\ removed' = removed \cup {c.id} /\ c.id \in conf /\ conf # {c.id}
      BY <2>3 DEF Apply, Effective
    <3> QED
      BY <2>0, <3>1
  <2> QED
    BY <1>1, <2>1, <2>2, <2>3
<1>3. pruned \subseteq pruned' /\ pruned' \subseteq removed'
  BY <1>2 DEF Apply, Values, TypeOK
<1>4. /\ join' \in [Handlers -> Handler]
      /\ \A p \in Handlers : join'[p] = join[p] \/ join'[p] = Over
            \/ /\ join[p].pc = "wait" /\ join'[p].pc = "put"
               /\ join'[p] \in Asked /\ join'[p].id = c.id /\ c.id \in conf'
  <2>1. CASE c.op = "add" /\ join[c.by].pc = "wait" /\ join[c.by].id = c.id
    <3>1. c.by \in Handlers
      BY <2>1 DEF HandlerInv
    <3>2. join[c.by] \in Asked
      BY <2>1, <3>1, AskedRecord DEF Values
    <3> DEFINE r == [join[c.by] EXCEPT !.pc = "put"]
    <3>3. r \in Asked /\ r \in Handler /\ r.pc = "put" /\ r.id = c.id
      BY <2>1, <3>2 DEF Asked, Handler
    <3>4. join' = [join EXCEPT ![c.by] = IF Effective(c) THEN r ELSE Over]
      BY <2>1 DEF Apply
    <3>5. Effective(c) => c.id \in conf'
      BY <2>1 DEF Apply
    <3> QED
      BY <2>1, <3>1, <3>3, <3>4, <3>5, OverFact DEF Values
  <2>2. CASE ~(c.op = "add" /\ join[c.by].pc = "wait" /\ join[c.by].id = c.id)
    BY <2>2 DEF Apply, Values
  <2> QED
    BY <2>1, <2>2
<1>5. Values'
  <2>1. removed' \subseteq IDs /\ changes' \subseteq Change
    BY <1>0, <1>1, <1>2 DEF Values, TypeOK
  <2>2. \A h \in Leaders : watch'[h].todo \subseteq conf' \cup removed' /\ watch'[h].pinged \subseteq Hosts
    BY <1>0, <1>2 DEF Values, TypeOK
  <2> QED
    BY <1>0, <1>2, <1>3, <1>4, <2>1, <2>2 DEF Values, TypeOK
<1>6. BegunInv'
  <2>1. \A id : Begun(id)' <=> Begun(id)
    BY <1>0 DEF Begun
  <2>2. \A id \in conf' \cup removed' : Begun(id)
    <3>1. c.op = "add" \/ conf' \cup removed' = conf \cup removed
      BY <1>1, <1>2 DEF Apply, Effective
    <3> QED
      BY <1>2, <3>1 DEF BegunInv
  <2>3. \A p \in Handlers : join'[p] \in Asked => Begun(join'[p].id)
    BY <1>2, <1>4, <2>2, OverFact DEF BegunInv
  <2> QED
    BY <1>0, <2>1, <2>2, <2>3 DEF BegunInv
<1>7. HandlerInv'
  <2>1. \A p \in Handlers : join'[p].pc = "delete" => join'[p] = join[p]
    BY <1>4, OverFact
  <2>2. \A p \in Handlers : join'[p].pc = "put" => join'[p].id \in conf' \cup removed'
    BY <1>2, <1>4, OverFact DEF HandlerInv
  <2> QED
    BY <1>0, <2>1, <2>2 DEF HandlerInv
<1>8. JoinedInv'
  <2>1. \A h \in Hosts : Current(h)' = Current(h)
    BY <1>0 DEF Current
  <2>2. ASSUME NEW h \in Hosts, Current(h) \in removed', Current(h) \notin removed
        PROVE  Current(h) \in pruned'
    <3>1. c.op = "delete" /\ c.id = Current(h) /\ removed' # removed
      BY <2>2 DEF Apply
    <3>2. c.by \notin Hosts => c.for # Current(c.for[1])
      <4> SUFFICES ASSUME c.by \notin Hosts, c.for = Current(c.for[1])
                   PROVE  FALSE
        OBVIOUS
      <4>1. c.id[1] = c.for[1] /\ c.id[2] # c.for[2]
        BY <1>1, <3>1 DEF HandlerInv
      <4> QED
        BY <3>1, <4>1 DEF Current
    <3> QED
      BY <3>1, <3>2 DEF Apply
  <2> QED
    BY <1>0, <1>2, <1>3, <2>1, <2>2 DEF JoinedInv, PeerNamesMember
<1> QED
  BY <1>5, <1>6, <1>7, <1>8

(* A step of a handler that writes its own record, and at most one request. *)
LEMMA HandlerStep ==
    ASSUME IInv, NEW p \in Handlers, NEW r \in Handler, Become(p, r),
           UNCHANGED <<proc, conf, removed, pruned, peer, watch, faults>>,
           r \in Asked => Begun(r.id),
           r.pc = "delete" => r.old \in Gens \ {r.id[2]},
           r.pc # "put",
           \/ UNCHANGED changes
           \/ \E c \in Change :
                /\ changes' = changes \cup {c} /\ c.by \in Handlers /\ (c.op = "add" => Begun(c.id))
                /\ c.op = "delete" => c.id[1] = c.for[1] /\ c.id[2] # c.for[2]
    PROVE  IInv'
<1> USE DEF IInv
<1>1. join' \in [Handlers -> Handler] /\ join'[p] = r /\ \A q \in Handlers \ {p} : join'[q] = join[q]
  BY BecomeIs
<1>2. Values'
  BY <1>1 DEF Values, TypeOK
<1>3. BegunInv'
  <2>1. \A id : Begun(id)' <=> Begun(id)
    BY DEF Begun
  <2> QED
    BY <1>1, <2>1 DEF BegunInv
<1>4. HandlerInv'
  BY <1>1 DEF HandlerInv
<1>5. JoinedInv'
  BY DEF JoinedInv, PeerNamesMember, Current
<1> QED
  BY <1>2, <1>3, <1>4, <1>5

(* IInv is kept by JoinPost. *)
LEMMA JoinPostStep ==
    ASSUME IInv, NEW p \in Handlers, NEW h \in Hosts, JoinPost(p, h)
    PROVE  IInv'
<1> DEFINE r == [pc |-> "get", id |-> Current(h), old |-> 0]
<1>1. r \in Asked /\ r \in Handler /\ r.pc = "get" /\ r.id = Current(h)
  BY ProcParts, MembershipAssumption DEF IInv, Asked, Handler
<1>2. Begun(r.id)
  <2>1. Current(h)[1] = h /\ Current(h)[2] = proc[h].gen /\ proc[h].gen \in Nat
    BY ProcParts DEF IInv, Current
  <2> QED
    BY <1>1, <2>1 DEF Begun
<1>3. Become(p, r) /\ UNCHANGED <<proc, conf, removed, pruned, peer, watch, faults, changes>>
  BY DEF JoinPost, HandlerOnly
<1> HIDE DEF r
<1> QED
  BY <1>1, <1>2, <1>3, HandlerStep

(* IInv is kept by JoinGet. *)
LEMMA JoinGetStep ==
    ASSUME IInv, NEW p \in Handlers, JoinGet(p)
    PROVE  IInv'
<1>1. join[p] \in Asked /\ Begun(join[p].id) /\ join[p].id \in IDs
  BY AskedRecord DEF IInv, Values, BegunInv, JoinGet
<1>2. PICK k : /\ k \in {0, peer[join[p].id[1]]}
               /\ Become(p, IF Replaced(join[p].id, k)
                              THEN [join[p] EXCEPT !.pc = "delete", !.old = k]
                              ELSE [join[p] EXCEPT !.pc = "add"])
  BY DEF JoinGet
<1>3. k \in 0..MaxGen
  BY <1>1, <1>2, IDParts, MembershipAssumption DEF IInv, Values, TypeOK
<1> DEFINE r == IF Replaced(join[p].id, k)
                  THEN [join[p] EXCEPT !.pc = "delete", !.old = k]
                  ELSE [join[p] EXCEPT !.pc = "add"]
<1>4. r \in Asked /\ r.id = join[p].id /\ r.pc \in {"delete", "add"}
      /\ (r.pc = "delete" => r.old = k /\ Replaced(join[p].id, k))
  BY <1>1, <1>3 DEF Asked
<1>5. r.pc = "delete" => r.old \in Gens \ {r.id[2]}
  BY <1>3, <1>4, MembershipAssumption DEF Replaced, Gens
<1>6. r \in Handler
  BY <1>4 DEF Handler, Asked
<1>7. Become(p, r) /\ UNCHANGED <<proc, conf, removed, pruned, peer, watch, faults, changes>>
  BY <1>2 DEF JoinGet, HandlerOnly
<1> HIDE DEF r
<1> QED
  BY <1>1, <1>4, <1>5, <1>6, <1>7, HandlerStep

(* IInv is kept by JoinDelete. *)
LEMMA JoinDeleteStep ==
    ASSUME IInv, NEW p \in Handlers, JoinDelete(p)
    PROVE  IInv'
<1>1. join[p] \in Asked /\ Begun(join[p].id) /\ join[p].id \in IDs /\ join[p].pc = "delete"
  BY AskedRecord DEF IInv, Values, BegunInv, JoinDelete
<1>2. UNCHANGED <<proc, conf, removed, pruned, peer, watch, faults>>
  BY DEF JoinDelete, HandlerOnly
<1>3. CASE /\ Request("delete", <<join[p].id[1], join[p].old>>, p, join[p].id)
           /\ Become(p, [join[p] EXCEPT !.pc = "add", !.old = 0])
  <2> DEFINE j == join[p]
             r == [[j EXCEPT !.pc = "add"] EXCEPT !.old = 0]
             id == <<join[p].id[1], join[p].old>>
  <2>1. r \in Asked /\ r \in Handler /\ r.pc = "add" /\ r.id = join[p].id
    <3>1. 0 \in 0..MaxGen
      BY MembershipAssumption
    <3> QED
      BY <1>1, <3>1 DEF Asked, Handler
  <2>2. join[p].old \in Gens /\ join[p].old # join[p].id[2]
    BY <1>1 DEF IInv, HandlerInv
  <2>3. id \in IDs /\ id[1] = join[p].id[1] /\ id[2] # join[p].id[2]
    BY <1>1, <2>2, IDParts DEF IDs
  <2>4. PICK c \in Change : /\ changes' = changes \cup {c}
                            /\ c.op = "delete" /\ c.id = id /\ c.by = p /\ c.for = join[p].id
    BY <1>1, <1>3, <2>3, RequestIs DEF IInv
  <2>5. Become(p, r)
    BY <1>3
  <2> HIDE DEF r, id
  <2> QED
    BY <1>1, <1>2, <2>1, <2>3, <2>4, <2>5, HandlerStep
<1>4. CASE Become(p, Over) /\ UNCHANGED changes
  BY <1>2, <1>4, OverFact, HandlerStep
<1> QED
  BY <1>3, <1>4 DEF JoinDelete

(* IInv is kept by JoinAdd. *)
LEMMA JoinAddStep ==
    ASSUME IInv, NEW p \in Handlers, JoinAdd(p)
    PROVE  IInv'
<1>1. join[p] \in Asked /\ Begun(join[p].id) /\ join[p].id \in IDs
  BY AskedRecord DEF IInv, Values, BegunInv, JoinAdd
<1>2. UNCHANGED <<proc, conf, removed, pruned, peer, watch, faults>>
  BY DEF JoinAdd, HandlerOnly
<1>3. CASE Request("add", join[p].id, p, join[p].id) /\ Become(p, [join[p] EXCEPT !.pc = "wait"])
  <2> DEFINE r == [join[p] EXCEPT !.pc = "wait"]
  <2>1. r \in Asked /\ r \in Handler /\ r.pc = "wait" /\ r.id = join[p].id
    BY <1>1 DEF Asked, Handler
  <2>2. PICK c \in Change : /\ changes' = changes \cup {c}
                            /\ c.op = "add" /\ c.id = join[p].id /\ c.by = p
    BY <1>1, <1>3, RequestIs DEF IInv
  <2>3. Become(p, r)
    BY <1>3
  <2> HIDE DEF r
  <2> QED
    BY <1>1, <1>2, <2>1, <2>2, <2>3, HandlerStep
<1>4. CASE Become(p, Over) /\ UNCHANGED changes
  BY <1>2, <1>4, OverFact, HandlerStep
<1> QED
  BY <1>3, <1>4 DEF JoinAdd

(* IInv is kept by JoinTimeout. *)
LEMMA JoinTimeoutStep ==
    ASSUME IInv, NEW p \in Handlers, JoinTimeout(p)
    PROVE  IInv'
BY OverFact, HandlerStep DEF JoinTimeout, HandlerOnly

(* The key is stored for a replica that was added; its process, if it still *)
(* waits for the answer, has joined.                                        *)
LEMMA JoinPutStep ==
    ASSUME IInv, NEW p \in Handlers, JoinPut(p)
    PROVE  IInv'
<1> USE DEF IInv
<1> DEFINE h == join[p].id[1]
           k == join[p].id[2]
<1>0. UNCHANGED <<conf, removed, pruned, changes, watch, faults>>
  BY DEF JoinPut
<1>1. /\ join[p] \in Asked /\ join[p].id \in IDs /\ join[p].id \in conf \cup removed
      /\ h \in Hosts /\ k \in Gens /\ k \in 0..MaxGen /\ join[p].id = <<h, k>>
  <2>1. join[p] \in Asked /\ join[p].id \in IDs /\ join[p].id \in conf \cup removed
    BY AskedRecord DEF JoinPut, Values, HandlerInv
  <2>2. Gens \subseteq 0..MaxGen
    BY MembershipAssumption DEF Gens
  <2> QED
    BY <2>1, <2>2, IDParts
<1>2. join' \in [Handlers -> Handler] /\ join'[p] = Over /\ \A q \in Handlers \ {p} : join'[q] = join[q]
  BY BecomeIs, OverFact DEF JoinPut
<1>3. peer' = peer \/ peer' = [peer EXCEPT ![h] = k]
  BY DEF JoinPut
<1>4. \/ proc' = proc
      \/ proc[h].gen = k /\ proc' = [proc EXCEPT ![h].at = "joined"]
  BY DEF JoinPut
<1>5. peer' \in [Hosts -> 0..MaxGen] /\ \A g \in Hosts : peer'[g] = peer[g] \/ (g = h /\ peer'[g] = k)
  BY <1>1, <1>3 DEF Values, TypeOK
<1>6. /\ proc' \in [Hosts -> [gen : Gens, at : {"down", "joining", "joined", "member"}]]
      /\ \A g \in Hosts : proc'[g].gen = proc[g].gen
      /\ \A g \in Hosts : proc'[g] = proc[g] \/ (g = h /\ proc[h].gen = k)
  <2>1. proc[h] \in [gen : Gens, at : {"down", "joining", "joined", "member"}]
    BY <1>1 DEF Values, TypeOK
  <2> DEFINE r == [proc[h] EXCEPT !.at = "joined"]
  <2>2. r \in [gen : Gens, at : {"down", "joining", "joined", "member"}] /\ r.gen = proc[h].gen
    BY <2>1
  <2>3. proc' = proc \/ (proc[h].gen = k /\ proc' = [proc EXCEPT ![h] = r])
    BY <1>4
  <2> HIDE DEF r, h, k
  <2> QED
    BY <1>1, <2>2, <2>3 DEF Values, TypeOK
<1>7. Values'
  BY <1>0, <1>2, <1>5, <1>6 DEF Values, TypeOK
<1>8. BegunInv'
  <2>1. \A id \in IDs : Begun(id)' <=> Begun(id)
    BY <1>6, IDParts DEF Begun
  <2>2. \A c \in changes : c.id \in IDs
    BY DEF Values, TypeOK, Change
  <2>3. \A q \in Handlers : join[q] \in Asked => join[q].id \in IDs
    BY AskedRecord DEF Values
  <2> QED
    BY <1>0, <1>2, <2>1, <2>2, <2>3, OverFact DEF BegunInv, Values, TypeOK
<1>9. HandlerInv'
  BY <1>0, <1>2, OverFact DEF HandlerInv
<1>10. JoinedInv'
  <2>1. \A g \in Hosts : Current(g)' = Current(g)
    BY <1>6 DEF Current
  <2>2. \A g \in Hosts : peer'[g] # 0 => <<g, peer'[g]>> \in conf \cup removed
    BY <1>1, <1>5 DEF JoinedInv, PeerNamesMember
  <2>3. \A g \in Hosts : proc'[g].at \in {"joined", "member"} => Current(g) \in conf \cup removed
    BY <1>1, <1>6 DEF JoinedInv, Current
  <2> QED
    BY <1>0, <2>1, <2>2, <2>3 DEF JoinedInv, PeerNamesMember
<1> QED
  BY <1>7, <1>8, <1>9, <1>10

-----------------------------------------------------------------------------
(* The watcher asks for nothing but deletions, in its own name.             *)
LEMMA WatchStep ==
    ASSUME IInv, NEW h \in Leaders, Tick(h) \/ Ping(h)
    PROVE  IInv'
<1> USE DEF IInv
<1>0. UNCHANGED <<proc, conf, removed, pruned, peer, join>> /\ h \in Hosts
  BY MembershipAssumption DEF Tick, Ping, PingOk, PingFail
<1>1. /\ watch[h] \in Watcher /\ watch[h].todo \subseteq conf \cup removed
      /\ watch[h].pinged \subseteq Hosts /\ conf \cup removed \subseteq IDs
  BY DEF Values, TypeOK
<1>2. \E T \in SUBSET (conf \cup removed), S \in SUBSET Hosts :
          watch' = [watch EXCEPT ![h] = [todo |-> T, pinged |-> S]]
  <2>1. CASE Tick(h)
    BY <1>1, <2>1 DEF Tick
  <2>2. ASSUME NEW id \in IDs, PingOk(h, id)
        PROVE  \E T \in SUBSET (conf \cup removed), S \in SUBSET Hosts :
                  watch' = [watch EXCEPT ![h] = [todo |-> T, pinged |-> S]]
    BY <1>1, <2>2, IDParts DEF PingOk
  <2>3. ASSUME NEW id \in IDs, PingFail(h, id)
        PROVE  \E T \in SUBSET (conf \cup removed), S \in SUBSET Hosts :
                  watch' = [watch EXCEPT ![h] = [todo |-> T, pinged |-> S]]
    <3> DEFINE w == [watch[h] EXCEPT !.todo = @ \ {id}]
    <3>1. w = [todo |-> watch[h].todo \ {id}, pinged |-> watch[h].pinged]
      BY <1>1 DEF Watcher
    <3>2. watch' = [watch EXCEPT ![h] = w]
      BY <2>3 DEF PingFail
    <3> HIDE DEF w
    <3>3. watch' = [watch EXCEPT ![h] = [todo |-> watch[h].todo \ {id}, pinged |-> watch[h].pinged]]
      BY <3>1, <3>2
    <3> QED
      BY <1>1, <3>3
  <2> QED
    BY <2>1, <2>2, <2>3 DEF Ping
<1>3. /\ watch' \in [Leaders -> Watcher]
      /\ \A g \in Leaders : watch'[g].todo \subseteq conf \cup removed /\ watch'[g].pinged \subseteq Hosts
  <2>1. PICK T \in SUBSET (conf \cup removed), S \in SUBSET Hosts :
            watch' = [watch EXCEPT ![h] = [todo |-> T, pinged |-> S]]
    BY <1>2
  <2> DEFINE w == [todo |-> T, pinged |-> S]
  <2>2. w \in Watcher /\ w.todo = T /\ w.pinged = S
    BY <1>1 DEF Watcher
  <2> QED
    BY <2>1, <2>2 DEF Values, TypeOK
<1>4. \/ changes' = changes
      \/ \E c \in Change : changes' = changes \cup {c} /\ c.op = "delete" /\ c.by \in Hosts
  <2>1. CASE Tick(h) \/ \E id \in IDs : PingOk(h, id)
    BY <2>1 DEF Tick, PingOk
  <2>2. ASSUME NEW id \in IDs, PingFail(h, id), Request("delete", id, h, id)
        PROVE  \E c \in Change : changes' = changes \cup {c} /\ c.op = "delete" /\ c.by \in Hosts
    BY <1>0, <2>2, RequestIs
  <2> QED
    BY <2>1, <2>2 DEF Ping, PingFail
<1>5. faults' \in 0..MaxFaults
  BY MembershipAssumption DEF Tick, Ping, PingOk, PingFail, Fault, Values, TypeOK
<1>6. Values'
  BY <1>0, <1>3, <1>4, <1>5 DEF Values, TypeOK
<1>7. BegunInv'
  BY <1>0, <1>4 DEF BegunInv, Begun
<1>8. HandlerInv'
  BY <1>0, <1>4, MembershipAssumption DEF HandlerInv
<1>9. JoinedInv'
  BY <1>0 DEF JoinedInv, PeerNamesMember, Current
<1> QED
  BY <1>6, <1>7, <1>8, <1>9

-----------------------------------------------------------------------------
(* Every step keeps IInv. *)
LEMMA NextIInv == IInv /\ [Next]_vars => IInv'
<1> SUFFICES ASSUME IInv, [Next]_vars
             PROVE  IInv'
  OBVIOUS
<1>1. ASSUME NEW h \in Hosts, Crash(h) \/ Start(h) \/ PutPeer(h)
      PROVE  IInv'
  BY <1>1, ProcessStep, PutPeerStep
<1>2. ASSUME NEW h \in Leaders, Tick(h) \/ Ping(h)
      PROVE  IInv'
  BY <1>2, WatchStep
<1>3. ASSUME NEW p \in Handlers, Handle(p) \/ \E h \in Hosts : JoinPost(p, h)
      PROVE  IInv'
  BY <1>3, JoinPostStep, JoinGetStep, JoinDeleteStep, JoinAddStep, JoinTimeoutStep, JoinPutStep
     DEF Handle
<1>4. ASSUME NEW c \in changes, Apply(c) \/ Drop(c)
      PROVE  IInv'
  BY <1>4, ApplyStep, DropStep
<1>5. CASE UNCHANGED vars
  BY <1>5 DEF vars, IInv, Values, TypeOK, BegunInv, Begun, HandlerInv, JoinedInv, PeerNamesMember, Current
<1> QED
  BY <1>1, <1>2, <1>3, <1>4, <1>5 DEF Next

(* IInv is an invariant. *)
LEMMA AlwaysIInv == Spec => []IInv
BY InitIInv, NextIInv, PTL DEF Spec

(* Processes, members, changes and handlers are of their kinds; the cluster *)
(* keeps a member, no removed ID is a member again, and the watcher looks   *)
(* only at IDs that Raft has added.                                         *)
THEOREM TypeCorrect == Spec => []TypeOK
<1>1. IInv => TypeOK
  BY DEF IInv, Values
<1> QED
  BY AlwaysIInv, <1>1, PTL

(* The peer key of a host names a replica that Raft has added, whenever the *)
(* join handler or the joiner itself stores it.                             *)
THEOREM PeerKeysNameMembers == Spec => []PeerNamesMember
<1>1. IInv => PeerNamesMember
  BY DEF IInv, JoinedInv
<1> QED
  BY AlwaysIInv, <1>1, PTL

(* A process that was told it has joined is a member until a failed ping,   *)
(* or a handler for an ended process of its host, removes it: the handler   *)
(* that it asked itself never does.                                         *)
THEOREM JoinedIsMember == Spec => []MemberUnlessPruned
<1>1. IInv => MemberUnlessPruned
  BY DEF IInv, JoinedInv, MemberUnlessPruned
<1> QED
  BY AlwaysIInv, <1>1, PTL
=============================================================================
