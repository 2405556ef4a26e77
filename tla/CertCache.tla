------------------------------ MODULE CertCache ------------------------------
(***************************************************************************)
(* The certificate cache of roo/kvcache.go: Get, Put and Delete of one     *)
(* name, called by autocert on several nodes at a time, each node with its *)
(* own CertCache in front of the key of the cluster.                       *)
(*                                                                         *)
(* Abstracted: a value is the number of the Put that wrote it; the store   *)
(* is the sequence of the writes it has applied.  Raft is external: a read *)
(* sees every write applied before it, a proposal that timed out may still *)
(* be applied later.                                                       *)
(***************************************************************************)
EXTENDS Integers, Sequences

CONSTANTS
    Nodes,
    Calls,    \* bound: calls that may run at a time
    MaxPuts   \* bound: values written

ASSUME CertCacheAssumption == MaxPuts \in Nat /\ Nodes # {}

VARIABLES
    puts,     \* values written so far
    empty,    \* those of them that are empty: the ones of Delete
    hist,     \* the values applied to the store, in order
    late,     \* proposals that timed out and may still be applied
    cache,    \* cache[n]: CertCache of n
    call,     \* call[c]: a call of Get, Put or Delete
    own,      \* own[n]: the place in hist of the last Put that succeeded on n
    raced     \* raced[n]: another call was about to write the cache at that time

store == <<puts, empty, hist, late>>
vars == <<store, cache, call, own, raced>>

(* An entry holds bytes (set by Get) or a pointer to bytes (set by Put).    *)
Entry(k, d) == [kind |-> k, val |-> d]
None == Entry("none", 0)

(* val: what the call writes or has read; since, excused: own and raced of  *)
(* the node when it began.                                                  *)
Call(c, pc, n, d) ==
    call' = [call EXCEPT ![c] = [pc |-> pc, node |-> n, val |-> d,
                                 since |-> own[n], excused |-> raced[n]]]
Goto(c, pc, d) == call' = [call EXCEPT ![c].pc = pc, ![c].val = d]
Done(c, pc) == call' = [call EXCEPT ![c] = [pc |-> pc, node |-> @.node, val |-> 0,
                                            since |-> 0, excused |-> FALSE]]
Free(c) == call[c].pc \in {"ok", "error", "miss", "panic", "got"}

Init ==
    /\ puts = 0 /\ empty = {} /\ hist = <<>> /\ late = {}
    /\ cache = [n \in Nodes |-> None]
    /\ call = [c \in Calls |-> [pc |-> "ok", node |-> CHOOSE n \in Nodes : TRUE, val |-> 0,
                                since |-> 0, excused |-> FALSE]]
    /\ own = [n \in Nodes |-> 0]
    /\ raced = [n \in Nodes |-> FALSE]

(* Where d is in the store's history, 0 while it has not been applied.      *)
Pos(d) == IF d \in {hist[i] : i \in DOMAIN hist}
            THEN CHOOSE i \in DOMAIN hist : hist[i] = d ELSE 0
Stored == IF hist = <<>> THEN 0 ELSE hist[Len(hist)]
Set(n, e) == cache' = [cache EXCEPT ![n] = e]

-----------------------------------------------------------------------------
(* Get.                                                                     *)

(* A hit is asserted to be bytes: a pointer makes the call panic.           *)
GetBegin(c, n) ==
    /\ Free(c)
    /\ LET e == cache[n]
       IN  CASE e.kind = "bytes" -> Call(c, "got", n, e.val)
             [] e.kind = "ptr"   -> Done(c, "panic")
             [] OTHER            -> Call(c, "read", n, 0)
    /\ UNCHANGED <<store, cache, own, raced>>

(* Mutant: only an absent value is a miss.                                  *)
Missing_Absent(d) == d = 0

(* An empty value, or none, is a miss.                                      *)
Missing(d) == d = 0 \/ d \in empty

GetRead(c) ==
    /\ call[c].pc = "read"
    /\ \/ Done(c, "error")
       \/ Missing(Stored) /\ Done(c, "miss")
       \/ ~Missing(Stored) /\ Goto(c, "fill", Stored)
    /\ UNCHANGED <<store, cache, own, raced>>

GetFill(c) ==
    /\ call[c].pc = "fill"
    /\ Set(call[c].node, Entry("bytes", call[c].val))
    /\ Goto(c, "got", call[c].val)
    /\ UNCHANGED <<store, own, raced>>

-----------------------------------------------------------------------------
(* Put, and Delete, which drops the entry and puts an empty value.          *)

PutBegin(c, n) ==
    /\ Free(c) /\ puts < MaxPuts /\ puts' = puts + 1
    /\ Call(c, "propose", n, puts + 1)
    /\ UNCHANGED <<empty, hist, late, cache, own, raced>>

DeleteBegin(c, n) ==
    /\ Free(c) /\ puts < MaxPuts /\ puts' = puts + 1
    /\ empty' = empty \cup {puts + 1}
    /\ Set(n, None)
    /\ Call(c, "propose", n, puts + 1)
    /\ UNCHANGED <<hist, late, own, raced>>

(* The write is applied; SyncPropose has not returned yet.                  *)
PutApply(c) ==
    /\ call[c].pc = "propose"
    /\ hist' = Append(hist, call[c].val)
    /\ Goto(c, "applied", call[c].val)
    /\ UNCHANGED <<puts, empty, late, cache, own, raced>>

(* Mutant: Put leaves the entry that is there.                              *)
PutReturn_NoSet(c) ==
    LET n == call[c].node
    IN  /\ call[c].pc = "applied"
        /\ Done(c, "ok")
        /\ own' = [own EXCEPT ![n] = Pos(call[c].val)]
        /\ raced' = [raced EXCEPT ![n] = \E x \in Calls \ {c} :
                        call[x].node = n /\ call[x].pc \in {"applied", "fill"}]
        /\ UNCHANGED <<store, cache>>

(* SyncPropose returns: &data is cached.                                    *)
PutReturn(c) ==
    LET n == call[c].node
    IN  /\ call[c].pc = "applied"
        /\ Set(n, Entry("ptr", call[c].val))
        /\ Done(c, "ok")
        /\ own' = [own EXCEPT ![n] = Pos(call[c].val)]
        /\ raced' = [raced EXCEPT ![n] = \E x \in Calls \ {c} :
                        call[x].node = n /\ call[x].pc \in {"applied", "fill"}]
        /\ UNCHANGED store

(* Twelve seconds, or another error.                                        *)
PutTimeout(c) ==
    /\ \/ call[c].pc = "propose" /\ late' = late \cup {call[c].val}
       \/ call[c].pc = "applied" /\ UNCHANGED late
    /\ Done(c, "error")
    /\ UNCHANGED <<puts, empty, hist, cache, own, raced>>

LateApply(d) ==
    /\ late' = late \ {d} /\ hist' = Append(hist, d)
    /\ UNCHANGED <<puts, empty, cache, call, own, raced>>

-----------------------------------------------------------------------------
(* Mutant: entries set by Put have no expiration.                           *)
Expire_NotPut(n) ==
    /\ cache[n].kind = "bytes" /\ Set(n, None)
    /\ UNCHANGED <<store, call, own, raced>>

(* An hour after it was set.                                                *)
Expire(n) ==
    /\ cache[n] # None /\ Set(n, None)
    /\ UNCHANGED <<store, call, own, raced>>

Step(c) == GetRead(c) \/ GetFill(c) \/ PutApply(c) \/ PutReturn(c) \/ PutTimeout(c)

Next ==
    \/ \E c \in Calls : Step(c) \/ \E n \in Nodes : GetBegin(c, n) \/ PutBegin(c, n) \/ DeleteBegin(c, n)
    \/ \E d \in late : LateApply(d)
    \/ \E n \in Nodes : Expire(n)

(* Calls end, and entries expire.  No call has to be made.                  *)
Spec ==
    /\ Init /\ [][Next]_vars
    /\ \A c \in Calls : WF_vars(Step(c))
    /\ \A n \in Nodes : WF_vars(Expire(n))

-----------------------------------------------------------------------------
(* Properties.                                                              *)

(* What Get returns was in the store once: a value whose Put failed before  *)
(* it was applied, or that was deleted (is empty), is never returned.       *)
GetWasStored ==
    \A c \in Calls : call[c].pc = "got" => Pos(call[c].val) > 0 /\ call[c].val \notin empty

(* A Get never returns anything older than the Put that last succeeded on   *)
(* the same node before it began, unless another call on that node was      *)
(* about to write the cache when that Put returned (CertCache.Set of Get,   *)
(* whose value was read before).                                            *)
GetNotOlderThanOwn ==
    \A c \in Calls : call[c].pc = "got" => call[c].excused \/ Pos(call[c].val) >= call[c].since

(* Once nothing is written any more every entry goes away or holds the      *)
(* stored certificate as bytes: neither a stale certificate nor the entry   *)
(* that makes Get panic stays for ever (CertCache expires after an hour).   *)
CachesConverge ==
    <>[](\A n \in Nodes : cache[n] \in {None, Entry("bytes", Stored)})
=============================================================================
