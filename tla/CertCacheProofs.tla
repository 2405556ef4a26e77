-------------------------- MODULE CertCacheProofs --------------------------
(***************************************************************************)
(* Proofs about CertCache, for any number of nodes, of concurrent calls    *)
(* and of writes: what Get returns.                                        *)
(***************************************************************************)
EXTENDS CertCache, TLAPS

PCs == {"ok", "error", "miss", "panic", "got", "read", "fill", "propose", "applied"}
Entries == [kind : {"none", "bytes", "ptr"}, val : Nat]
CallRecords == [pc : PCs, node : Nodes, val : Nat, since : Nat, excused : BOOLEAN]

TypeInv ==
    /\ puts \in Nat /\ empty \subseteq 1..puts
    /\ hist \in Seq(1..puts) /\ late \subseteq 1..puts
    /\ cache \in [Nodes -> Entries]
    /\ call \in [Calls -> CallRecords]
    /\ own \in [Nodes -> Nat]
    /\ raced \in [Nodes -> BOOLEAN]

Applied == {hist[i] : i \in DOMAIN hist}
Proposed(c) == call[c].pc = "propose"

(* A value is applied once: it is being proposed by one call, or has timed  *)
(* out, or is in the store's history at one place.                          *)
OnceInv ==
    /\ \A i, j \in DOMAIN hist : hist[i] = hist[j] => i = j
    /\ late \cap Applied = {}
    /\ \A c \in Calls : Proposed(c) =>
          /\ call[c].val \in (1..puts) \ (late \cup Applied)
          /\ \A d \in Calls : Proposed(d) /\ call[d].val = call[c].val => d = c

(* What a Get holds and what it has left in a cache was stored.             *)
StoredInv ==
    /\ \A n \in Nodes : cache[n].kind = "bytes" => cache[n].val \in Applied \ empty
    /\ \A c \in Calls : call[c].pc \in {"fill", "got"} => call[c].val \in Applied \ empty

(* How old that may be: it is behind the node's own last Put only if        *)
(* another call was about to write the cache when that Put returned.        *)
AgeInv ==
    /\ \A n \in Nodes : own[n] <= Len(hist)
    /\ \A n \in Nodes : cache[n].kind = "bytes" => raced[n] \/ Pos(cache[n].val) >= own[n]
    /\ \A c \in Calls : call[c].since <= Len(hist)
    /\ \A c \in Calls : call[c].pc = "fill" =>
          /\ Pos(call[c].val) >= call[c].since
          /\ raced[call[c].node] \/ Pos(call[c].val) >= own[call[c].node]
    /\ \A c \in Calls : call[c].pc = "got" => call[c].excused \/ Pos(call[c].val) >= call[c].since

IInv == TypeInv /\ OnceInv /\ StoredInv /\ AgeInv

-----------------------------------------------------------------------------
(* Pos.                                                                     *)

(* Pos finds an applied value in the history. *)
LEMMA PosApplied ==
    ASSUME hist \in Seq(Nat), NEW d \in Applied
    PROVE  Pos(d) \in 1..Len(hist) /\ hist[Pos(d)] = d
<1>1. \E i \in DOMAIN hist : hist[i] = d
  BY DEF Applied
<1>2. Pos(d) \in DOMAIN hist /\ hist[Pos(d)] = d
  BY <1>1, Zenon DEF Pos
<1> QED
  BY <1>2

(* Pos is 0 exactly for what was never applied. *)
LEMMA PosNat ==
    ASSUME hist \in Seq(Nat), NEW d
    PROVE  Pos(d) \in 0..Len(hist) /\ (Pos(d) > 0 <=> d \in Applied)
<1>1. CASE d \in Applied
  BY <1>1, PosApplied
<1>2. CASE d \notin Applied
  BY <1>2 DEF Pos, Applied
<1> QED
  BY <1>1, <1>2

(* Appending a new value moves no other.                                    *)
LEMMA PosAppend ==
    ASSUME TypeInv, OnceInv, NEW v \in (1..puts) \ Applied, hist' = Append(hist, v)
    PROVE  /\ Applied' = Applied \cup {v}
           /\ Len(hist') = Len(hist) + 1
           /\ \A i, j \in DOMAIN hist' : hist'[i] = hist'[j] => i = j
           /\ \A d \in Applied : Pos(d)' = Pos(d)
<1>0. hist \in Seq(Nat) /\ hist' \in Seq(Nat)
  BY DEF TypeInv
<1>1. Len(hist') = Len(hist) + 1 /\ DOMAIN hist' = 1..Len(hist) + 1
  BY <1>0
<1>2. \A i \in DOMAIN hist : hist'[i] = hist[i]
  BY <1>0
<1>3. hist'[Len(hist) + 1] = v
  BY <1>0
<1>4. DOMAIN hist = 1..Len(hist)
  BY <1>0
<1>5. Applied' = Applied \cup {v}
  BY <1>0, <1>1, <1>2, <1>3, <1>4 DEF Applied
<1>6. \A i, j \in DOMAIN hist' : hist'[i] = hist'[j] => i = j
  BY <1>0, <1>1, <1>2, <1>3, <1>4 DEF Applied, OnceInv
<1>7. ASSUME NEW d \in Applied
      PROVE  Pos(d)' = Pos(d)
  <2>1. Pos(d) \in 1..Len(hist) /\ hist[Pos(d)] = d
    BY <1>0, PosApplied
  <2>2. \E i \in DOMAIN hist' : hist'[i] = d
    BY <1>1, <1>2, <1>4, <2>1
  <2>3. Pos(d)' \in DOMAIN hist' /\ hist'[Pos(d)'] = d
    BY <2>2, Zenon DEF Pos
  <2>4. Pos(d) \in DOMAIN hist' /\ hist'[Pos(d)] = d
    BY <1>1, <1>2, <1>4, <2>1
  <2> QED
    BY <1>6, <2>3, <2>4
<1> QED
  BY <1>1, <1>5, <1>6, <1>7

(* The last value is the newest.                                            *)
LEMMA PosStored ==
    ASSUME TypeInv, OnceInv, Stored # 0
    PROVE  Stored \in Applied /\ Pos(Stored) = Len(hist)
<1>0. hist \in Seq(Nat)
  BY DEF TypeInv
<1>1. hist # <<>> /\ Len(hist) \in DOMAIN hist /\ Stored = hist[Len(hist)]
  BY <1>0 DEF Stored
<1>2. Stored \in Applied
  BY <1>1 DEF Applied
<1>3. Pos(Stored) \in 1..Len(hist) /\ hist[Pos(Stored)] = Stored
  BY <1>0, <1>2, PosApplied
<1> QED
  BY <1>0, <1>1, <1>2, <1>3 DEF OnceInv

(* The positions stay while the history does. *)
LEMMA PosUnchanged ==
    ASSUME UNCHANGED hist
    PROVE  /\ Applied' = Applied
           /\ \A d : Pos(d)' = Pos(d)
BY DEF Applied, Pos

-----------------------------------------------------------------------------
(* The three ways a call's record is written.                               *)
LEMMA CallIs ==
    ASSUME TypeInv, NEW c \in Calls, NEW p \in PCs, NEW n \in Nodes, NEW d \in Nat, Call(c, p, n, d)
    PROVE  /\ call' \in [Calls -> CallRecords]
           /\ \A x \in Calls \ {c} : call'[x] = call[x]
           /\ call'[c].pc = p /\ call'[c].node = n /\ call'[c].val = d
           /\ call'[c].since = own[n] /\ call'[c].excused = raced[n]
<1> DEFINE r == [pc |-> p, node |-> n, val |-> d, since |-> own[n], excused |-> raced[n]]
<1>1. r \in CallRecords
  BY DEF TypeInv, CallRecords
<1>2. call' = [call EXCEPT ![c] = r] /\ call \in [Calls -> CallRecords]
  BY DEF Call, TypeInv
<1> QED
  BY <1>1, <1>2

(* What Goto leaves in the calls' records. *)
LEMMA GotoIs ==
    ASSUME TypeInv, NEW c \in Calls, NEW p \in PCs, NEW d \in Nat, Goto(c, p, d)
    PROVE  /\ call' \in [Calls -> CallRecords]
           /\ \A x \in Calls \ {c} : call'[x] = call[x]
           /\ call'[c].pc = p /\ call'[c].node = call[c].node /\ call'[c].val = d
           /\ call'[c].since = call[c].since /\ call'[c].excused = call[c].excused
<1> DEFINE r == [[call[c] EXCEPT !.pc = p] EXCEPT !.val = d]
<1>1. call[c] \in CallRecords
  BY DEF TypeInv
<1>2. r \in CallRecords
  BY <1>1 DEF CallRecords
<1>3. call' = [call EXCEPT ![c] = r] /\ call \in [Calls -> CallRecords]
  BY DEF Goto, TypeInv
<1> QED
  BY <1>1, <1>2, <1>3 DEF CallRecords

(* What Done leaves in the calls' records. *)
LEMMA DoneIs ==
    ASSUME TypeInv, NEW c \in Calls, NEW p \in PCs, Done(c, p)
    PROVE  /\ call' \in [Calls -> CallRecords]
           /\ \A x \in Calls \ {c} : call'[x] = call[x]
           /\ call'[c].pc = p /\ call'[c].since = 0
<1> DEFINE r == [pc |-> p, node |-> call[c].node, val |-> 0, since |-> 0, excused |-> FALSE]
<1>1. call[c].node \in Nodes
  BY DEF TypeInv, CallRecords
<1>2. r \in CallRecords
  BY <1>1 DEF CallRecords
<1>3. call' = [call EXCEPT ![c] = r] /\ call \in [Calls -> CallRecords]
  BY DEF Done, TypeInv
<1> QED
  BY <1>2, <1>3

(* What Set leaves in the caches. *)
LEMMA SetIs ==
    ASSUME TypeInv, NEW n \in Nodes, NEW k \in {"none", "bytes", "ptr"}, NEW d \in Nat,
           Set(n, Entry(k, d))
    PROVE  /\ cache' \in [Nodes -> Entries]
           /\ \A m \in Nodes \ {n} : cache'[m] = cache[m]
           /\ cache'[n].kind = k /\ cache'[n].val = d
<1>1. Entry(k, d) \in Entries /\ Entry(k, d).kind = k /\ Entry(k, d).val = d
  BY DEF Entry, Entries
<1> QED
  BY <1>1 DEF Set, TypeInv

-----------------------------------------------------------------------------
(* The initial states satisfy IInv. *)
LEMMA InitIInv == Init => IInv
<1> SUFFICES ASSUME Init PROVE IInv
  OBVIOUS
<1>0. (CHOOSE n \in Nodes : TRUE) \in Nodes
  BY CertCacheAssumption
<1>1. call \in [Calls -> CallRecords] /\ \A c \in Calls : call[c].pc = "ok" /\ call[c].since = 0
  <2> DEFINE r == [pc |-> "ok", node |-> CHOOSE n \in Nodes : TRUE, val |-> 0,
                   since |-> 0, excused |-> FALSE]
  <2>1. r \in CallRecords
    BY <1>0 DEF CallRecords, PCs
  <2>2. call = [c \in Calls |-> r]
    BY DEF Init
  <2> QED
    BY <2>1, <2>2
<1>2. cache \in [Nodes -> Entries] /\ \A n \in Nodes : cache[n].kind = "none"
  BY DEF Init, None, Entry, Entries
<1>3. hist = <<>> /\ DOMAIN hist = {} /\ Len(hist) = 0 /\ hist \in Seq(1..puts)
  BY DEF Init
<1>4. TypeInv
  BY <1>1, <1>2, <1>3 DEF Init, TypeInv
<1>5. OnceInv
  BY <1>1, <1>3 DEF Init, OnceInv, Applied, Proposed
<1>6. \A n \in Nodes : own[n] = 0
  BY DEF Init
<1>7. StoredInv /\ AgeInv
  BY <1>1, <1>2, <1>3, <1>6 DEF StoredInv, AgeInv
<1> QED
  BY <1>4, <1>5, <1>7 DEF IInv

(* At most the record of c changes.                                         *)
CallsBut(c) == call' \in [Calls -> CallRecords] /\ \A x \in Calls \ {c} : call'[x] = call[x]

(* Get looks at the cache.                                                  *)
LEMMA GetBeginStep ==
    ASSUME IInv, NEW c \in Calls, NEW n \in Nodes, GetBegin(c, n)
    PROVE  IInv'
<1> USE DEF IInv
<1>0. UNCHANGED <<puts, empty, hist, late, cache, own, raced>>
  BY DEF GetBegin, store
<1>1. Applied' = Applied /\ \A d : Pos(d)' = Pos(d)
  BY <1>0, PosUnchanged
<1>2. cache[n] \in Entries /\ cache[n].val \in Nat
  BY DEF TypeInv, Entries
<1>3. \/ Call(c, "got", n, cache[n].val) /\ cache[n].kind = "bytes"
      \/ Done(c, "panic")
      \/ Call(c, "read", n, 0)
  BY DEF GetBegin
<1>4. /\ CallsBut(c) /\ call'[c].pc \in {"got", "panic", "read"}
      /\ call'[c].since \in {0, own[n]}
      /\ call'[c].pc = "got" =>
            /\ cache[n].kind = "bytes" /\ call'[c].val = cache[n].val
            /\ call'[c].since = own[n] /\ call'[c].excused = raced[n]
  BY <1>2, <1>3, CallIs, DoneIs DEF PCs, CallsBut
<1>5. TypeInv'
  BY <1>0, <1>4 DEF TypeInv, CallsBut
<1>6. OnceInv'
  BY <1>0, <1>1, <1>4 DEF OnceInv, Proposed, CallsBut
<1>7. StoredInv'
  BY <1>0, <1>1, <1>4 DEF StoredInv, CallsBut
<1>8. AgeInv'
  <2>1. own[n] \in Nat /\ Len(hist) \in Nat
    BY DEF TypeInv
  <2> QED
    BY <1>0, <1>1, <1>4, <2>1 DEF AgeInv, CallsBut
<1> QED
  BY <1>5, <1>6, <1>7, <1>8

(* Get reads the store.                                                     *)
LEMMA GetReadStep ==
    ASSUME IInv, NEW c \in Calls, GetRead(c)
    PROVE  IInv'
<1> USE DEF IInv
<1>0. UNCHANGED <<puts, empty, hist, late, cache, own, raced>>
  BY DEF GetRead, store
<1>1. Applied' = Applied /\ \A d : Pos(d)' = Pos(d)
  BY <1>0, PosUnchanged
<1>2. ~Missing(Stored) =>
          Stored \in Applied \ empty /\ Pos(Stored) = Len(hist) /\ Stored \in Nat
  <2>1. Applied \subseteq Nat
    BY DEF TypeInv, Applied
  <2> QED
    BY <2>1, PosStored DEF Missing
<1>3. /\ CallsBut(c) /\ call'[c].pc \in {"error", "miss", "fill"}
      /\ call'[c].since \in {0, call[c].since}
      /\ call'[c].pc = "fill" =>
            /\ call'[c].val = Stored /\ ~Missing(Stored)
            /\ call'[c].since = call[c].since /\ call'[c].node = call[c].node
  <2>1. CASE Done(c, "error") \/ Done(c, "miss")
    BY <2>1, DoneIs DEF PCs, CallsBut
  <2>2. CASE ~Missing(Stored) /\ Goto(c, "fill", Stored)
    BY <1>2, <2>2, GotoIs DEF PCs, CallsBut
  <2> QED
    BY <2>1, <2>2 DEF GetRead
<1>4. TypeInv'
  BY <1>0, <1>3 DEF TypeInv, CallsBut
<1>5. OnceInv'
  BY <1>0, <1>1, <1>3 DEF OnceInv, Proposed, CallsBut
<1>6. StoredInv'
  BY <1>0, <1>1, <1>2, <1>3 DEF StoredInv, CallsBut
<1>7. AgeInv'
  <2>1. call[c].node \in Nodes /\ call[c].since \in Nat /\ Len(hist) \in Nat
    BY DEF TypeInv, CallRecords
  <2>2. call[c].since <= Len(hist) /\ own[call[c].node] <= Len(hist)
    BY <2>1 DEF AgeInv
  <2>3. /\ call'[c].since <= Len(hist)
        /\ call'[c].pc = "fill" =>
              /\ Pos(call'[c].val) >= call'[c].since
              /\ Pos(call'[c].val) >= own[call'[c].node]
    <3>1. call'[c].since <= Len(hist)
      BY <1>3, <2>1, <2>2
    <3>2. ASSUME call'[c].pc = "fill" PROVE Pos(call'[c].val) = Len(hist)
      BY <1>2, <1>3, <3>2
    <3> QED
      BY <1>3, <2>1, <2>2, <3>1, <3>2
  <2>4. \A x \in Calls \ {c} : call'[x] = call[x]
    BY <1>3 DEF CallsBut
  <2> QED
    BY <1>0, <1>1, <1>3, <2>3, <2>4 DEF AgeInv
<1> QED
  BY <1>4, <1>5, <1>6, <1>7

(* Get writes the cache and returns.                                        *)
LEMMA GetFillStep ==
    ASSUME IInv, NEW c \in Calls, GetFill(c)
    PROVE  IInv'
<1> USE DEF IInv
<1>0. UNCHANGED <<puts, empty, hist, late, own, raced>> /\ call[c].pc = "fill"
  BY DEF GetFill, store
<1>1. Applied' = Applied /\ \A d : Pos(d)' = Pos(d)
  BY <1>0, PosUnchanged
<1> DEFINE n == call[c].node
<1>2. n \in Nodes /\ call[c].val \in Nat
  BY DEF TypeInv, CallRecords
<1>3. /\ cache' \in [Nodes -> Entries] /\ \A m \in Nodes \ {n} : cache'[m] = cache[m]
      /\ cache'[n].val = call[c].val
  BY <1>2, SetIs DEF GetFill
<1>4. /\ CallsBut(c) /\ call'[c].pc = "got"
      /\ call'[c].val = call[c].val /\ call'[c].since = call[c].since
  BY <1>2, GotoIs DEF GetFill, PCs, CallsBut
<1>5. TypeInv'
  BY <1>0, <1>3, <1>4 DEF TypeInv, CallsBut
<1>6. OnceInv'
  BY <1>0, <1>1, <1>4 DEF OnceInv, Proposed, CallsBut
<1>7. StoredInv'
  BY <1>0, <1>1, <1>2, <1>3, <1>4 DEF StoredInv, CallsBut
<1>8. AgeInv'
  BY <1>0, <1>1, <1>2, <1>3, <1>4 DEF AgeInv, CallsBut
<1> QED
  BY <1>5, <1>6, <1>7, <1>8

(* Put and Delete draw a value that nobody has seen.                        *)
LEMMA BeginStep ==
    ASSUME IInv, NEW c \in Calls, NEW n \in Nodes, PutBegin(c, n) \/ DeleteBegin(c, n)
    PROVE  IInv'
<1> USE DEF IInv
<1>0. /\ puts' = puts + 1 /\ UNCHANGED <<hist, late, own, raced>>
      /\ empty' \in {empty, empty \cup {puts + 1}}
  BY DEF PutBegin, DeleteBegin
<1>1. Applied' = Applied /\ \A d : Pos(d)' = Pos(d)
  BY <1>0, PosUnchanged
<1>2. puts + 1 \notin Applied /\ puts + 1 \notin late
  BY DEF TypeInv, Applied
<1>3. /\ puts' \in Nat /\ 1..puts \subseteq 1..puts' /\ puts + 1 \in (1..puts') \ (1..puts)
  BY <1>0 DEF TypeInv
<1>4. /\ cache' \in [Nodes -> Entries]
      /\ \A m \in Nodes : cache'[m].kind = "bytes" => cache'[m] = cache[m]
  <2>1. CASE PutBegin(c, n)
    BY <2>1 DEF PutBegin, TypeInv
  <2>2. CASE DeleteBegin(c, n)
    BY <2>2, SetIs DEF DeleteBegin, None
  <2> QED
    BY <2>1, <2>2
<1>5. /\ CallsBut(c) /\ call'[c].pc = "propose"
      /\ call'[c].val = puts + 1 /\ call'[c].since = own[n]
  <2>1. Call(c, "propose", n, puts + 1) /\ puts + 1 \in Nat
    BY <1>0, <1>3 DEF PutBegin, DeleteBegin
  <2> QED
    BY <2>1, CallIs DEF PCs, CallsBut
<1>6. TypeInv'
  <2>1. hist' \in Seq(1..puts')
    BY <1>0, <1>3 DEF TypeInv
  <2> QED
    BY <1>0, <1>3, <1>4, <1>5, <2>1 DEF TypeInv, CallsBut
<1>7. OnceInv'
  <2>1. \A x \in Calls \ {c} : Proposed(x) => call[x].val # puts + 1
    BY <1>3 DEF OnceInv
  <2> QED
    BY <1>0, <1>1, <1>2, <1>3, <1>5, <2>1 DEF OnceInv, Proposed, CallsBut
<1>8. StoredInv'
  BY <1>0, <1>1, <1>2, <1>4, <1>5 DEF StoredInv, CallsBut
<1>9. AgeInv'
  BY <1>0, <1>1, <1>4, <1>5 DEF AgeInv, CallsBut
<1> QED
  BY <1>6, <1>7, <1>8, <1>9

(* The store applies the write of a running call.                           *)
LEMMA PutApplyStep ==
    ASSUME IInv, NEW c \in Calls, PutApply(c)
    PROVE  IInv'
<1> USE DEF IInv
<1>0. call[c].val \in (1..puts) \ Applied /\ call[c].val \in Nat /\ Len(hist) \in Nat
  BY DEF PutApply, OnceInv, Proposed, TypeInv, CallRecords
<1>1. /\ Applied' = Applied \cup {call[c].val} /\ Len(hist') = Len(hist) + 1
      /\ \A i, j \in DOMAIN hist' : hist'[i] = hist'[j] => i = j
      /\ \A d \in Applied : Pos(d)' = Pos(d)
  BY <1>0, PosAppend DEF PutApply
<1>2. /\ CallsBut(c) /\ call'[c].pc = "applied" /\ call'[c].since = call[c].since
  BY <1>0, GotoIs DEF PutApply, PCs, CallsBut
<1>3. hist' \in Seq(1..puts')
  BY <1>0 DEF PutApply, TypeInv
<1>4. TypeInv'
  BY <1>2, <1>3 DEF PutApply, TypeInv, CallsBut
<1>5. OnceInv'
  BY <1>0, <1>1, <1>2 DEF PutApply, OnceInv, Proposed, CallsBut
<1>6. StoredInv'
  BY <1>1, <1>2 DEF PutApply, StoredInv, CallsBut
<1>7. AgeInv'
  <2>1. \A n \in Nodes : own[n] \in Nat
    BY DEF TypeInv
  <2>2. \A x \in Calls : call[x].since \in Nat
    BY DEF TypeInv, CallRecords
  <2> QED
    BY <1>0, <1>1, <1>2, <2>1, <2>2 DEF PutApply, AgeInv, StoredInv, CallsBut
<1> QED
  BY <1>4, <1>5, <1>6, <1>7

(* ... or of one that has given up.                                         *)
LEMMA LateApplyStep ==
    ASSUME IInv, NEW v \in late, LateApply(v)
    PROVE  IInv'
<1> USE DEF IInv
<1>0. v \in (1..puts) \ Applied /\ Len(hist) \in Nat
  BY DEF OnceInv, TypeInv
<1>1. /\ Applied' = Applied \cup {v} /\ Len(hist') = Len(hist) + 1
      /\ \A i, j \in DOMAIN hist' : hist'[i] = hist'[j] => i = j
      /\ \A d \in Applied : Pos(d)' = Pos(d)
  BY <1>0, PosAppend DEF LateApply
<1>2. hist' \in Seq(1..puts')
  BY <1>0 DEF LateApply, TypeInv
<1>3. TypeInv'
  BY <1>2 DEF LateApply, TypeInv
<1>4. OnceInv'
  BY <1>0, <1>1 DEF LateApply, OnceInv, Proposed
<1>5. StoredInv'
  BY <1>1 DEF LateApply, StoredInv
<1>6. AgeInv'
  <2>1. \A n \in Nodes : own[n] \in Nat
    BY DEF TypeInv
  <2>2. \A x \in Calls : call[x].since \in Nat
    BY DEF TypeInv, CallRecords
  <2> QED
    BY <1>0, <1>1, <2>1, <2>2 DEF LateApply, AgeInv, StoredInv
<1> QED
  BY <1>3, <1>4, <1>5, <1>6

(* A Put returns: the entry is a pointer, and every Get of this node that   *)
(* is about to fill the cache is noted in raced.                            *)
LEMMA PutReturnStep ==
    ASSUME IInv, NEW c \in Calls, PutReturn(c)
    PROVE  IInv'
<1> USE DEF IInv
<1> DEFINE n == call[c].node
<1>0. UNCHANGED <<puts, empty, hist, late>>
  BY DEF PutReturn, store
<1>1. Applied' = Applied /\ \A d : Pos(d)' = Pos(d)
  BY <1>0, PosUnchanged
<1>2. n \in Nodes /\ call[c].val \in Nat /\ Len(hist) \in Nat
  BY DEF TypeInv, CallRecords
<1>3. Pos(call[c].val) \in Nat /\ Pos(call[c].val) <= Len(hist)
  <2>1. hist \in Seq(Nat)
    BY DEF TypeInv
  <2> QED
    BY <2>1, PosNat
<1>4. /\ cache' \in [Nodes -> Entries] /\ \A m \in Nodes \ {n} : cache'[m] = cache[m]
      /\ cache'[n].kind = "ptr"
  BY <1>2, SetIs DEF PutReturn
<1>5. CallsBut(c) /\ call'[c].pc = "ok" /\ call'[c].since = 0
  BY DoneIs DEF PutReturn, PCs, CallsBut
<1>6. /\ own' \in [Nodes -> Nat] /\ raced' \in [Nodes -> BOOLEAN]
      /\ own'[n] = Pos(call[c].val)
      /\ \A m \in Nodes \ {n} : own'[m] = own[m] /\ raced'[m] = raced[m]
      /\ \A x \in Calls \ {c} : call[x].node = n /\ call[x].pc = "fill" => raced'[n]
  BY <1>2, <1>3 DEF PutReturn, TypeInv
<1>7. TypeInv'
  BY <1>0, <1>4, <1>5, <1>6 DEF TypeInv, CallsBut
<1>8. OnceInv'
  BY <1>0, <1>1, <1>5 DEF OnceInv, Proposed, CallsBut
<1>9. StoredInv'
  BY <1>0, <1>1, <1>2, <1>4, <1>5 DEF StoredInv, CallsBut
<1>10. AgeInv'
  <2>1. \A x \in Calls : call[x].node \in Nodes
    BY DEF TypeInv, CallRecords
  <2>2. \A m \in Nodes : own'[m] <= Len(hist')
    BY <1>0, <1>2, <1>3, <1>6 DEF AgeInv
  <2>3. \A m \in Nodes : cache'[m].kind = "bytes" => raced'[m] \/ Pos(cache[m].val)' >= own'[m]
    BY <1>1, <1>4, <1>6 DEF AgeInv
  <2>4. \A x \in Calls : call'[x].since <= Len(hist')
    BY <1>0, <1>2, <1>5 DEF AgeInv, CallsBut
  <2>5. \A x \in Calls : call'[x].pc = "fill" =>
            /\ Pos(call[x].val)' >= call'[x].since
            /\ raced'[call'[x].node] \/ Pos(call[x].val)' >= own'[call'[x].node]
    BY <1>1, <1>5, <1>6, <2>1 DEF AgeInv, CallsBut
  <2>6. \A x \in Calls : call'[x].pc = "got" =>
            call'[x].excused \/ Pos(call[x].val)' >= call'[x].since
    BY <1>1, <1>5 DEF AgeInv, CallsBut
  <2> QED
    BY <2>2, <2>3, <2>4, <2>5, <2>6 DEF AgeInv
<1> QED
  BY <1>7, <1>8, <1>9, <1>10

(* A Put gives up, its write applied or not.                                *)
LEMMA PutTimeoutStep ==
    ASSUME IInv, NEW c \in Calls, PutTimeout(c)
    PROVE  IInv'
<1> USE DEF IInv
<1>0. UNCHANGED <<puts, empty, hist, cache, own, raced>>
  BY DEF PutTimeout
<1>1. Applied' = Applied /\ \A d : Pos(d)' = Pos(d)
  BY <1>0, PosUnchanged
<1>2. CallsBut(c) /\ call'[c].pc = "error" /\ call'[c].since = 0
  BY DoneIs DEF PutTimeout, PCs, CallsBut
<1>3. late' = late \/ (Proposed(c) /\ late' = late \cup {call[c].val})
  BY DEF PutTimeout, Proposed
<1>4. TypeInv'
  BY <1>0, <1>2, <1>3 DEF TypeInv, OnceInv, CallsBut
<1>5. OnceInv'
  BY <1>0, <1>1, <1>2, <1>3 DEF OnceInv, Proposed, CallsBut
<1>6. StoredInv'
  BY <1>0, <1>1, <1>2 DEF StoredInv, CallsBut
<1>7. AgeInv'
  <2>1. Len(hist) \in Nat
    BY DEF TypeInv
  <2> QED
    BY <1>0, <1>1, <1>2, <2>1 DEF AgeInv, CallsBut
<1> QED
  BY <1>4, <1>5, <1>6, <1>7

(* IInv is kept by Expire. *)
LEMMA ExpireStep ==
    ASSUME IInv, UNCHANGED vars \/ \E n \in Nodes : Expire(n)
    PROVE  IInv'
<1> USE DEF IInv
<1>0. UNCHANGED <<puts, empty, hist, late, call, own, raced>>
  BY DEF Expire, store, vars
<1>1. Applied' = Applied /\ \A d : Pos(d)' = Pos(d)
  BY <1>0, PosUnchanged
<1>2. /\ cache' \in [Nodes -> Entries]
      /\ \A m \in Nodes : cache'[m].kind = "bytes" => cache'[m] = cache[m]
  <2>1. CASE UNCHANGED vars
    BY <2>1 DEF vars, TypeInv
  <2>2. ASSUME NEW n \in Nodes, Expire(n)
        PROVE  <1>2!1
    BY <2>2, SetIs DEF Expire, None
  <2>3. ASSUME NEW n \in Nodes, Expire(n)
        PROVE  <1>2!2
    BY <2>3, SetIs DEF Expire, None
  <2> QED
    BY <2>1, <2>2, <2>3
<1>3. TypeInv'
  BY <1>0, <1>2 DEF TypeInv
<1>4. OnceInv'
  BY <1>0, <1>1 DEF OnceInv, Proposed
<1>5. StoredInv' /\ AgeInv'
  BY <1>0, <1>1, <1>2 DEF StoredInv, AgeInv
<1> QED
  BY <1>3, <1>4, <1>5

(* Every step keeps IInv. *)
LEMMA NextIInv == IInv /\ [Next]_vars => IInv'
<1> SUFFICES ASSUME IInv, [Next]_vars
             PROVE  IInv'
  OBVIOUS
<1>1. ASSUME NEW c \in Calls, Step(c) \/ \E n \in Nodes : GetBegin(c, n) \/ PutBegin(c, n) \/ DeleteBegin(c, n)
      PROVE  IInv'
  BY <1>1, GetBeginStep, GetReadStep, GetFillStep, BeginStep, PutApplyStep, PutReturnStep,
     PutTimeoutStep DEF Step
<1>2. CASE \E d \in late : LateApply(d)
  BY <1>2, LateApplyStep
<1>3. CASE UNCHANGED vars \/ \E n \in Nodes : Expire(n)
  BY <1>3, ExpireStep
<1> QED
  BY <1>1, <1>2, <1>3 DEF Next

-----------------------------------------------------------------------------
(* IInv is an invariant. *)
LEMMA AlwaysIInv == Spec => []IInv
BY InitIInv, NextIInv, PTL DEF Spec

(* What Get returns was applied to the store at some time and is no empty   *)
(* value of Delete, whatever proposals time out, are applied late or race   *)
(* with the calls of other nodes.                                           *)
THEOREM GetReturnsStored == Spec => []GetWasStored
<1>1. IInv => GetWasStored
  <2> SUFFICES ASSUME IInv, NEW c \in Calls, call[c].pc = "got"
               PROVE  Pos(call[c].val) > 0 /\ call[c].val \notin empty
    BY DEF GetWasStored
  <2>1. call[c].val \in Applied \ empty
    BY DEF IInv, StoredInv
  <2>2. hist \in Seq(Nat)
    BY DEF IInv, TypeInv
  <2> QED
    BY <2>1, <2>2, PosNat
<1> QED
  BY AlwaysIInv, <1>1, PTL

(* Get does not return what is older than the node's own last Put, unless   *)
(* another call was about to write CertCache when that Put returned: the    *)
(* entry of a Get that read before is the only way back.                    *)
THEOREM GetSeesOwnPut == Spec => []GetNotOlderThanOwn
<1>1. IInv => GetNotOlderThanOwn
  BY DEF IInv, AgeInv, GetNotOlderThanOwn
<1> QED
  BY AlwaysIInv, <1>1, PTL
=============================================================================
