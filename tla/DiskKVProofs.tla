---------------------------- MODULE DiskKVProofs ----------------------------
(***************************************************************************)
(* Proofs about DiskKV: type correctness, and the safety invariants by way *)
(* of the inductive invariant IInv, and that it implements ReplicaState,   *)
(* for machines that suffer kills, power losses or both.  Apart from types *)
(* and the pointer file they are about behaviours in which this replica    *)
(* recovers from no snapshot whose values were mixed up while it was       *)
(* written (Unmixed): after such a recovery nothing can be said of its     *)
(* database.  Where iter.Value() outlives iter.Next() no snapshot is mixed *)
(* up, which is proved; where it does not, the run diskkv_alias shows one. *)
(***************************************************************************)
EXTENDS DiskKV, TLAPS

-----------------------------------------------------------------------------
(* The inductive invariant.                                                 *)

(* What the prefixes of the log mean, and the three facts about applied     *)
(* indices that make a restart at queryAppliedIndex(store) sound.           *)
HistInv ==
    /\ hist[0] = EmptyStore
    /\ \A n \in 1..Len(log) : hist[n] = Meaning(hist[n - 1], log[n], n)
    /\ \A n \in 0..Len(log) : queryAppliedIndex(hist[n]) <= n
    /\ \A n \in 0..Len(log) : hist[queryAppliedIndex(hist[n])] = hist[n]
    /\ \A m, n \in 0..Len(log) :
          m <= n => queryAppliedIndex(hist[m]) <= queryAppliedIndex(hist[n])

(* A captured snapshot is a prefix's store, and a written one was written   *)
(* from it.                                                                 *)
SnapInv ==
    /\ ctx # NoStream => ctx.idx \in 0..Len(log) /\ ctx.store = hist[ctx.idx]
    /\ saved # NoStream =>
          saved.idx \in 0..Len(log) /\ saved.store \in Written(hist[saved.idx])

(* The steps of Open on a new run, of an open replica, of a recovery        *)
(* before and after its new database is the current one.                    *)
Saving == {"save", "write", "fsync", "savedir", "rename"}
Serving == {"idle", "update", "applied"}
Opening == db = NoDir /\ pc \in Saving \cup {"dirsync", "create"}
Recovering == db # NoDir /\ pc \in Saving \cup {"load", "dirsync", "swap"}
Replaced == pc \in {"remove", "parentsync"}

(* The pointer files and the directory variables at each step, whatever the *)
(* faults: current is always whole, and "updating" is whole before it is    *)
(* renamed over it.                                                         *)
Shape ==
    /\ fs.cur.synced /\ durable.cur.synced
    /\ fs.cur.name # Torn /\ durable.cur.name # Torn
    /\ pc \in {"fsync", "savedir", "rename"} => fs.upd.name = new
    /\ pc \in {"savedir", "rename"} => fs.upd.synced
    /\ pc \in Saving \cup {"dirsync", "create", "load", "swap", "remove", "parentsync"} =>
          new # NoDir
    /\ pc \in Serving \cup {"load", "swap", "remove", "parentsync"} => db # NoDir
    /\ pc \in Serving \cup {"cleanup", "dirsync", "create", "swap", "remove", "parentsync"} =>
          fs.cur.name # NoDir
    /\ pc # "panic_corrupt"

(* The directories at each step.                                            *)
DirInv ==
    /\ fs.cur.name = NoDir => durable.cur.name = NoDir
    /\ durable.cur.name = NoDir => fs.dirs = {} /\ durable.dirs = {}
    /\ mode = "power" /\ pc # "dirsync" => fs.cur = durable.cur
    /\ pc # "panic_backward"
    /\ pc = "panic_missing" => fs.cur.name \notin fs.dirs
    /\ Opening =>
          /\ fs.dirs = {} /\ durable.dirs = {}
          /\ fs.cur.name = IF pc \in Saving THEN NoDir ELSE new
          /\ pc = "create" => durable.cur = fs.cur
    /\ pc \in Serving => fs.dirs = {db} /\ fs.cur.name = db
    /\ Recovering =>
          /\ new \notin {NoDir, db} /\ old = db
          /\ fs.dirs = {db, new}
          /\ fs.cur.name = IF pc \in {"dirsync", "swap"} THEN new ELSE db
          /\ mode = "power" /\ pc = "dirsync" => durable.cur.name = db
    /\ Replaced =>
          /\ db = new /\ fs.cur.name = new
          /\ old \notin {NoDir, new}
          /\ fs.dirs = IF pc = "remove" THEN {old, new} ELSE {new}

(* What is in memory at each step.                                          *)
MemInv ==
    /\ pc \in {"down", "cleanup", "create"} => db = NoDir
    /\ Opening => acked = 0
    /\ pc \in Serving \/ Recovering =>
          /\ raftApplied \in 0..Len(log)
          /\ lastApplied = queryAppliedIndex(hist[raftApplied])
          /\ mode # "both" => acked <= lastApplied
          /\ pc # "applied" => store[db] = hist[raftApplied]
    /\ pc = "update" =>
          /\ ent \in raftApplied..Len(log)
          /\ \A k \in Keys \ {appliedIndexKey} : wb[k] = hist[ent][k]
          /\ ent > raftApplied => log[ent].kind = "sm"
    /\ pc = "applied" =>
          /\ ent \in raftApplied + 1..Len(log)
          /\ store[db] = hist[ent]
          /\ queryAppliedIndex(hist[ent]) = ent
    /\ Recovering =>
          /\ ent \in raftApplied + 1..Len(log)
          /\ wb = hist[ent]
          /\ pc # "load" => store[new] = hist[ent]
    /\ Replaced =>
          /\ ent \in 0..Len(log)
          /\ store[db] = hist[ent]
          /\ lastApplied = queryAppliedIndex(hist[ent])
          /\ mode # "both" => acked <= lastApplied

(* A database a restart may open: a prefix's store, not behind acked unless *)
(* the machine suffers both kinds of faults.                                *)
Good(d) ==
    /\ \E n \in 0..Len(log) : store[d] = hist[n]
    /\ mode # "both" => acked <= queryAppliedIndex(store[d])

(* Whatever pointer survives: the database it names is good if it is there, *)
(* and when processes only die it is there unless nothing was reported.     *)
DiskInv ==
    /\ fs.cur.name \in fs.dirs => Good(fs.cur.name)
    /\ mode # "kill" =>
          \A d \in {fs.cur.name, durable.cur.name} \cap (fs.dirs \cup durable.dirs) : Good(d)
    /\ durable.cur.name = NoDir => acked = 0
    /\ mode = "kill" => fs.cur.name \in fs.dirs \/ acked = 0

IInv == TypeOK /\ Shape /\ HistInv /\ SnapInv /\ DirInv /\ MemInv /\ DiskInv

(* RecoverFromSnapshot begins with a stream that is not the store of the    *)
(* prefix it is filed under.                                                *)
RecoversMixed ==
    \E s \in Offered, d \in DirNames : RecoverBegin(s, d) /\ s.store # hist[s.idx]

Unmixed == [][~RecoversMixed]_vars

(* The bytes of iter.Value() stay valid while a snapshot is written.        *)
StableValues == IterValueStable = TRUE

-----------------------------------------------------------------------------
(* Lemmas on the operators.                                                 *)

USE DirNamesAssumption, NilAssumption, ValsAssumption, KeysAssumption

(* The empty store is a store.                                              *)
LEMMA EmptyStoreType == EmptyStore \in Store
BY DEF EmptyStore, Store, Value

(* Applying a command (the loop body of Update) yields a store.             *)
LEMMA ApplyCmdType ==
    ASSUME NEW s \in Store, NEW c \in Cmd
    PROVE  ApplyCmd(s, c) \in Store
<1>1. \A k \in DOMAIN c.set : c.set[k] \in Vals \cup {Nil}
    BY DEF Cmd, Writes
<1> QED
    BY <1>1 DEF ApplyCmd, Store, Value

(* Adding the applied index to a batch yields a store with that index.      *)
LEMMA SealBatchType ==
    ASSUME NEW s \in Store, NEW n \in Nat
    PROVE  SealBatch(s, n) \in Store /\ queryAppliedIndex(SealBatch(s, n)) = n
BY DEF SealBatch, Store, Value, queryAppliedIndex

(* The applied index of a store is a natural number.                        *)
LEMMA AppliedIndexType ==
    ASSUME NEW s \in Store
    PROVE  queryAppliedIndex(s) \in Nat
BY DEF Store, Value, queryAppliedIndex

(* An entry maps stores to stores.                                          *)
LEMMA MeaningType ==
    ASSUME NEW s \in Store, NEW c \in Cmd, NEW n \in Nat
    PROVE  Meaning(s, c, n) \in Store
BY ApplyCmdType, SealBatchType DEF Meaning

(* saveToWriter writes stores.                                              *)
LEMMA WrittenType ==
    ASSUME NEW s \in Store
    PROVE  Written(s) \subseteq Store
BY DEF Written, Store, Value

(* A power loss keeps a pointer file that was synced.                       *)
LEMMA RemainsType ==
    ASSUME NEW f \in PtrFile, NEW g \in Remains(f)
    PROVE  /\ g \in PtrFile /\ g.synced
           /\ f.synced => g = f
<1>1. PICK n \in {f.name, Torn} : g = [name |-> n, synced |-> TRUE] /\ (f.synced => n = f.name)
    BY DEF Remains
<1>2. f = [name |-> f.name, synced |-> f.synced] /\ f.synced \in BOOLEAN
    BY DEF PtrFile
<1> QED
    BY <1>1, <1>2 DEF PtrFile

(* What PowerLoss leaves: one of the two versions of current, and the       *)
(* directories both versions agree on.                                      *)
LEMMA PowerLossLeaves ==
    ASSUME TypeOK, fs.cur.synced, durable.cur.synced, PowerLoss
    PROVE  /\ fs' \in NodeDir
           /\ durable' = fs'
           /\ fs'.cur = fs.cur \/ fs'.cur = durable.cur
           /\ fs.dirs \cap durable.dirs \subseteq fs'.dirs
           /\ fs'.dirs \subseteq fs.dirs \cup durable.dirs
<1>1. /\ fs.cur \in PtrFile /\ fs.upd \in PtrFile /\ fs.dirs \subseteq DirNames
      /\ durable.cur \in PtrFile /\ durable.upd \in PtrFile /\ durable.dirs \subseteq DirNames
    BY DEF TypeOK, NodeDir
<1>2. PICK c \in Remains(fs.cur) \cup Remains(durable.cur),
           u \in Remains(fs.upd) \cup Remains(durable.upd),
           kept \in SUBSET ((fs.dirs \cup durable.dirs) \ (fs.dirs \cap durable.dirs)) :
             fs' = [cur |-> c, upd |-> u, dirs |-> (fs.dirs \cap durable.dirs) \cup kept]
    BY DEF PowerLoss
<1>3. c \in PtrFile /\ (c = fs.cur \/ c = durable.cur)
    BY <1>1, RemainsType
<1>4. u \in PtrFile
    BY <1>1, RemainsType
<1>5. fs'.cur = c /\ fs'.dirs = (fs.dirs \cap durable.dirs) \cup kept
    BY <1>2
<1>6. fs' \in NodeDir
    BY <1>1, <1>2, <1>3, <1>4 DEF NodeDir
<1> QED
    BY <1>3, <1>5, <1>6 DEF PowerLoss

(* Creating a database adds its directory and nothing else; a new one is    *)
(* empty.                                                                   *)
LEMMA CreateDBType ==
    ASSUME TypeOK, NEW d \in DirNames, createDB(d)
    PROVE  /\ fs' \in NodeDir /\ fs'.cur = fs.cur /\ fs'.upd = fs.upd
           /\ fs'.dirs = fs.dirs \cup {d}
           /\ store' \in [DirNames -> Store]
           /\ d \notin fs.dirs => store' = [store EXCEPT ![d] = EmptyStore]
BY EmptyStoreType DEF TypeOK, createDB, NodeDir

(* Committing an entry extends the history by what the entry means and      *)
(* leaves the meaning of the shorter prefixes alone.                        *)
LEMMA CommitType ==
    ASSUME TypeOK, NEW c \in Cmds, Commit(c)
    PROVE  /\ log' \in Seq(Cmd)
           /\ Len(log') = Len(log) + 1
           /\ log'[Len(log) + 1] = c
           /\ \A n \in 1..Len(log) : log'[n] = log[n]
           /\ hist' \in [0..Len(log') -> Store]
           /\ \A n \in 0..Len(log) : hist'[n] = hist[n]
           /\ hist'[Len(log) + 1] = Meaning(hist[Len(log)], c, Len(log) + 1)
<1>1. c \in Cmd /\ Len(log) \in Nat
    BY CmdsAssumption DEF TypeOK
<1>2. /\ log' \in Seq(Cmd)
      /\ Len(log') = Len(log) + 1
      /\ log'[Len(log) + 1] = c
      /\ \A n \in 1..Len(log) : log'[n] = log[n]
    BY <1>1 DEF Commit, TypeOK
<1>3. Meaning(hist[Len(log)], c, Len(log) + 1) \in Store
    <2>1. hist[Len(log)] \in Store
        BY <1>1 DEF TypeOK
    <2> QED
        BY <1>1, <2>1, MeaningType
<1> QED
    BY <1>1, <1>2, <1>3 DEF Commit, TypeOK

-----------------------------------------------------------------------------
(* Type correctness.                                                        *)

(* Where the snapshots that Raft may offer come from.                       *)
LEMMA OfferedCases ==
    ASSUME NEW s \in Offered
    PROVE  \/ s = saved /\ saved # NoStream
           \/ \E n \in DOMAIN hist : \E t \in Written(hist[n]) : s = [idx |-> n, store |-> t]
<1>1. CASE s \in {saved} \ {NoStream}
    BY <1>1
<1>2. CASE s \in UNION {FiledUnder(n) : n \in DOMAIN hist}
    <2>1. PICK n \in DOMAIN hist : s \in FiledUnder(n)
        BY <1>2
    <2> QED
        BY <2>1 DEF FiledUnder
<1>3. s \in {saved} \ {NoStream} \/ s \in UNION {FiledUnder(n) : n \in DOMAIN hist}
    BY DEF Offered
<1> QED
    BY <1>1, <1>2, <1>3

(* They are streams.                                                        *)
LEMMA OfferedType == TypeOK => Offered \subseteq Stream
<1> SUFFICES ASSUME TypeOK, NEW s \in Offered PROVE s \in Stream
    OBVIOUS
<1>1. CASE s = saved /\ saved # NoStream
    BY <1>1 DEF TypeOK
<1>2. ASSUME NEW n \in DOMAIN hist, NEW t \in Written(hist[n]), s = [idx |-> n, store |-> t]
      PROVE  s \in Stream
    BY <1>2, WrittenType DEF TypeOK, Stream
<1> QED
    BY <1>1, <1>2, OfferedCases

(* They are filed under prefixes of the log.                                *)
LEMMA OfferedIndex ==
    ASSUME TypeOK, SnapInv, NEW s \in Offered
    PROVE  s.idx \in 0..Len(log)
BY OfferedCases DEF TypeOK, SnapInv

(* The initial state has the types and the shape.                           *)
LEMMA TypeInit == Init => TypeOK /\ Shape
BY EmptyStoreType, BoundsAssumption
   DEF Init, TypeOK, Shape, NoFile, NodeDir, PtrFile, PCs, Saving, Serving

(* Every step keeps the types and the shape.                                *)
LEMMA TypeStep == TypeOK /\ Shape /\ [Next]_vars => TypeOK' /\ Shape'
<1> SUFFICES ASSUME TypeOK, Shape, [Next]_vars PROVE TypeOK' /\ Shape'
    OBVIOUS
<1> USE EmptyStoreType DEF Saving, Serving
<1>1. ASSUME NEW c \in Cmds, Commit(c) PROVE TypeOK' /\ Shape'
    BY <1>1, CommitType DEF TypeOK, Shape, Commit, disk, mem, env
<1>2. CASE RaftEntry
    BY <1>2 DEF TypeOK, Shape, RaftEntry, raft, disk, env
<1>3. ASSUME NEW d \in DirNames, OpenNew(d) PROVE TypeOK' /\ Shape'
    BY <1>3 DEF TypeOK, Shape, OpenNew, PCs, raft, disk, env
<1>4. CASE OpenExisting
    BY ZenonT(60), <1>4 DEF TypeOK, Shape, OpenExisting, NodeDir, PtrFile, NoFile, PCs, raft, mem, env
<1>5. ASSUME NEW d \in DirNames, CleanupDir(d) PROVE TypeOK' /\ Shape'
    BY <1>5 DEF TypeOK, Shape, CleanupDir, NodeDir, PCs, raft, mem, env
<1>6. CASE OpenLoad
    <2>1. fs.cur.name \in fs.dirs => queryAppliedIndex(store[fs.cur.name]) \in Nat
        BY AppliedIndexType DEF TypeOK, Shape, NodeDir
    <2> QED
        BY <1>6, <2>1 DEF TypeOK, Shape, OpenLoad, NodeDir, PCs, raft, disk, env
<1>7. CASE OpenCreate
    <2>0. new \in DirNames /\ createDB(new)
        BY <1>7 DEF TypeOK, Shape, OpenCreate
    <2>1. fs' \in NodeDir /\ fs'.cur = fs.cur /\ store' \in [DirNames -> Store]
        BY <2>0, CreateDBType
    <2>2. queryAppliedIndex(store'[new]) \in Nat
        BY <2>0, <2>1, AppliedIndexType
    <2> QED
        BY <1>7, <2>0, <2>1, <2>2 DEF TypeOK, Shape, OpenCreate, PCs, raft, env
<1>8. CASE SaveCreate
    BY <1>8 DEF TypeOK, Shape, SaveCreate, MoveTo, NodeDir, PtrFile, PCs, raft, mem, env
<1>9. CASE SaveWrite
    BY <1>9 DEF TypeOK, Shape, SaveWrite, MoveTo, NodeDir, PtrFile, PCs, raft, mem, env
<1>10. CASE SaveSync
    BY ZenonT(60), <1>10 DEF TypeOK, Shape, SaveSync, MoveTo, NodeDir, PtrFile, PCs, raft, mem, env
<1>11. CASE SaveDirSync
    BY <1>11 DEF TypeOK, Shape, SaveDirSync, MoveTo, PCs, raft, mem, env
<1>12. CASE ReplaceRename
    BY <1>12 DEF TypeOK, Shape, ReplaceRename, MoveTo, NodeDir, PtrFile, NoFile, PCs, raft, mem, env
<1>13. CASE ReplaceDirSync
    BY <1>13 DEF TypeOK, Shape, ReplaceDirSync, MoveTo, PCs, raft, mem, env
<1>14. CASE UpdateBegin
    BY <1>14 DEF TypeOK, Shape, UpdateBegin, PCs, raft, disk, env
<1>15. CASE UpdateEntry
    <2>1. log[ent + 1] \in Cmd
        BY <1>15 DEF TypeOK, Shape, UpdateEntry
    <2>2. wb' \in Store
        BY <1>15, <2>1, ApplyCmdType DEF TypeOK, Shape, UpdateEntry
    <2> QED
        BY <1>15, <2>2 DEF TypeOK, Shape, UpdateEntry, raft, disk, env
<1>16. CASE UpdateApply
    <2>1. SealBatch(wb, ent) \in Store
        BY SealBatchType DEF TypeOK, Shape
    <2> QED
        BY <1>16, <2>1 DEF TypeOK, Shape, UpdateApply, PCs, raft, mem, env
<1>17. CASE UpdateReturn
    BY <1>17 DEF TypeOK, Shape, UpdateReturn, PCs, raft, disk, env
<1>18. CASE PrepareSnapshot
    BY <1>18 DEF TypeOK, Shape, PrepareSnapshot, Stream, raft, disk, env
<1>19. CASE SaveSnapshot
    <2>1. ctx \in Stream /\ ctx.store \in Store /\ ctx.idx \in Nat
        BY <1>19 DEF TypeOK, Shape, SaveSnapshot, Stream
    <2>2. saved' \in Stream
        BY <1>19, <2>1, WrittenType DEF SaveSnapshot, Stream
    <2> QED
        BY <1>19, <2>2 DEF TypeOK, Shape, SaveSnapshot, raft, disk, env
<1>20. ASSUME NEW s \in Offered, NEW d \in DirNames, RecoverBegin(s, d) PROVE TypeOK' /\ Shape'
    <2>1. s \in Stream
        BY OfferedType
    <2>2. fs' \in NodeDir /\ fs'.cur = fs.cur /\ store' \in [DirNames -> Store]
        BY <1>20, CreateDBType DEF RecoverBegin
    <2>3. pc = "idle" /\ fs.cur.name \in DirNames
        BY <1>20 DEF TypeOK, Shape, RecoverBegin, NodeDir, PtrFile
    <2>4. s.store \in Store /\ s.idx \in Nat
        BY <2>1 DEF Stream
    <2> QED
        BY <1>20, <2>2, <2>4, <2>3 DEF TypeOK, Shape, RecoverBegin, PCs, raft, env
<1>21. CASE RecoverApply
    BY <1>21 DEF TypeOK, Shape, RecoverApply, PCs, raft, mem, env
<1>22. CASE RecoverSwap
    <2>1. new \in DirNames /\ queryAppliedIndex(store[new]) \in Nat
        BY <1>22, AppliedIndexType DEF TypeOK, Shape, RecoverSwap
    <2> QED
        BY <1>22, <2>1 DEF TypeOK, Shape, RecoverSwap, PCs, raft, disk, env
<1>23. CASE RecoverRemove
    BY <1>23 DEF TypeOK, Shape, RecoverRemove, MoveTo, NodeDir, PCs, raft, mem, env
<1>24. CASE RecoverReturn
    BY <1>24 DEF TypeOK, Shape, RecoverReturn, PCs, raft, env
<1>25. CASE ReturnError
    BY <1>25 DEF TypeOK, Shape, ReturnError, PCs, raft, disk, mem, env
<1>26. CASE Close
    BY <1>26 DEF TypeOK, Shape, Close, Forget, PCs, raft, env
<1>27. CASE Kill
    BY <1>27 DEF TypeOK, Shape, Kill, Forget, PCs, raft, env
<1>28. CASE PowerLoss
    <2>1. /\ fs' \in NodeDir /\ durable' = fs'
          /\ fs'.cur = fs.cur \/ fs'.cur = durable.cur
        BY <1>28, PowerLossLeaves DEF Shape
    <2> QED
        BY <1>28, <2>1 DEF TypeOK, Shape, PowerLoss, Forget, PCs, raft, env
<1>29. CASE Done \/ UNCHANGED vars
    BY <1>29 DEF TypeOK, Shape, Done, vars, raft, disk, mem, env
<1> QED
    BY <1>1, <1>2, <1>3, <1>4, <1>5, <1>6, <1>7, <1>8, <1>9, <1>10, <1>11, <1>12, <1>13, <1>14, <1>15, <1>16, <1>17, <1>18, <1>19, <1>20, <1>21, <1>22, <1>23, <1>24, <1>25, <1>26, <1>27, <1>28, <1>29 DEF Next

(* Whatever faults the machine suffers, the state of the state machine is   *)
(* well formed.                                                             *)
THEOREM TypeCorrect == Spec => []TypeOK
<1>1. TypeOK /\ Shape /\ [Next]_vars => (TypeOK /\ Shape)'
    BY TypeStep
<1> QED
    BY TypeInit, <1>1, PTL DEF Spec

(* Whatever faults the machine suffers, Open never meets a current file     *)
(* that fails its checksum (getCurrentDBDirName).                           *)
THEOREM CurrentWhole == Spec => []CurrentNeverTorn
<1>1. TypeOK /\ Shape /\ [Next]_vars => (TypeOK /\ Shape)'
    BY TypeStep
<1>2. Shape => CurrentNeverTorn
    BY DEF Shape, CurrentNeverTorn
<1> QED
    BY TypeInit, <1>1, <1>2, PTL DEF Spec

-----------------------------------------------------------------------------
(* The inductive invariant.                                                 *)

(* IInv holds initially.                                                    *)
LEMMA InvInit == Init => IInv
<1> SUFFICES ASSUME Init PROVE IInv
    OBVIOUS
<1>1. TypeOK /\ Shape
    BY TypeInit
<1>2. queryAppliedIndex(EmptyStore) = 0 /\ Len(log) = 0 /\ hist[0] = EmptyStore
    BY DEF Init, queryAppliedIndex, EmptyStore
<1>3. HistInv
    BY <1>2 DEF HistInv
<1> QED
    BY <1>1, <1>2, <1>3 DEF IInv, Init, SnapInv, DirInv, MemInv, DiskInv,
       Good, NoFile, Opening, Recovering, Replaced, Saving, Serving

(* A step that leaves the log alone keeps HistInv.                          *)
LEMMA HistStep == HistInv /\ UNCHANGED <<log, hist>> => HistInv'
BY DEF HistInv

(* IInv is kept by passing over an entry of Raft's own.                     *)
LEMMA InvRaftEntry ==
    ASSUME IInv, TypeOK', Shape', RaftEntry
    PROVE  SnapInv' /\ DirInv' /\ MemInv' /\ DiskInv'
<1> USE DEF IInv, RaftEntry, Opening, Recovering, Replaced, Saving, Serving, raft, disk, mem, env
<1>0. hist[raftApplied + 1] = hist[raftApplied]
    BY DEF TypeOK, HistInv, MemInv, Meaning
<1>1. SnapInv'
    BY DEF SnapInv
<1>2. DirInv'
    BY DEF TypeOK, Shape, NodeDir, DirInv
<1>3. MemInv'
    BY <1>0 DEF TypeOK, HistInv, DirInv, MemInv
<1>4. DiskInv'
    BY DEF TypeOK, NodeDir, DirInv, MemInv, DiskInv, Good
<1> QED
    BY <1>1, <1>2, <1>3, <1>4

(* IInv is kept by the start of Open on a new run.                          *)
LEMMA InvOpenNew ==
    ASSUME IInv, TypeOK', Shape', NEW d \in DirNames, OpenNew(d)
    PROVE  SnapInv' /\ DirInv' /\ MemInv' /\ DiskInv'
<1> USE DEF IInv, OpenNew, getNewRandomDBDirName, Opening, Recovering, Replaced, Saving, Serving, raft, disk, mem, env
<1>0. db = NoDir /\ fs.dirs = {} /\ durable.dirs = {}
    BY DEF MemInv, DirInv
<1>1. SnapInv'
    BY DEF SnapInv
<1>2. DirInv'
    BY <1>0 DEF TypeOK, Shape, NodeDir, DirInv
<1>3. MemInv'
    BY DEF TypeOK, HistInv, DirInv, MemInv, DiskInv
<1>4. DiskInv'
    BY DEF TypeOK, NodeDir, DirInv, MemInv, DiskInv, Good
<1> QED
    BY <1>1, <1>2, <1>3, <1>4

(* IInv is kept by the start of Open on an existing directory.              *)
LEMMA InvOpenExisting ==
    ASSUME IInv, TypeOK', Shape', OpenExisting
    PROVE  SnapInv' /\ DirInv' /\ MemInv' /\ DiskInv'
<1> USE DEF IInv, OpenExisting, NoFile, Opening, Recovering, Replaced, Saving, Serving, raft, disk, mem, env
<1>1. SnapInv'
    BY DEF SnapInv
<1>2. DirInv'
    BY DEF TypeOK, Shape, NodeDir, DirInv
<1>3. MemInv'
    BY DEF TypeOK, HistInv, DirInv, MemInv
<1>4. DiskInv'
    BY DEF TypeOK, NodeDir, DirInv, MemInv, DiskInv, Good
<1> QED
    BY <1>1, <1>2, <1>3, <1>4

(* IInv is kept by removing a leftover directory.                           *)
LEMMA InvCleanupDir ==
    ASSUME IInv, TypeOK', Shape', NEW d \in DirNames, CleanupDir(d)
    PROVE  SnapInv' /\ DirInv' /\ MemInv' /\ DiskInv'
<1> USE DEF IInv, CleanupDir, Opening, Recovering, Replaced, Saving, Serving, raft, disk, mem, env
<1>1. SnapInv'
    BY DEF SnapInv
<1>2. DirInv'
    BY DEF TypeOK, Shape, NodeDir, DirInv
<1>3. MemInv'
    BY DEF TypeOK, HistInv, DirInv, MemInv
<1>4. DiskInv'
    BY DEF TypeOK, NodeDir, DirInv, MemInv, DiskInv, Good
<1> QED
    BY <1>1, <1>2, <1>3, <1>4

(* The applied index of a prefix is an index whose prefix has the same      *)
(* store (queryAppliedIndex at Open).                                       *)
LEMMA AppliedIndexOfPrefix ==
    ASSUME TypeOK, HistInv, NEW n \in 0..Len(log)
    PROVE  /\ queryAppliedIndex(hist[n]) \in 0..Len(log)
           /\ hist[queryAppliedIndex(hist[n])] = hist[n]
<1>1. Len(log) \in Nat /\ n \in Nat /\ n <= Len(log)
    BY DEF TypeOK
<1>2. hist[n] \in Store
    BY DEF TypeOK
<1>3. queryAppliedIndex(hist[n]) \in Nat
    BY <1>2, AppliedIndexType
<1>4. queryAppliedIndex(hist[n]) <= n /\ hist[queryAppliedIndex(hist[n])] = hist[n]
    BY DEF HistInv
<1> QED
    BY <1>1, <1>3, <1>4

(* IInv is kept by opening the current database.                            *)
LEMMA InvOpenLoad ==
    ASSUME IInv, TypeOK', Shape', OpenLoad
    PROVE  SnapInv' /\ DirInv' /\ MemInv' /\ DiskInv'
<1> USE DEF IInv, OpenLoad, Opening, Recovering, Replaced, Saving, Serving, raft, disk, mem, env
<1>1. SnapInv'
    BY DEF SnapInv
<1>2. DirInv'
    BY DEF TypeOK, Shape, NodeDir, DirInv
<1>3. MemInv'
    <2>1. CASE fs.cur.name \notin fs.dirs
        BY <2>1 DEF TypeOK, DirInv, MemInv
    <2>2. CASE fs.cur.name \in fs.dirs
        <3>1. PICK n \in 0..Len(log) : store[fs.cur.name] = hist[n]
            BY <2>2 DEF DiskInv, Good
        <3>2. /\ queryAppliedIndex(hist[n]) \in 0..Len(log)
              /\ hist[queryAppliedIndex(hist[n])] = hist[n]
            BY AppliedIndexOfPrefix
        <3>3. lastApplied' = queryAppliedIndex(hist[n]) /\ raftApplied' = queryAppliedIndex(hist[n])
            BY <2>2, <3>1
        <3>4. /\ raftApplied' \in 0..Len(log)
              /\ store[db'] = hist[raftApplied'] /\ (mode # "both" => acked <= lastApplied')
              /\ queryAppliedIndex(hist[raftApplied']) = lastApplied'
            BY <2>2, <3>1, <3>2, <3>3 DEF DiskInv, Good
        <3> QED
            BY <2>2, <3>4 DEF MemInv
    <2> QED
        BY <2>1, <2>2
<1>4. DiskInv'
    BY DEF TypeOK, NodeDir, DirInv, MemInv, DiskInv, Good
<1> QED
    BY <1>1, <1>2, <1>3, <1>4

(* IInv is kept by creating the first database.                             *)
LEMMA InvOpenCreate ==
    ASSUME IInv, TypeOK', Shape', OpenCreate
    PROVE  SnapInv' /\ DirInv' /\ MemInv' /\ DiskInv'
<1> USE DEF IInv, OpenCreate, Opening, Recovering, Replaced, Saving, Serving, raft, disk, mem, env
<1>0. /\ new \in DirNames /\ new \notin fs.dirs /\ fs'.cur = fs.cur /\ fs'.dirs = {new}
      /\ fs.cur.name = new /\ db' = new /\ store'[new] = EmptyStore /\ acked = 0
      /\ durable.cur = fs.cur
    BY CreateDBType DEF TypeOK, Shape, DirInv, MemInv
<1>1. SnapInv'
    BY DEF SnapInv
<1>2. DirInv'
    BY <1>0 DEF TypeOK, Shape, NodeDir, DirInv
<1>3. MemInv'
    <2>1. hist[0] = EmptyStore /\ queryAppliedIndex(EmptyStore) = 0 /\ 0 \in 0..Len(log)
        BY DEF HistInv, TypeOK, queryAppliedIndex, EmptyStore
    <2>2. raftApplied' = 0 /\ lastApplied' = 0 /\ pc' = "idle" /\ db' # NoDir
        BY <1>0, <2>1 DEF TypeOK, Shape
    <2> QED
        BY <1>0, <2>1, <2>2 DEF TypeOK, MemInv
<1>4. DiskInv'
    <2>1. fs'.cur.name = new /\ durable' = durable /\ durable.dirs = {}
        BY <1>0 DEF DirInv, MemInv
    <2>2. hist'[0] = store'[new] /\ 0 \in 0..Len(log')
        BY <1>0 DEF HistInv, TypeOK
    <2>3. queryAppliedIndex(store'[new]) \in Nat /\ acked' = 0
        BY <1>0, EmptyStoreType, AppliedIndexType
    <2>4. Good(fs.cur.name)'
        BY <2>1, <2>2, <2>3 DEF Good
    <2>5. mode' = "power" => durable'.cur = fs'.cur
        BY <1>0 DEF DirInv
    <2> QED
        BY <1>0, <2>1, <2>3, <2>4, <2>5 DEF DiskInv
<1> QED
    BY <1>1, <1>2, <1>3, <1>4

(* IInv is kept by creating the updating file.                              *)
LEMMA InvSaveCreate ==
    ASSUME IInv, TypeOK', Shape', SaveCreate
    PROVE  SnapInv' /\ DirInv' /\ MemInv' /\ DiskInv'
<1> USE DEF IInv, SaveCreate, MoveTo, Opening, Recovering, Replaced, Saving, Serving, raft, disk, mem, env
<1>1. SnapInv'
    BY DEF SnapInv
<1>2. DirInv'
    BY DEF TypeOK, Shape, NodeDir, DirInv
<1>3. MemInv'
    BY DEF TypeOK, HistInv, DirInv, MemInv
<1>4. DiskInv'
    BY DEF TypeOK, NodeDir, DirInv, MemInv, DiskInv, Good
<1> QED
    BY <1>1, <1>2, <1>3, <1>4

(* IInv is kept by writing the updating file.                               *)
LEMMA InvSaveWrite ==
    ASSUME IInv, TypeOK', Shape', SaveWrite
    PROVE  SnapInv' /\ DirInv' /\ MemInv' /\ DiskInv'
<1> USE DEF IInv, SaveWrite, MoveTo, Opening, Recovering, Replaced, Saving, Serving, raft, disk, mem, env
<1>1. SnapInv'
    BY DEF SnapInv
<1>2. DirInv'
    BY DEF TypeOK, Shape, NodeDir, DirInv
<1>3. MemInv'
    BY DEF TypeOK, HistInv, DirInv, MemInv
<1>4. DiskInv'
    BY DEF TypeOK, NodeDir, DirInv, MemInv, DiskInv, Good
<1> QED
    BY <1>1, <1>2, <1>3, <1>4

(* IInv is kept by syncing the updating file.                               *)
LEMMA InvSaveSync ==
    ASSUME IInv, TypeOK', Shape', SaveSync
    PROVE  SnapInv' /\ DirInv' /\ MemInv' /\ DiskInv'
<1> USE DEF IInv, SaveSync, MoveTo, Opening, Recovering, Replaced, Saving, Serving, raft, disk, mem, env
<1>1. SnapInv'
    BY DEF SnapInv
<1>2. DirInv'
    BY DEF TypeOK, Shape, NodeDir, DirInv
<1>3. MemInv'
    BY DEF TypeOK, HistInv, DirInv, MemInv
<1>4. DiskInv'
    BY DEF TypeOK, NodeDir, DirInv, MemInv, DiskInv, Good
<1> QED
    BY <1>1, <1>2, <1>3, <1>4

(* IInv is kept by syncing the directory after it.                          *)
LEMMA InvSaveDirSync ==
    ASSUME IInv, TypeOK', Shape', SaveDirSync
    PROVE  SnapInv' /\ DirInv' /\ MemInv' /\ DiskInv'
<1> USE DEF IInv, SaveDirSync, MoveTo, Opening, Recovering, Replaced, Saving, Serving, raft, disk, mem, env
<1>1. SnapInv'
    BY DEF SnapInv
<1>2. DirInv'
    BY DEF TypeOK, Shape, NodeDir, DirInv
<1>3. MemInv'
    BY DEF TypeOK, HistInv, DirInv, MemInv
<1>4. DiskInv'
    BY DEF TypeOK, NodeDir, DirInv, MemInv, DiskInv, Good
<1> QED
    BY <1>1, <1>2, <1>3, <1>4

(* IInv is kept by renaming it to current.                                  *)
LEMMA InvReplaceRename ==
    ASSUME IInv, TypeOK', Shape', ReplaceRename
    PROVE  SnapInv' /\ DirInv' /\ MemInv' /\ DiskInv'
<1> USE DEF IInv, ReplaceRename, MoveTo, NoFile, Opening, Recovering, Replaced, Saving, Serving, raft, disk, mem, env
<1>0. /\ fs'.cur.name = new /\ fs'.dirs = fs.dirs /\ durable' = durable
      /\ mode = "power" => durable.cur = fs.cur
    BY DEF TypeOK, Shape, NodeDir, DirInv
<1>1. SnapInv'
    BY DEF SnapInv
<1>2. DirInv'
    BY DEF TypeOK, Shape, NodeDir, DirInv
<1>3. MemInv'
    BY DEF TypeOK, HistInv, DirInv, MemInv
<1>4. DiskInv'
    <2>1. CASE db = NoDir
        BY <1>0, <2>1 DEF TypeOK, Shape, DirInv, MemInv, DiskInv, Good
    <2>2. CASE db # NoDir
        <3>1. store[new] = hist[ent] /\ ent \in 0..Len(log) /\ (mode # "both" => acked <= lastApplied)
            BY <2>2 DEF MemInv, TypeOK
        <3>2. queryAppliedIndex(hist[ent]) >= lastApplied /\ queryAppliedIndex(hist[ent]) \in Nat
            BY <2>2, <3>1, AppliedIndexType DEF MemInv, HistInv, TypeOK
        <3>3. Good(new)'
            BY <3>1, <3>2 DEF Good, TypeOK
        <3>4. fs.cur.name = db /\ fs.dirs = {db, new}
            BY <2>2 DEF DirInv
        <3>5. \A x \in DirNames : Good(x) => Good(x)'
            BY DEF Good
        <3> QED
            BY <1>0, <3>3, <3>4, <3>5 DEF DiskInv, TypeOK, NodeDir
    <2> QED
        BY <2>1, <2>2
<1> QED
    BY <1>1, <1>2, <1>3, <1>4

(* IInv is kept by syncing the directory after the rename.                  *)
LEMMA InvReplaceDirSync ==
    ASSUME IInv, TypeOK', Shape', ReplaceDirSync
    PROVE  SnapInv' /\ DirInv' /\ MemInv' /\ DiskInv'
<1> USE DEF IInv, ReplaceDirSync, MoveTo, Opening, Recovering, Replaced, Saving, Serving, raft, disk, mem, env
<1>1. SnapInv'
    BY DEF SnapInv
<1>2. DirInv'
    BY DEF TypeOK, Shape, NodeDir, DirInv
<1>3. MemInv'
    BY DEF TypeOK, HistInv, DirInv, MemInv
<1>4. DiskInv'
    BY DEF TypeOK, NodeDir, DirInv, MemInv, DiskInv, Good
<1> QED
    BY <1>1, <1>2, <1>3, <1>4

(* IInv is kept by the start of Update.                                     *)
LEMMA InvUpdateBegin ==
    ASSUME IInv, TypeOK', Shape', UpdateBegin
    PROVE  SnapInv' /\ DirInv' /\ MemInv' /\ DiskInv'
<1> USE DEF IInv, UpdateBegin, Opening, Recovering, Replaced, Saving, Serving, raft, disk, mem, env
<1>1. SnapInv'
    BY DEF SnapInv
<1>2. DirInv'
    BY DEF TypeOK, Shape, NodeDir, DirInv
<1>3. MemInv'
    BY DEF TypeOK, HistInv, DirInv, MemInv
<1>4. DiskInv'
    BY DEF TypeOK, NodeDir, DirInv, MemInv, DiskInv, Good
<1> QED
    BY <1>1, <1>2, <1>3, <1>4

(* IInv is kept by adding an entry to the batch.                            *)
LEMMA InvUpdateEntry ==
    ASSUME IInv, TypeOK', Shape', UpdateEntry
    PROVE  SnapInv' /\ DirInv' /\ MemInv' /\ DiskInv'
<1> USE DEF IInv, UpdateEntry, Opening, Recovering, Replaced, Saving, Serving, raft, disk, mem, env
<1>0. /\ ent \in raftApplied..Len(log) /\ ent + 1 \in 1..Len(log)
      /\ \A k \in Keys \ {appliedIndexKey} : wb[k] = hist[ent][k]
      /\ hist[ent] \in Store /\ log[ent + 1] \in Cmd
    BY DEF TypeOK, MemInv
<1>5. hist[ent + 1] = SealBatch(ApplyCmd(hist[ent], log[ent + 1]), ent + 1)
    BY <1>0 DEF TypeOK, HistInv, Meaning
<1>6. \A k \in Keys \ {appliedIndexKey} : hist[ent + 1][k] = wb'[k]
    BY <1>0, <1>5, ApplyCmdType DEF SealBatch, ApplyCmd, Store
<1>1. SnapInv'
    BY DEF SnapInv
<1>2. DirInv'
    BY DEF TypeOK, Shape, NodeDir, DirInv
<1>3. MemInv'
    BY <1>0, <1>6 DEF TypeOK, DirInv, MemInv
<1>4. DiskInv'
    BY DEF TypeOK, NodeDir, DirInv, MemInv, DiskInv, Good
<1> QED
    BY <1>1, <1>2, <1>3, <1>4

(* IInv is kept by applying the batch.                                      *)
LEMMA InvUpdateApply ==
    ASSUME IInv, TypeOK', Shape', UpdateApply
    PROVE  SnapInv' /\ DirInv' /\ MemInv' /\ DiskInv'
<1> USE DEF IInv, UpdateApply, Opening, Recovering, Replaced, Saving, Serving, raft, disk, mem, env
<1>0. /\ ent \in 1..Len(log) /\ ent \in raftApplied + 1..Len(log) /\ log[ent].kind = "sm"
      /\ \A k \in Keys \ {appliedIndexKey} : wb[k] = hist[ent][k]
      /\ hist[ent - 1] \in Store /\ log[ent] \in Cmd /\ hist[ent] \in Store
    BY DEF TypeOK, MemInv
<1>5. hist[ent] = SealBatch(ApplyCmd(hist[ent - 1], log[ent]), ent)
    BY <1>0 DEF HistInv, Meaning
<1>6. queryAppliedIndex(hist[ent]) = ent /\ hist[ent][appliedIndexKey] = ent
    BY <1>0, <1>5, ApplyCmdType, SealBatchType DEF SealBatch, Store
<1>7. SealBatch(wb, ent) = hist[ent]
    BY <1>0, <1>6 DEF TypeOK, SealBatch, Store
<1>8. db \in DirNames /\ store'[db] = hist[ent]
    BY <1>7 DEF TypeOK, Shape
<1>1. SnapInv'
    BY DEF SnapInv
<1>2. DirInv'
    BY DEF TypeOK, Shape, NodeDir, DirInv
<1>3. MemInv'
    BY <1>0, <1>6, <1>8 DEF TypeOK, DirInv, MemInv
<1>4. DiskInv'
    <2>1. fs'.cur.name = db /\ fs'.dirs = {db} /\ (mode = "power" => durable.cur = fs.cur)
        BY DEF DirInv
    <2>2. mode # "both" => acked <= ent
        BY <1>0 DEF MemInv, HistInv, TypeOK
    <2>3. Good(db)'
        BY <1>0, <1>6, <1>8, <2>2 DEF Good
    <2>4. \A x \in DirNames : Good(x) => Good(x)'
        BY <1>8, <2>3 DEF Good, TypeOK
    <2> QED
        BY <1>8, <2>1, <2>3, <2>4 DEF DiskInv, TypeOK, NodeDir
<1> QED
    BY <1>1, <1>2, <1>3, <1>4

(* IInv is kept by the end of Update.                                       *)
LEMMA InvUpdateReturn ==
    ASSUME IInv, TypeOK', Shape', UpdateReturn
    PROVE  SnapInv' /\ DirInv' /\ MemInv' /\ DiskInv'
<1> USE DEF IInv, UpdateReturn, Opening, Recovering, Replaced, Saving, Serving, raft, disk, mem, env
<1>0. /\ lastApplied < ent /\ ent \in 0..Len(log) /\ store[db] = hist[ent]
      /\ queryAppliedIndex(hist[ent]) = ent
    BY DEF TypeOK, HistInv, MemInv
<1>1. SnapInv'
    BY DEF SnapInv
<1>2. DirInv'
    BY <1>0 DEF TypeOK, Shape, NodeDir, DirInv
<1>3. MemInv'
    <2>1. raftApplied' = ent /\ lastApplied' = ent /\ acked' = ent /\ pc' = "idle" /\ db # NoDir
        BY <1>0 DEF TypeOK, Shape
    <2> QED
        BY <1>0, <2>1 DEF TypeOK, MemInv
<1>4. DiskInv'
    <2>1. acked' = ent /\ fs.cur.name = db /\ fs.dirs = {db}
        BY <1>0 DEF TypeOK, DirInv
    <2>2. Good(db)'
        BY <1>0, <2>1 DEF Good
    <2>3. mode = "power" => fs.cur = durable.cur
        BY DEF DirInv
    <2>4. mode = "both" => \A x : Good(x) => Good(x)'
        BY DEF Good
    <2> QED
        BY <2>1, <2>2, <2>3, <2>4, FaultModesAssumption DEF TypeOK, DirInv, DiskInv
<1> QED
    BY <1>1, <1>2, <1>3, <1>4

(* IInv is kept by PrepareSnapshot.                                         *)
LEMMA InvPrepareSnapshot ==
    ASSUME IInv, TypeOK', Shape', PrepareSnapshot
    PROVE  SnapInv' /\ DirInv' /\ MemInv' /\ DiskInv'
<1> USE DEF IInv, PrepareSnapshot, Opening, Recovering, Replaced, Saving, Serving, raft, disk, mem, env
<1>1. SnapInv'
    BY DEF SnapInv, MemInv
<1>2. DirInv'
    BY DEF TypeOK, Shape, NodeDir, DirInv
<1>3. MemInv'
    BY DEF TypeOK, HistInv, DirInv, MemInv
<1>4. DiskInv'
    BY DEF TypeOK, NodeDir, DirInv, MemInv, DiskInv, Good
<1> QED
    BY <1>1, <1>2, <1>3, <1>4

(* IInv is kept by SaveSnapshot.                                            *)
LEMMA InvSaveSnapshot ==
    ASSUME IInv, TypeOK', Shape', SaveSnapshot
    PROVE  SnapInv' /\ DirInv' /\ MemInv' /\ DiskInv'
<1> USE DEF IInv, SaveSnapshot, Opening, Recovering, Replaced, Saving, Serving, raft, disk, mem, env
<1>1. SnapInv'
    BY DEF SnapInv
<1>2. DirInv'
    BY DEF TypeOK, Shape, NodeDir, DirInv
<1>3. MemInv'
    BY DEF TypeOK, HistInv, DirInv, MemInv
<1>4. DiskInv'
    BY DEF TypeOK, NodeDir, DirInv, MemInv, DiskInv, Good
<1> QED
    BY <1>1, <1>2, <1>3, <1>4

(* IInv is kept by the start of RecoverFromSnapshot.                        *)
LEMMA InvRecoverBegin ==
    ASSUME IInv, TypeOK', Shape', NEW s \in Offered, NEW d \in DirNames, RecoverBegin(s, d),
           s.store = hist[s.idx]
    PROVE  SnapInv' /\ DirInv' /\ MemInv' /\ DiskInv'
<1> USE DEF IInv, RecoverBegin, createDB, getNewRandomDBDirName, Opening, Recovering, Replaced, Saving, Serving, raft, disk, mem, env
<1>0. s.idx \in 0..Len(log) /\ s.store = hist[s.idx]
    BY OfferedIndex
<1>5. d \notin fs.dirs /\ store' = [store EXCEPT ![d] = EmptyStore] /\ db \in DirNames /\ d # db
    BY CreateDBType DEF TypeOK, Shape, DirInv
<1>1. SnapInv'
    BY DEF SnapInv
<1>2. DirInv'
    BY DEF TypeOK, Shape, NodeDir, DirInv
<1>3. MemInv'
    BY <1>0, <1>5 DEF TypeOK, DirInv, MemInv
<1>4. DiskInv'
    BY DEF TypeOK, NodeDir, DirInv, MemInv, DiskInv, Good
<1> QED
    BY <1>1, <1>2, <1>3, <1>4

(* IInv is kept by applying the snapshot's batch.                           *)
LEMMA InvRecoverApply ==
    ASSUME IInv, TypeOK', Shape', RecoverApply
    PROVE  SnapInv' /\ DirInv' /\ MemInv' /\ DiskInv'
<1> USE DEF IInv, RecoverApply, Opening, Recovering, Replaced, Saving, Serving, raft, disk, mem, env
<1>0. new \in DirNames /\ db \in DirNames /\ new # db
    BY DEF TypeOK, Shape, DirInv
<1>1. SnapInv'
    BY DEF SnapInv
<1>2. DirInv'
    BY DEF TypeOK, Shape, NodeDir, DirInv
<1>3. MemInv'
    BY <1>0 DEF TypeOK, DirInv, MemInv
<1>4. DiskInv'
    <2>1. store'[new] = hist[ent] /\ ent \in 0..Len(log)
        BY <1>0 DEF TypeOK, MemInv
    <2>2. mode # "both" => acked <= queryAppliedIndex(hist[ent])
        <3>1. raftApplied \in 0..Len(log) /\ raftApplied <= ent
            BY DEF MemInv, TypeOK, Shape
        <3>2. mode # "both" => acked <= queryAppliedIndex(hist[raftApplied])
            BY DEF MemInv, Shape
        <3>3. queryAppliedIndex(hist[raftApplied]) <= queryAppliedIndex(hist[ent])
            BY <2>1, <3>1 DEF HistInv
        <3>4. queryAppliedIndex(hist[raftApplied]) \in Nat /\ queryAppliedIndex(hist[ent]) \in Nat
            BY <2>1, <3>1, AppliedIndexType DEF TypeOK
        <3> QED
            BY <3>2, <3>3, <3>4 DEF TypeOK
    <2>3. \A x \in DirNames : Good(x) => Good(x)'
        BY <1>0, <2>1, <2>2 DEF Good, TypeOK
    <2> QED
        BY <2>3 DEF DiskInv, TypeOK, NodeDir
<1> QED
    BY <1>1, <1>2, <1>3, <1>4

(* IInv is kept by swapping the databases.                                  *)
LEMMA InvRecoverSwap ==
    ASSUME IInv, TypeOK', Shape', RecoverSwap
    PROVE  SnapInv' /\ DirInv' /\ MemInv' /\ DiskInv'
<1> USE DEF IInv, RecoverSwap, Opening, Recovering, Replaced, Saving, Serving, raft, disk, mem, env
<1>0. /\ new \in DirNames /\ db # NoDir /\ store[new] = hist[ent] /\ ent \in 0..Len(log)
      /\ lastApplied = queryAppliedIndex(hist[raftApplied])
      /\ mode # "both" => acked <= lastApplied
      /\ raftApplied \in 0..Len(log) /\ raftApplied <= ent
    BY DEF TypeOK, Shape, MemInv
<1>5. queryAppliedIndex(hist[ent]) >= lastApplied /\ queryAppliedIndex(hist[ent]) \in Nat
    BY <1>0, AppliedIndexType DEF HistInv, TypeOK
<1>6. /\ pc' = "remove" /\ db' = new
      /\ lastApplied' = queryAppliedIndex(hist[ent])
    BY <1>0, <1>5 DEF TypeOK
<1>1. SnapInv'
    BY DEF SnapInv
<1>2. DirInv'
    BY <1>0, <1>6 DEF TypeOK, Shape, NodeDir, DirInv
<1>3. MemInv'
    BY <1>0, <1>5, <1>6 DEF TypeOK, DirInv, MemInv
<1>4. DiskInv'
    BY DEF TypeOK, NodeDir, DirInv, MemInv, DiskInv, Good
<1> QED
    BY <1>1, <1>2, <1>3, <1>4

(* IInv is kept by removing the old database.                               *)
LEMMA InvRecoverRemove ==
    ASSUME IInv, TypeOK', Shape', RecoverRemove
    PROVE  SnapInv' /\ DirInv' /\ MemInv' /\ DiskInv'
<1> USE DEF IInv, RecoverRemove, MoveTo, Opening, Recovering, Replaced, Saving, Serving, raft, disk, mem, env
<1>1. SnapInv'
    BY DEF SnapInv
<1>2. DirInv'
    BY DEF TypeOK, Shape, NodeDir, DirInv
<1>3. MemInv'
    BY DEF TypeOK, HistInv, DirInv, MemInv
<1>4. DiskInv'
    BY DEF TypeOK, NodeDir, DirInv, MemInv, DiskInv, Good
<1> QED
    BY <1>1, <1>2, <1>3, <1>4

(* IInv is kept by the end of RecoverFromSnapshot.                          *)
LEMMA InvRecoverReturn ==
    ASSUME IInv, TypeOK', Shape', RecoverReturn
    PROVE  SnapInv' /\ DirInv' /\ MemInv' /\ DiskInv'
<1> USE DEF IInv, RecoverReturn, Opening, Recovering, Replaced, Saving, Serving, raft, disk, mem, env
<1>1. SnapInv'
    BY DEF SnapInv
<1>2. DirInv'
    BY DEF TypeOK, Shape, NodeDir, DirInv
<1>3. MemInv'
    BY DEF TypeOK, HistInv, DirInv, MemInv
<1>4. DiskInv'
    BY DEF TypeOK, NodeDir, DirInv, MemInv, DiskInv, Good
<1> QED
    BY <1>1, <1>2, <1>3, <1>4

(* IInv is kept by returning an error.                                      *)
LEMMA InvReturnError ==
    ASSUME IInv, TypeOK', Shape', ReturnError
    PROVE  SnapInv' /\ DirInv' /\ MemInv' /\ DiskInv'
<1> USE DEF IInv, ReturnError, Opening, Recovering, Replaced, Saving, Serving, raft, disk, mem, env
<1>1. SnapInv'
    BY DEF SnapInv
<1>2. DirInv'
    BY DEF TypeOK, Shape, NodeDir, DirInv
<1>3. MemInv'
    BY DEF TypeOK, HistInv, DirInv, MemInv
<1>4. DiskInv'
    BY DEF TypeOK, NodeDir, DirInv, MemInv, DiskInv, Good
<1> QED
    BY <1>1, <1>2, <1>3, <1>4

(* IInv is kept by Close.                                                   *)
LEMMA InvClose ==
    ASSUME IInv, TypeOK', Shape', Close
    PROVE  SnapInv' /\ DirInv' /\ MemInv' /\ DiskInv'
<1> USE DEF IInv, Close, Forget, Opening, Recovering, Replaced, Saving, Serving, raft, disk, mem, env
<1>1. SnapInv'
    BY DEF SnapInv
<1>2. DirInv'
    BY DEF TypeOK, Shape, NodeDir, DirInv
<1>3. MemInv'
    BY DEF TypeOK, HistInv, DirInv, MemInv
<1>4. DiskInv'
    BY DEF TypeOK, NodeDir, DirInv, MemInv, DiskInv, Good
<1> QED
    BY <1>1, <1>2, <1>3, <1>4

(* IInv is kept by killing the process.                                     *)
LEMMA InvKill ==
    ASSUME IInv, TypeOK', Shape', Kill
    PROVE  SnapInv' /\ DirInv' /\ MemInv' /\ DiskInv'
<1> USE DEF IInv, Kill, Forget, Opening, Recovering, Replaced, Saving, Serving, raft, disk, mem, env
<1>1. SnapInv'
    BY DEF SnapInv
<1>2. DirInv'
    BY DEF TypeOK, Shape, NodeDir, DirInv
<1>3. MemInv'
    BY DEF TypeOK, HistInv, DirInv, MemInv
<1>4. DiskInv'
    BY DEF TypeOK, NodeDir, DirInv, MemInv, DiskInv, Good
<1> QED
    BY <1>1, <1>2, <1>3, <1>4

(* IInv is kept by losing power.                                            *)
LEMMA InvPowerLoss ==
    ASSUME IInv, TypeOK', Shape', PowerLoss
    PROVE  SnapInv' /\ DirInv' /\ MemInv' /\ DiskInv'
<1> USE DEF IInv, PowerLoss, Forget, Opening, Recovering, Replaced, Saving, Serving, raft, disk, mem, env
<1>0. /\ durable' = fs' /\ fs'.cur \in {fs.cur, durable.cur} /\ mode # "kill"
      /\ fs'.dirs \subseteq fs.dirs \cup durable.dirs
    BY PowerLossLeaves DEF Shape
<1>5. fs'.cur.name = NoDir => fs'.dirs = {} /\ durable.cur.name = NoDir
    BY <1>0 DEF DirInv
<1>1. SnapInv'
    BY DEF SnapInv
<1>2. DirInv'
    BY <1>0, <1>5 DEF DirInv
<1>3. MemInv'
    BY DEF TypeOK, HistInv, DirInv, MemInv
<1>4. DiskInv'
    <2>1. \A x \in {fs.cur.name, durable.cur.name} \cap (fs.dirs \cup durable.dirs) : Good(x)'
        BY <1>0 DEF DiskInv, Good
    <2>2. fs'.cur.name = NoDir => acked = 0
        BY <1>5 DEF DiskInv
    <2> QED
        BY <1>0, <2>1, <2>2 DEF DiskInv
<1> QED
    BY <1>1, <1>2, <1>3, <1>4

(* IInv is kept by committing an entry: nothing the replica holds refers to  *)
(* a longer log than there was.                                             *)
LEMMA InvCommit ==
    ASSUME IInv, TypeOK', Shape', NEW c \in Cmds, Commit(c)
    PROVE  HistInv' /\ SnapInv' /\ DirInv' /\ MemInv' /\ DiskInv'
<1> DEFINE L == Len(log)
<1>0. /\ L \in Nat /\ Len(log') = L + 1 /\ c \in Cmd
      /\ log'[L + 1] = c /\ \A n \in 1..L : log'[n] = log[n]
      /\ \A n \in 0..L : hist'[n] = hist[n] /\ hist[n] \in Store
      /\ hist'[L + 1] = Meaning(hist[L], c, L + 1)
    <2>1. TypeOK
        BY DEF IInv
    <2>2. L \in Nat /\ c \in Cmd /\ \A n \in 0..L : hist[n] \in Store
        <3>1. log \in Seq(Cmd) /\ hist \in [0..Len(log) -> Store]
            BY <2>1 DEF TypeOK
        <3>2. Len(log) \in Nat
            BY <3>1
        <3>3. \A n \in 0..Len(log) : hist[n] \in Store
            BY <3>1
        <3> QED
            BY <3>2, <3>3, CmdsAssumption
    <2>3. /\ Len(log') = L + 1
          /\ log'[L + 1] = c /\ \A n \in 1..L : log'[n] = log[n]
          /\ \A n \in 0..L : hist'[n] = hist[n]
          /\ hist'[L + 1] = Meaning(hist[L], c, L + 1)
        BY <2>1, CommitType
    <2> QED
        BY <2>2, <2>3
<1>5. /\ \A n \in 0..L : queryAppliedIndex(hist[n]) \in 0..n
      /\ HistInv
    BY <1>0, AppliedIndexType DEF IInv, HistInv
<1>6. \/ queryAppliedIndex(hist'[L + 1]) = L + 1
      \/ hist'[L + 1] = hist[L]
    BY <1>0, ApplyCmdType, SealBatchType DEF Meaning
<1>7. HistInv'
    <2>1. hist'[0] = EmptyStore
        BY <1>0, <1>5 DEF HistInv
    <2>2. \A n \in 1..L + 1 : hist'[n] = Meaning(hist'[n - 1], log'[n], n)
        <3> SUFFICES ASSUME NEW n \in 1..L + 1
                     PROVE  hist'[n] = Meaning(hist'[n - 1], log'[n], n)
            OBVIOUS
        <3>1. CASE n = L + 1
            <4>1. n - 1 = L /\ L \in 0..L
                BY <1>0, <3>1
            <4>2. hist'[L] = hist[L]
                BY <1>0, <4>1
            <4> QED
                BY <1>0, <3>1, <4>1, <4>2
        <3>2. CASE n \in 1..L
            <4>1. n - 1 \in 0..L /\ n \in 0..L
                BY <1>0, <3>2
            <4>2. hist'[n] = hist[n] /\ hist'[n - 1] = hist[n - 1] /\ log'[n] = log[n]
                BY <1>0, <3>2, <4>1
            <4>3. hist[n] = Meaning(hist[n - 1], log[n], n)
                BY <1>5, <3>2 DEF HistInv
            <4> QED
                BY <4>2, <4>3
        <3> QED
            BY <1>0, <3>1, <3>2
    <2>3. \A n \in 0..L + 1 : queryAppliedIndex(hist'[n]) <= n
        BY <1>0, <1>5, <1>6
    <2>4. \A n \in 0..L + 1 : hist'[queryAppliedIndex(hist'[n])] = hist'[n]
        <3>1. \A n \in 0..L : hist[queryAppliedIndex(hist[n])] = hist[n]
            BY <1>5 DEF HistInv
        <3>2. \A n \in 0..L : hist'[queryAppliedIndex(hist[n])] = hist[n]
            <4> SUFFICES ASSUME NEW n \in 0..L
                         PROVE  hist'[queryAppliedIndex(hist[n])] = hist[n]
                OBVIOUS
            <4>1. queryAppliedIndex(hist[n]) \in 0..L
                BY <1>0, <1>5
            <4> QED
                BY <1>0, <3>1, <4>1
        <3>3. hist'[queryAppliedIndex(hist'[L + 1])] = hist'[L + 1]
            BY <1>0, <1>6, <3>2
        <3> QED
            BY <1>0, <3>2, <3>3
    <2>5. \A m, n \in 0..L + 1 :
              m <= n => queryAppliedIndex(hist'[m]) <= queryAppliedIndex(hist'[n])
        <3> SUFFICES ASSUME NEW m \in 0..L + 1, NEW n \in 0..L + 1, m <= n
                     PROVE  queryAppliedIndex(hist'[m]) <= queryAppliedIndex(hist'[n])
            OBVIOUS
        <3>1. CASE n \in 0..L
            BY <1>0, <1>5, <3>1 DEF HistInv
        <3>2. CASE n = L + 1 /\ m \in 0..L
            BY <1>0, <1>5, <1>6, <3>2 DEF HistInv
        <3>3. CASE n = L + 1 /\ m = L + 1
            BY <1>0, <1>5, <1>6, <3>3
        <3> QED
            BY <1>0, <3>1, <3>2, <3>3
    <2> QED
        BY <1>0, <2>1, <2>2, <2>3, <2>4, <2>5 DEF HistInv
<1> HIDE DEF L
<1> USE DEF IInv, Commit, Opening, Recovering, Replaced, Saving, Serving, disk, mem, env
<1>1. SnapInv'
    BY <1>0 DEF L, SnapInv
<1>2. DirInv'
    BY DEF DirInv
<1>3. MemInv'
    BY <1>0 DEF L, TypeOK, MemInv
<1>4. DiskInv'
    <2>1. \A x : Good(x) => Good(x)'
        BY <1>0 DEF L, Good
    <2> QED
        BY <2>1 DEF DiskInv
<1> QED
    BY <1>7, <1>1, <1>2, <1>3, <1>4

(* Every step keeps IInv, whatever the faults.                              *)
LEMMA InvStep == IInv /\ [~RecoversMixed]_vars /\ [Next]_vars => IInv'
<1> SUFFICES ASSUME IInv, [~RecoversMixed]_vars, [Next]_vars PROVE IInv'
    OBVIOUS
<1> DEFINE Rest == SnapInv /\ DirInv /\ MemInv /\ DiskInv
<1>a. TypeOK' /\ Shape'
    BY TypeStep DEF IInv
<1>c. ASSUME NEW c \in Cmds, Commit(c) PROVE IInv'
    BY <1>a, <1>c, InvCommit DEF IInv
<1>d. CASE Done \/ UNCHANGED vars
    <2>1. UNCHANGED <<raft, disk, mem, pc, saved, acked, env>>
        BY <1>d DEF Done, vars
    <2> USE <2>1 DEF IInv, raft, disk, mem, env
    <2>2. HistInv' /\ SnapInv'
        BY HistStep DEF SnapInv
    <2>3. DirInv'
        BY DEF DirInv, Opening, Recovering, Replaced
    <2>4. MemInv'
        BY DEF MemInv, Opening, Recovering, Replaced
    <2>5. DiskInv'
        BY DEF DiskInv, Good
    <2> QED
        BY <1>a, <2>2, <2>3, <2>4, <2>5
<1>e. ASSUME UNCHANGED <<log, hist>>, Rest' PROVE IInv'
    BY <1>a, <1>e, HistStep DEF IInv
<1>1. CASE RaftEntry
    BY <1>a, <1>e, <1>1, InvRaftEntry DEF RaftEntry, raft
<1>2. ASSUME NEW d \in DirNames, OpenNew(d) PROVE IInv'
    BY <1>a, <1>e, <1>2, InvOpenNew DEF OpenNew, raft
<1>3. CASE OpenExisting
    BY <1>a, <1>e, <1>3, InvOpenExisting DEF OpenExisting, raft
<1>4. ASSUME NEW d \in DirNames, CleanupDir(d) PROVE IInv'
    BY <1>a, <1>e, <1>4, InvCleanupDir DEF CleanupDir, raft
<1>5. CASE OpenLoad
    BY <1>a, <1>e, <1>5, InvOpenLoad DEF OpenLoad, raft
<1>6. CASE OpenCreate
    BY <1>a, <1>e, <1>6, InvOpenCreate DEF OpenCreate, raft
<1>7. CASE SaveCreate
    BY <1>a, <1>e, <1>7, InvSaveCreate DEF SaveCreate, MoveTo, raft
<1>8. CASE SaveWrite
    BY <1>a, <1>e, <1>8, InvSaveWrite DEF SaveWrite, MoveTo, raft
<1>9. CASE SaveSync
    BY <1>a, <1>e, <1>9, InvSaveSync DEF SaveSync, MoveTo, raft
<1>10. CASE SaveDirSync
    BY <1>a, <1>e, <1>10, InvSaveDirSync DEF SaveDirSync, MoveTo, raft
<1>11. CASE ReplaceRename
    BY <1>a, <1>e, <1>11, InvReplaceRename DEF ReplaceRename, MoveTo, raft
<1>12. CASE ReplaceDirSync
    BY <1>a, <1>e, <1>12, InvReplaceDirSync DEF ReplaceDirSync, MoveTo, raft
<1>13. CASE UpdateBegin
    BY <1>a, <1>e, <1>13, InvUpdateBegin DEF UpdateBegin, raft
<1>14. CASE UpdateEntry
    BY <1>a, <1>e, <1>14, InvUpdateEntry DEF UpdateEntry, raft
<1>15. CASE UpdateApply
    BY <1>a, <1>e, <1>15, InvUpdateApply DEF UpdateApply, raft
<1>16. CASE UpdateReturn
    BY <1>a, <1>e, <1>16, InvUpdateReturn DEF UpdateReturn, raft
<1>17. CASE PrepareSnapshot
    BY <1>a, <1>e, <1>17, InvPrepareSnapshot DEF PrepareSnapshot, raft
<1>18. CASE SaveSnapshot
    BY <1>a, <1>e, <1>18, InvSaveSnapshot DEF SaveSnapshot, raft
<1>19. ASSUME NEW s \in Offered, NEW d \in DirNames, RecoverBegin(s, d) PROVE IInv'
    <2>1. ~UNCHANGED vars
        BY <1>19 DEF RecoverBegin, vars
    <2>2. s.store = hist[s.idx]
        BY <1>19, <2>1 DEF RecoversMixed
    <2> QED
        BY <1>a, <1>e, <1>19, <2>2, InvRecoverBegin DEF RecoverBegin, raft
<1>20. CASE RecoverApply
    BY <1>a, <1>e, <1>20, InvRecoverApply DEF RecoverApply, raft
<1>21. CASE RecoverSwap
    BY <1>a, <1>e, <1>21, InvRecoverSwap DEF RecoverSwap, raft
<1>22. CASE RecoverRemove
    BY <1>a, <1>e, <1>22, InvRecoverRemove DEF RecoverRemove, MoveTo, raft
<1>23. CASE RecoverReturn
    BY <1>a, <1>e, <1>23, InvRecoverReturn DEF RecoverReturn, raft
<1>24. CASE ReturnError
    BY <1>a, <1>e, <1>24, InvReturnError DEF ReturnError, raft
<1>25. CASE Close
    BY <1>a, <1>e, <1>25, InvClose DEF Close, Forget, raft
<1>26. CASE Kill
    BY <1>a, <1>e, <1>26, InvKill DEF Kill, Forget, raft
<1>27. CASE PowerLoss
    BY <1>a, <1>e, <1>27, InvPowerLoss DEF PowerLoss, Forget, raft
<1> QED
    BY <1>c, <1>d, <1>1, <1>2, <1>3, <1>4, <1>5, <1>6, <1>7, <1>8, <1>9, <1>10, <1>11, <1>12, <1>13, <1>14, <1>15, <1>16, <1>17, <1>18, <1>19, <1>20, <1>21, <1>22, <1>23, <1>24, <1>25, <1>26, <1>27 DEF Next

-----------------------------------------------------------------------------
(* The theorems.                                                            *)

(* IInv is an invariant, whatever the faults.                               *)
THEOREM Invariance == Spec /\ Unmixed => []IInv
BY InvInit, InvStep, PTL DEF Spec, Unmixed

(* Where iter.Value() outlives iter.Next(), no snapshot is ever mixed up,   *)
(* and what is proved of Unmixed behaviours holds of all.                   *)
THEOREM StableIsUnmixed ==
    ASSUME StableValues
    PROVE  Spec => Unmixed
<1>1. ASSUME IInv PROVE ~RecoversMixed
    <2>1. ASSUME NEW s \in Offered PROVE s.store = hist[s.idx]
        <3>1. \A t : Written(t) = {t}
            BY DEF Written, StableValues
        <3> QED
            BY <1>1, <3>1, OfferedCases DEF IInv, SnapInv
    <2> QED
        BY <2>1 DEF RecoversMixed
<1>2. IInv /\ [Next]_vars => IInv' /\ [~RecoversMixed]_vars
    BY <1>1, InvStep
<1> QED
    BY InvInit, <1>2, PTL DEF Spec, Unmixed

(* Batches, restarts, replays and recoveries neither drop nor repeat an     *)
(* entry: between calls the open database holds what the applied prefix of  *)
(* the log means (Update, Open, RecoverFromSnapshot).                       *)
THEOREM AppliedPrefix == Spec /\ Unmixed => []ServesAppliedPrefix
<1>1. IInv => ServesAppliedPrefix
    BY DEF IInv, TypeOK, MemInv, Serving, ServesAppliedPrefix
<1> QED
    BY <1>1, Invariance, PTL

(* What a completed Update or RecoverFromSnapshot reported survives any     *)
(* number of kills, or any number of power losses.                          *)
THEOREM Durability == Spec /\ Unmixed => []AckedSurvives
<1>1. IInv => AckedSurvives
    BY DEF IInv, TypeOK, MemInv, Serving, AckedSurvives
<1> QED
    BY <1>1, Invariance, PTL

(* The "not moving forward" assertions of Update and RecoverFromSnapshot    *)
(* never fire.                                                              *)
THEOREM Forward == Spec /\ Unmixed => []NeverBackward
<1>1. IInv => NeverBackward
    BY DEF IInv, DirInv, NeverBackward
<1> QED
    BY <1>1, Invariance, PTL

(* A written snapshot is filed under an applied prefix, has exactly the     *)
(* keys of its store, and no value that is not there.                       *)
SnapshotTraceable ==
    saved # NoStream =>
        /\ saved.idx \in DOMAIN hist
        /\ \A k \in Keys :
              /\ saved.store[k] = Nil <=> hist[saved.idx][k] = Nil
              /\ \E x \in Keys : saved.store[k] = hist[saved.idx][x]

(* SaveSnapshot writes the keys of the prefix PrepareSnapshot captured,     *)
(* whatever Update did in between, and nothing but its values, even where   *)
(* iter.Value() does not outlive iter.Next(): that is the only way in which *)
(* it can deviate from the captured store, and where it does outlive it the *)
(* snapshot is that store.                                                  *)
THEOREM SnapshotsFaithful ==
    Spec /\ Unmixed => [](SnapshotTraceable /\ (IterValueStable => SnapshotFaithful))
<1>1. IInv => SnapshotTraceable
    <2> SUFFICES ASSUME IInv, saved # NoStream
                 PROVE  /\ saved.idx \in DOMAIN hist
                        /\ \A k \in Keys :
                              /\ saved.store[k] = Nil <=> hist[saved.idx][k] = Nil
                              /\ \E x \in Keys : saved.store[k] = hist[saved.idx][x]
        BY DEF SnapshotTraceable
    <2>1. saved.idx \in DOMAIN hist /\ saved.store \in Written(hist[saved.idx])
        BY DEF IInv, SnapInv, TypeOK
    <2>2. ASSUME NEW h, NEW t \in Written(h), NEW k \in Keys
          PROVE  (t[k] = Nil <=> h[k] = Nil) /\ \E x \in Keys : t[k] = h[x]
        <3>1. CASE IterValueStable
            BY <2>2, <3>1 DEF Written
        <3>2. CASE ~IterValueStable
            <4>1. /\ t \in [Keys -> ({h[x] : x \in Keys} \ {Nil}) \cup {Nil}]
                  /\ t[k] = Nil <=> h[k] = Nil
                BY <2>2, <3>2 DEF Written
            <4> QED
                BY <4>1
        <3> QED
            BY <3>1, <3>2
    <2> QED
        BY <2>1, <2>2
<1>2. IInv => (IterValueStable => SnapshotFaithful)
    BY DEF IInv, SnapInv, TypeOK, Written, SnapshotFaithful
<1> QED
    BY <1>1, <1>2, Invariance, PTL

(* When processes only die, a database that Open finds missing never        *)
(* reported anything to Raft.                                               *)
THEOREM OnlyUnreportedIsLost == Spec /\ Unmixed => []LostBeforeFirstAck
<1>1. IInv => LostBeforeFirstAck
    BY DEF IInv, DirInv, DiskInv, LostBeforeFirstAck
<1> QED
    BY <1>1, Invariance, PTL

(* While a replica serves, its node directory holds its database and no     *)
(* other (cleanupNodeDataDir, RecoverFromSnapshot).                         *)
THEOREM NoLeftovers == Spec /\ Unmixed => []OnlyTheOpenDB
<1>1. IInv => OnlyTheOpenDB
    BY DEF IInv, DirInv, Serving, OnlyTheOpenDB
<1> QED
    BY <1>1, Invariance, PTL

-----------------------------------------------------------------------------
(* The refinement: every step of DiskKV is a step of ReplicaState, or       *)
(* leaves its variables alone.                                              *)

Disk == DiskHolds(NoDir)
Creating == db = NoDir /\ pc \in {"dirsync", "create"}
Simulated == [Replica!Next]_(Replica!vars)

(* The three cases of DiskHolds exclude each other.                         *)
LEMMA DiskCases ==
    ASSUME TypeOK
    PROVE  /\ SurvivingPtr = NoDir => Disk = EmptyStore
           /\ SurvivingPtr \in fs.dirs => Disk = store[SurvivingPtr] /\ SurvivingPtr \in DirNames
           /\ SurvivingPtr \notin fs.dirs /\ SurvivingPtr # NoDir =>
                 Disk = IF Creating THEN EmptyStore ELSE NoDir
<1>1. fs.dirs \subseteq DirNames
    BY DEF TypeOK, NodeDir
<1> QED
    BY <1>1 DEF Disk, DiskHolds, Creating

(* The same after a step.                                                   *)
LEMMA DiskCasesAfter ==
    ASSUME TypeOK'
    PROVE  /\ SurvivingPtr' = NoDir => Disk' = EmptyStore
           /\ SurvivingPtr' \in fs'.dirs => Disk' = store'[SurvivingPtr']
           /\ SurvivingPtr' \notin fs'.dirs /\ SurvivingPtr' # NoDir =>
                 Disk' = IF Creating' THEN EmptyStore ELSE NoDir
<1>1. fs'.dirs \subseteq DirNames
    BY DEF TypeOK, NodeDir
<1> QED
    BY <1>1 DEF Disk, DiskHolds, Creating, EmptyStore

(* A disk that is not lost is a prefix's store.                             *)
LEMMA DiskIsPrefix ==
    ASSUME IInv
    PROVE  /\ Disk # NoDir => Disk \in Store /\ \E n \in 0..Len(log) : Disk = hist[n]
           /\ SurvivingPtr # Torn
<1>1. TypeOK /\ DOMAIN hist = 0..Len(log) /\ 0 \in 0..Len(log) /\ hist[0] = EmptyStore
    BY DEF IInv, TypeOK, HistInv
<1>2. CASE SurvivingPtr \in fs.dirs
    <2>1. Good(SurvivingPtr)
        BY <1>2 DEF IInv, DiskInv, SurvivingPtr
    <2>2. Disk = store[SurvivingPtr] /\ store[SurvivingPtr] \in Store
        BY <1>1, <1>2, DiskCases DEF TypeOK
    <2> QED
        BY <2>1, <2>2 DEF Good, IInv, Shape, SurvivingPtr
<1>3. CASE SurvivingPtr \notin fs.dirs
    BY <1>1, <1>3, DiskCases, EmptyStoreType DEF IInv, Shape, SurvivingPtr
<1> QED
    BY <1>2, <1>3

(* A step that leaves the disk alone is a stutter of the abstract replica. *)
LEMMA Stutters ==
    ASSUME hist' = hist, acked' = acked, mode' = mode, Disk' = Disk
    PROVE  Simulated
BY DEF Simulated, Replica!vars, Disk

(* A step after which the disk has no database loses the replica. *)
LEMMA Loses ==
    ASSUME hist' = hist, acked' = acked, mode' = mode, Disk' = NoDir
    PROVE  Simulated
BY DEF Simulated, Replica!Next, Replica!Lose, Disk

(* A step that puts a longer prefix on the disk advances the replica. *)
LEMMA Advances ==
    ASSUME TypeOK, hist' = hist, acked' = acked, mode' = mode, Disk # NoDir, NEW n \in 0..Len(log), Disk' = hist[n],
           queryAppliedIndex(hist[n]) >= queryAppliedIndex(Disk)
    PROVE  Simulated
<1>1. DOMAIN hist = 0..Len(log)
    BY DEF TypeOK
<1>2. Replica!Advance
    BY <1>1 DEF Replica!Advance, Replica!AppliedIndex, queryAppliedIndex, Disk
<1> QED
    BY <1>2 DEF Simulated, Replica!Next

(* On a machine that suffers both kinds of faults the disk may fall back.   *)
LEMMA FallsBack ==
    ASSUME TypeOK, hist' = hist, acked' = acked, mode' = mode, mode = "both",
           NEW n \in 0..Len(log), Disk' = hist[n]
    PROVE  Simulated
<1>1. DOMAIN hist = 0..Len(log)
    BY DEF TypeOK
<1>2. Replica!FallBack
    BY <1>1 DEF Replica!FallBack, Disk
<1> QED
    BY <1>2 DEF Simulated, Replica!Next

(* A step that leaves alone what a restart would look at leaves the disk    *)
(* alone, or loses it if it ends Open before the database is created.       *)
LEMMA DiskSame ==
    ASSUME TypeOK, TypeOK', SurvivingPtr' = SurvivingPtr,
           SurvivingPtr \in fs'.dirs <=> SurvivingPtr \in fs.dirs,
           SurvivingPtr \in fs.dirs => store'[SurvivingPtr] = store[SurvivingPtr]
    PROVE  /\ (Creating' <=> Creating) => Disk' = Disk
           /\ ~Creating' => Disk' = Disk \/ Disk' = NoDir
<1>1. CASE SurvivingPtr = NoDir
    BY <1>1, DiskCases, DiskCasesAfter
<1>2. CASE SurvivingPtr \in fs.dirs
    BY <1>2, DiskCases, DiskCasesAfter
<1>3. CASE SurvivingPtr \notin fs.dirs /\ SurvivingPtr # NoDir
    BY <1>3, DiskCases, DiskCasesAfter
<1> QED
    BY <1>1, <1>2, <1>3

(* A step that neither touches the files a restart reads nor enters or      *)
(* leaves the creation of a database is invisible.                          *)
LEMMA Invisible ==
    ASSUME IInv, IInv', hist' = hist, acked' = acked, mode' = mode, store' = store,
           fs'.cur = fs.cur, durable'.cur = durable.cur, fs'.dirs = fs.dirs,
           Creating' <=> Creating
    PROVE  Simulated
<1>1. SurvivingPtr' = SurvivingPtr
    BY DEF SurvivingPtr
<1>2. Disk' = Disk
    BY <1>1, DiskSame DEF IInv
<1> QED
    BY <1>2, Stutters

(* When power may fail, the pointer that survives names a directory that is *)
(* still there if it was there at the last sync: a lost disk stays lost.    *)
Kept ==
    mode = "power" =>
        (durable.cur.name \in durable.dirs => durable.cur.name \in fs.dirs)

(* Open creates the database its own current file names: it was empty.      *)
LEMMA SimOpenCreate ==
    ASSUME IInv, IInv', OpenCreate
    PROVE  Simulated
<1>1. TypeOK /\ TypeOK' /\ hist' = hist /\ acked' = acked /\ mode' = mode
    BY DEF IInv, OpenCreate, raft, env
<1>2. pc = "create" /\ Opening /\ fs.dirs = {} /\ fs.cur.name = new /\ new \in DirNames
    BY DEF OpenCreate, IInv, TypeOK, Shape, DirInv, MemInv, Opening, Saving
<1>3. SurvivingPtr = new
    BY <1>2 DEF SurvivingPtr, IInv, DirInv
<1>4. fs'.cur = fs.cur /\ fs'.dirs = {new} /\ store'[new] = EmptyStore /\ durable' = durable
    BY <1>1, <1>2, CreateDBType DEF OpenCreate, TypeOK
<1>5. SurvivingPtr' = new
    BY <1>1, <1>3, <1>4 DEF SurvivingPtr
<1>6. Disk = EmptyStore
    BY <1>1, <1>2, <1>3, DiskCases DEF Creating, Opening
<1>7. Disk' = EmptyStore
    BY <1>1, <1>4, <1>5, DiskCasesAfter
<1> QED
    BY <1>1, <1>6, <1>7, Stutters

(* cleanupNodeDataDir removes no directory a restart would open.            *)
LEMMA SimCleanupDir ==
    ASSUME IInv, IInv', NEW d \in DirNames, CleanupDir(d)
    PROVE  Simulated
<1>1. TypeOK /\ TypeOK' /\ hist' = hist /\ acked' = acked /\ mode' = mode /\ store' = store
    BY DEF IInv, CleanupDir, raft, env
<1>2. fs'.cur = fs.cur /\ fs'.dirs = fs.dirs \ {d} /\ durable' = durable /\ d # fs.cur.name
    BY <1>1 DEF CleanupDir, TypeOK, NodeDir
<1>3. SurvivingPtr = fs.cur.name /\ SurvivingPtr' = SurvivingPtr
    BY <1>1, <1>2 DEF SurvivingPtr, CleanupDir, IInv, DirInv
<1>4. Creating' <=> Creating
    BY DEF Creating, CleanupDir, mem
<1>5. Disk' = Disk
    BY <1>1, <1>2, <1>3, <1>4, DiskSame
<1> QED
    BY <1>1, <1>5, Stutters

(* RecoverFromSnapshot fills a directory that no pointer names yet.         *)
LEMMA SimRecoverBegin ==
    ASSUME IInv, IInv', NEW s \in Offered, NEW d \in DirNames, RecoverBegin(s, d)
    PROVE  Simulated
<1>1. TypeOK /\ TypeOK' /\ hist' = hist /\ acked' = acked /\ mode' = mode /\ durable' = durable
    BY DEF IInv, RecoverBegin, raft, env
<1>2. pc = "idle" /\ fs.dirs = {db} /\ fs.cur.name = db /\ db \in DirNames /\ d # db
    BY DEF RecoverBegin, getNewRandomDBDirName, IInv, TypeOK, DirInv, Shape, Serving
<1>3. fs'.cur = fs.cur /\ fs'.dirs = {db, d} /\ store'[db] = store[db]
    BY <1>1, <1>2, CreateDBType DEF RecoverBegin, TypeOK
<1>4. SurvivingPtr = db /\ SurvivingPtr' = db
    BY <1>1, <1>2, <1>3 DEF SurvivingPtr, IInv, DirInv
<1>5. ~Creating /\ ~Creating'
    BY <1>2 DEF Creating, RecoverBegin
<1>6. Disk' = Disk
    BY <1>1, <1>2, <1>3, <1>4, <1>5, DiskSame
<1> QED
    BY <1>1, <1>6, Stutters

(* The database recovery fills is not the one current names. *)
LEMMA SimRecoverApply ==
    ASSUME IInv, IInv', RecoverApply
    PROVE  Simulated
<1>1. /\ TypeOK /\ TypeOK' /\ hist' = hist /\ acked' = acked /\ mode' = mode
      /\ fs' = fs /\ durable' = durable
    BY DEF IInv, RecoverApply, raft, env
<1>2. pc = "load" /\ fs.dirs = {db, new} /\ fs.cur.name = db /\ db \in DirNames /\ new # db
    BY DEF RecoverApply, IInv, TypeOK, DirInv, Shape, Recovering
<1>3. store'[db] = store[db]
    BY <1>1, <1>2 DEF RecoverApply, TypeOK
<1>4. SurvivingPtr = db /\ SurvivingPtr' = db
    BY <1>1, <1>2 DEF SurvivingPtr, IInv, DirInv
<1>5. ~Creating /\ ~Creating'
    BY <1>2 DEF Creating, RecoverApply
<1>6. Disk' = Disk
    BY <1>1, <1>2, <1>3, <1>4, <1>5, DiskSame
<1> QED
    BY <1>1, <1>6, Stutters

(* ... and removes the old one once no pointer names it.                    *)
LEMMA SimRecoverRemove ==
    ASSUME IInv, IInv', RecoverRemove
    PROVE  Simulated
<1>1. /\ TypeOK /\ TypeOK' /\ hist' = hist /\ acked' = acked /\ mode' = mode
      /\ store' = store /\ durable' = durable
    BY DEF IInv, RecoverRemove, MoveTo, raft, env
<1>2. pc = "remove" /\ fs.dirs = {old, new} /\ fs.cur.name = new /\ new # old
    BY DEF RecoverRemove, IInv, DirInv, Replaced
<1>3. fs'.cur = fs.cur /\ fs'.dirs = {new}
    BY <1>1, <1>2 DEF RecoverRemove, TypeOK, NodeDir
<1>4. SurvivingPtr = new /\ SurvivingPtr' = new
    BY <1>1, <1>2, <1>3 DEF SurvivingPtr, IInv, DirInv
<1>5. ~Creating /\ ~Creating'
    BY <1>2 DEF Creating, RecoverRemove, MoveTo
<1>6. Disk' = Disk
    BY <1>1, <1>2, <1>3, <1>4, <1>5, DiskSame
<1> QED
    BY <1>1, <1>6, Stutters

(* Acknowledging what the disk has.                                         *)
LEMMA Acks ==
    ASSUME hist' = hist, mode' = mode, Disk' = Disk, Disk \in Store,
           acked' > acked \/ mode = "both", acked' <= queryAppliedIndex(Disk)
    PROVE  Simulated
<1>1. Disk # NoDir
    BY NoDirAssumption
<1>2. Replica!Ack
    BY <1>1 DEF Replica!Ack, Replica!AppliedIndex, queryAppliedIndex, Disk
<1> QED
    BY <1>2 DEF Simulated, Replica!Next

(* From one prefix to a longer one.                                         *)
LEMMA AdvancesAlong ==
    ASSUME TypeOK, HistInv, hist' = hist, acked' = acked, mode' = mode,
           NEW m \in 0..Len(log), NEW n \in m + 1..Len(log), Disk = hist[m], Disk' = hist[n]
    PROVE  Simulated
<1>1. m \in 0..Len(log) /\ n \in 0..Len(log) /\ m <= n
    BY DEF TypeOK
<1>2. queryAppliedIndex(hist[m]) <= queryAppliedIndex(hist[n])
    BY <1>1 DEF HistInv
<1>3. hist[m] \in Store /\ hist[n] \in Store
    BY <1>1 DEF TypeOK
<1>4. Disk # NoDir
    BY <1>3, NoDirAssumption
<1>5. queryAppliedIndex(hist[n]) >= queryAppliedIndex(Disk)
    BY <1>2, <1>3, AppliedIndexType
<1> QED
    BY <1>1, <1>4, <1>5, Advances

(* Renaming "updating" over current: where processes may die, the disk      *)
(* moves on to the snapshot's prefix at this step.                          *)
LEMMA SimReplaceRename ==
    ASSUME IInv, IInv', ReplaceRename
    PROVE  Simulated
<1>1. /\ TypeOK /\ TypeOK' /\ hist' = hist /\ acked' = acked /\ mode' = mode
      /\ store' = store /\ durable' = durable /\ db' = db /\ pc = "rename" /\ pc' = "dirsync"
    BY DEF IInv, ReplaceRename, MoveTo, raft, mem, env
<1>2. fs'.cur.name = new /\ fs'.dirs = fs.dirs /\ new \in DirNames
    BY <1>1 DEF ReplaceRename, IInv, TypeOK, NodeDir, Shape, Saving
<1>3. CASE mode = "power"
    <2>1. SurvivingPtr' = SurvivingPtr
        BY <1>1, <1>3 DEF SurvivingPtr
    <2>2. SurvivingPtr = NoDir \/ SurvivingPtr \in fs.dirs
        BY <1>1, <1>3 DEF SurvivingPtr, IInv, DirInv, Opening, Recovering, Saving
    <2>3. Disk' = Disk
        BY <1>1, <1>2, <2>1, <2>2, DiskCases, DiskCasesAfter
    <2> QED
        BY <1>1, <2>3, Stutters
<1>4. CASE mode # "power" /\ db = NoDir
    <2>1. fs.cur.name = NoDir /\ fs.dirs = {}
        BY <1>1, <1>4 DEF IInv, DirInv, Opening, Saving
    <2>2. SurvivingPtr = NoDir /\ SurvivingPtr' = new
        BY <1>1, <1>2, <1>4, <2>1 DEF SurvivingPtr
    <2>3. Creating'
        BY <1>1, <1>4 DEF Creating
    <2>4. Disk = EmptyStore /\ Disk' = EmptyStore
        BY <1>1, <1>2, <2>1, <2>2, <2>3, DiskCases, DiskCasesAfter
    <2> QED
        BY <1>1, <2>4, Stutters
<1>5. CASE mode # "power" /\ db # NoDir
    <2>1. Recovering /\ fs.cur.name = db /\ fs.dirs = {db, new}
        BY <1>1, <1>5 DEF IInv, DirInv, Recovering, Saving
    <2>2. SurvivingPtr = db /\ SurvivingPtr' = new
        BY <1>1, <1>2, <1>5, <2>1 DEF SurvivingPtr
    <2>3. /\ raftApplied \in 0..Len(log) /\ ent \in raftApplied + 1..Len(log)
          /\ store[db] = hist[raftApplied] /\ store[new] = hist[ent]
        BY <1>1, <2>1 DEF IInv, MemInv
    <2>4. Disk = hist[raftApplied] /\ Disk' = hist[ent]
        BY <1>1, <1>2, <2>1, <2>2, <2>3, DiskCases, DiskCasesAfter
    <2> QED
        BY <1>1, <2>3, <2>4, AdvancesAlong DEF IInv
<1> QED
    BY <1>3, <1>4, <1>5

(* Syncing the node directory: where only the power fails, the disk moves   *)
(* on to the snapshot's prefix at this step.                                *)
LEMMA SimReplaceDirSync ==
    ASSUME IInv, IInv', ReplaceDirSync
    PROVE  Simulated
<1>1. /\ TypeOK /\ TypeOK' /\ hist' = hist /\ acked' = acked /\ mode' = mode
      /\ store' = store /\ durable' = fs /\ fs' = fs /\ db' = db
      /\ pc = "dirsync" /\ pc' = IF db = NoDir THEN "create" ELSE "swap"
    BY DEF IInv, ReplaceDirSync, MoveTo, raft, mem, env
<1>2. SurvivingPtr' = fs.cur.name /\ (Creating' <=> Creating) /\ (Creating <=> db = NoDir)
    BY <1>1 DEF SurvivingPtr, Creating
<1>3. CASE mode # "power"
    <2>1. SurvivingPtr = fs.cur.name
        BY <1>3 DEF SurvivingPtr
    <2>2. Disk' = Disk
        BY <1>1, <1>2, <2>1, DiskSame
    <2> QED
        BY <1>1, <2>2, Stutters
<1>4. CASE mode = "power" /\ db = NoDir
    <2>1. fs.dirs = {}
        BY <1>1, <1>4 DEF IInv, DirInv, Opening
    <2>2. Disk = EmptyStore /\ Disk' = EmptyStore
        BY <1>1, <1>2, <1>4, <2>1, DiskCases, DiskCasesAfter
    <2> QED
        BY <1>1, <2>2, Stutters
<1>5. CASE mode = "power" /\ db # NoDir
    <2>1. Recovering /\ fs.cur.name = new /\ fs.dirs = {db, new} /\ durable.cur.name = db
        BY <1>1, <1>5 DEF IInv, DirInv, Recovering
    <2>2. SurvivingPtr = db
        BY <1>5, <2>1 DEF SurvivingPtr
    <2>3. /\ raftApplied \in 0..Len(log) /\ ent \in raftApplied + 1..Len(log)
          /\ store[db] = hist[raftApplied] /\ store[new] = hist[ent]
        BY <1>1, <2>1 DEF IInv, MemInv
    <2>4. Disk = hist[raftApplied] /\ Disk' = hist[ent]
        BY <1>1, <1>2, <2>1, <2>2, <2>3, DiskCases, DiskCasesAfter
    <2> QED
        BY <1>1, <2>3, <2>4, AdvancesAlong DEF IInv
<1> QED
    BY <1>3, <1>4, <1>5

(* Applying the batch of Update moves the disk to the prefix it ends at.    *)
LEMMA SimUpdateApply ==
    ASSUME IInv, IInv', UpdateApply
    PROVE  Simulated
<1>1. /\ TypeOK /\ TypeOK' /\ hist' = hist /\ acked' = acked /\ mode' = mode
      /\ fs' = fs /\ durable' = durable /\ db' = db /\ ent' = ent
      /\ pc = "update" /\ pc' = "applied"
    BY DEF IInv, UpdateApply, raft, mem, env
<1>2. fs.dirs = {db} /\ fs.cur.name = db
    BY <1>1 DEF IInv, DirInv, Serving
<1>3. SurvivingPtr = db /\ SurvivingPtr' = db
    BY <1>1, <1>2 DEF SurvivingPtr, IInv, DirInv
<1>4. raftApplied \in 0..Len(log) /\ store[db] = hist[raftApplied]
    BY <1>1 DEF IInv, MemInv, Serving
<1>5. ent \in raftApplied + 1..Len(log)
    BY <1>1, <1>4 DEF IInv, MemInv, UpdateApply, TypeOK
<1>6. store'[db] = hist[ent]
    BY <1>1 DEF IInv, MemInv
<1>7. Disk = hist[raftApplied] /\ Disk' = hist[ent]
    BY <1>1, <1>2, <1>3, <1>4, <1>6, DiskCases, DiskCasesAfter
<1> QED
    BY <1>1, <1>4, <1>5, <1>7, AdvancesAlong DEF IInv

(* Update reports the index the disk has reached.                           *)
LEMMA SimUpdateReturn ==
    ASSUME IInv, IInv', UpdateReturn
    PROVE  Simulated
<1>1. /\ TypeOK /\ TypeOK' /\ hist' = hist /\ mode' = mode /\ store' = store
      /\ fs' = fs /\ durable' = durable /\ db' = db /\ pc = "applied"
    BY DEF IInv, UpdateReturn, raft, disk, env
<1>2. ~Creating /\ ~Creating'
    BY <1>1 DEF Creating, UpdateReturn
<1>3. CASE lastApplied >= ent
    BY <1>1, <1>2, <1>3, Invisible DEF UpdateReturn
<1>4. CASE ~(lastApplied >= ent)
    <2>1. fs.dirs = {db} /\ fs.cur.name = db
        BY <1>1 DEF IInv, DirInv, Serving
    <2>2. SurvivingPtr = db /\ SurvivingPtr' = db
        BY <1>1, <2>1 DEF SurvivingPtr, IInv, DirInv
    <2>3. /\ store[db] = hist[ent] /\ queryAppliedIndex(hist[ent]) = ent
          /\ mode # "both" => acked <= lastApplied
        BY <1>1 DEF IInv, MemInv, Serving
    <2>4. Disk = hist[ent] /\ Disk' = Disk /\ hist[ent] \in Store
        BY <1>1, <2>1, <2>2, <2>3, DiskCases, DiskCasesAfter DEF TypeOK
    <2>5. acked' = ent /\ (acked' > acked \/ mode = "both")
        BY <1>1, <1>4, <2>3 DEF UpdateReturn, TypeOK
    <2> QED
        BY <1>1, <2>3, <2>4, <2>5, Acks DEF TypeOK
<1> QED
    BY <1>3, <1>4

(* RecoverFromSnapshot reports the index the disk has reached.              *)
LEMMA SimRecoverReturn ==
    ASSUME IInv, IInv', RecoverReturn
    PROVE  Simulated
<1>1. /\ TypeOK /\ TypeOK' /\ hist' = hist /\ mode' = mode /\ store' = store
      /\ fs' = fs /\ durable' = fs /\ db' = db /\ pc = "parentsync" /\ acked' = lastApplied
    BY DEF IInv, RecoverReturn, raft, env
<1>2. fs.dirs = {db} /\ fs.cur.name = db
    BY <1>1 DEF IInv, DirInv, Replaced
<1>3. SurvivingPtr = db /\ SurvivingPtr' = db
    BY <1>1, <1>2 DEF SurvivingPtr, IInv, DirInv
<1>4. /\ ent \in 0..Len(log) /\ store[db] = hist[ent]
      /\ lastApplied = queryAppliedIndex(hist[ent]) /\ (mode # "both" => acked <= lastApplied)
    BY <1>1 DEF IInv, MemInv, Replaced
<1>5. Disk = hist[ent] /\ Disk' = Disk /\ hist[ent] \in Store
    BY <1>1, <1>2, <1>3, <1>4, DiskCases, DiskCasesAfter DEF TypeOK
<1>6. CASE acked' = acked
    BY <1>1, <1>5, <1>6, Stutters
<1>7. CASE acked' # acked
    <2>1. (acked' > acked \/ mode = "both") /\ acked' <= queryAppliedIndex(Disk)
        BY <1>1, <1>4, <1>5, <1>7 DEF TypeOK
    <2> QED
        BY <1>1, <1>5, <2>1, Acks
<1> QED
    BY <1>6, <1>7

(* An error, Close or a kill: the disk stays as it is, or Open had saved    *)
(* the name of a database it had not created yet.                           *)
LEMMA SimStop ==
    ASSUME IInv, IInv', ReturnError \/ Close \/ Kill
    PROVE  Simulated
<1>1. /\ TypeOK /\ TypeOK' /\ hist' = hist /\ acked' = acked /\ mode' = mode
      /\ store' = store /\ fs' = fs /\ durable' = durable /\ pc' \in {"failed", "down"}
    BY DEF IInv, ReturnError, Close, Kill, Forget, raft, disk, env
<1>2. SurvivingPtr' = SurvivingPtr /\ ~Creating'
    BY <1>1 DEF SurvivingPtr, Creating
<1>3. Disk' = Disk \/ Disk' = NoDir
    BY <1>1, <1>2, DiskSame
<1> QED
    BY <1>1, <1>3, Stutters, Loses

(* A power loss leaves the disk as it is, loses it, or, between the rename  *)
(* and the sync of the node directory, moves it on to the snapshot's        *)
(* prefix.                                                                  *)
LEMMA SimPowerLoss ==
    ASSUME IInv, Kept, IInv', PowerLoss, mode = "power"
    PROVE  Simulated
<1>1. /\ TypeOK /\ TypeOK' /\ hist' = hist /\ acked' = acked /\ mode' = mode
      /\ store' = store /\ pc' = "down" /\ mode = "power"
    BY DEF IInv, PowerLoss, Forget, raft
<1>2. /\ durable' = fs'
      /\ fs'.cur = fs.cur \/ fs'.cur = durable.cur
      /\ fs'.dirs \subseteq fs.dirs \cup durable.dirs
    BY PowerLossLeaves DEF IInv, Shape
<1>3. SurvivingPtr = durable.cur.name /\ SurvivingPtr' = fs'.cur.name /\ ~Creating'
    BY <1>1, <1>2 DEF SurvivingPtr, Creating
<1>4. CASE fs'.cur.name \notin fs'.dirs /\ fs'.cur.name # NoDir
    <2>1. Disk' = NoDir
        BY <1>1, <1>3, <1>4, DiskCasesAfter
    <2> QED
        BY <1>1, <2>1, Loses
<1>5. CASE fs'.cur.name = NoDir
    <2>1. Disk' = EmptyStore
        BY <1>1, <1>3, <1>5, DiskCasesAfter
    <2>2. Disk = EmptyStore
        <3>1. CASE pc # "dirsync"
            BY <1>1, <1>2, <1>3, <1>5, <3>1, DiskCases DEF IInv, DirInv
        <3>2. CASE pc = "dirsync"
            <4>1. fs.cur.name # NoDir
                BY <3>2 DEF IInv, Shape
            <4> QED
                BY <1>1, <1>2, <1>3, <1>5, <4>1, DiskCases
        <3> QED
            BY <3>1, <3>2
    <2> QED
        BY <1>1, <2>1, <2>2, Stutters
<1>6. CASE fs'.cur.name \in fs'.dirs
    <2>1. Disk' = store[fs'.cur.name]
        BY <1>1, <1>3, <1>6, DiskCasesAfter
    <2>2. CASE fs'.cur.name = durable.cur.name
        <3>1. durable.cur.name \in fs.dirs
            BY <1>1, <1>2, <1>6, <2>2 DEF Kept
        <3>2. Disk = store[durable.cur.name]
            BY <1>1, <1>3, <3>1, DiskCases
        <3> QED
            BY <1>1, <2>1, <2>2, <3>2, Stutters
    <2>3. CASE fs'.cur.name # durable.cur.name
        <3>1. pc = "dirsync" /\ fs'.cur = fs.cur
            BY <1>1, <1>2, <2>3 DEF IInv, DirInv
        <3>2. Recovering
            BY <1>2, <1>6, <3>1 DEF IInv, DirInv, Opening, Recovering
        <3>3. fs.cur.name = new /\ fs.dirs = {db, new} /\ durable.cur.name = db
            BY <1>1, <3>1, <3>2 DEF IInv, DirInv
        <3>4. /\ raftApplied \in 0..Len(log) /\ ent \in raftApplied + 1..Len(log)
              /\ store[db] = hist[raftApplied] /\ store[new] = hist[ent]
            BY <3>1, <3>2 DEF IInv, MemInv
        <3>5. Disk = hist[raftApplied] /\ Disk' = hist[ent]
            BY <1>1, <1>3, <2>1, <3>1, <3>3, <3>4, DiskCases
        <3> QED
            BY <1>1, <3>4, <3>5, AdvancesAlong DEF IInv
    <2> QED
        BY <2>2, <2>3
<1> QED
    BY <1>4, <1>5, <1>6

(* Where processes may die too, it may bring back an older database.        *)
LEMMA SimPowerLossBoth ==
    ASSUME IInv, IInv', PowerLoss, mode # "power"
    PROVE  Simulated
<1>1. /\ TypeOK /\ TypeOK' /\ hist' = hist /\ log' = log /\ acked' = acked /\ mode' = mode
      /\ mode = "both" /\ pc' = "down"
    BY DEF IInv, PowerLoss, Forget, raft
<1>2. SurvivingPtr' = fs'.cur.name /\ ~Creating'
    BY <1>1 DEF SurvivingPtr, Creating
<1>3. hist[0] = EmptyStore /\ 0 \in 0..Len(log)
    BY <1>1 DEF IInv, HistInv, TypeOK
<1>4. CASE fs'.cur.name = NoDir
    <2>1. Disk' = hist[0]
        BY <1>1, <1>2, <1>3, <1>4, DiskCasesAfter
    <2> QED
        BY <1>1, <1>3, <2>1, FallsBack
<1>5. CASE fs'.cur.name \in fs'.dirs
    <2>1. PICK n \in 0..Len(log) : store'[fs'.cur.name] = hist[n]
        BY <1>1, <1>5 DEF IInv, DiskInv, Good
    <2>2. Disk' = hist[n]
        BY <1>1, <1>2, <1>5, <2>1, DiskCasesAfter
    <2> QED
        BY <1>1, <2>2, FallsBack
<1>6. CASE fs'.cur.name \notin fs'.dirs /\ fs'.cur.name # NoDir
    BY <1>1, <1>2, <1>6, DiskCasesAfter, Loses
<1> QED
    BY <1>4, <1>5, <1>6

(* The log grows, and the disk stays as it is.                              *)
LEMMA SimCommit ==
    ASSUME IInv, IInv', NEW c \in Cmds, Commit(c)
    PROVE  Simulated
<1>1. /\ TypeOK /\ TypeOK' /\ acked' = acked /\ mode' = mode /\ store' = store
      /\ fs' = fs /\ durable' = durable /\ db' = db /\ pc' = pc
    BY DEF IInv, Commit, disk, mem, env
<1>2. SurvivingPtr' = SurvivingPtr /\ (Creating' <=> Creating)
    BY <1>1 DEF SurvivingPtr, Creating
<1>3. Disk' = Disk
    BY <1>1, <1>2, DiskSame
<1>4. DOMAIN hist \subseteq DOMAIN hist' /\ \A n \in DOMAIN hist : hist'[n] = hist[n]
    BY <1>1, CommitType DEF TypeOK
<1>5. Replica!Extend
    BY <1>1, <1>3, <1>4 DEF Replica!Extend, Disk
<1> QED
    BY <1>5 DEF Simulated, Replica!Next

(* No step removes the directory the synced current file names.             *)
LEMMA KeptStep ==
    ASSUME IInv, Kept, [Next]_vars, IInv'
    PROVE  Kept'
<1> USE DEF Kept
<1>1. ASSUME NEW c \in Cmds, Commit(c) PROVE Kept'
    BY <1>1 DEF Commit, disk, env
<1>2. CASE RaftEntry \/ UpdateBegin \/ UpdateEntry \/ UpdateReturn \/ PrepareSnapshot \/ SaveSnapshot
    BY <1>2 DEF RaftEntry, UpdateBegin, UpdateEntry, UpdateReturn, PrepareSnapshot, SaveSnapshot, disk, env
<1>3. ASSUME NEW d \in DirNames, OpenNew(d) PROVE Kept'
    BY <1>3 DEF OpenNew, disk, env
<1>4. CASE OpenLoad \/ RecoverSwap \/ ReturnError \/ Close \/ Kill
    BY <1>4 DEF OpenLoad, RecoverSwap, ReturnError, Close, Kill, Forget, disk, env
<1>5. CASE OpenExisting \/ SaveCreate \/ SaveWrite \/ SaveSync \/ ReplaceRename
    BY <1>5 DEF OpenExisting, SaveCreate, SaveWrite, SaveSync, ReplaceRename, MoveTo, env,
                IInv, TypeOK, NodeDir
<1>6. CASE SaveDirSync \/ ReplaceDirSync \/ RecoverReturn
    BY <1>6 DEF SaveDirSync, ReplaceDirSync, RecoverReturn
<1>7. CASE UpdateApply \/ RecoverApply
    BY <1>7 DEF UpdateApply, RecoverApply, env
<1>8. ASSUME NEW d \in DirNames, CleanupDir(d) PROVE Kept'
    <2>1. /\ fs'.dirs = fs.dirs \ {d} /\ d # fs.cur.name /\ durable' = durable
          /\ mode' = mode /\ pc = "cleanup"
        BY <1>8 DEF CleanupDir, IInv, TypeOK, NodeDir, env
    <2> QED
        BY <2>1 DEF IInv, DirInv
<1>9. CASE OpenCreate
    <2>1. new \in DirNames /\ fs'.dirs = fs.dirs \cup {new}
        BY <1>9, CreateDBType DEF OpenCreate, IInv, TypeOK, Shape
    <2> QED
        BY <1>9, <2>1 DEF OpenCreate, env
<1>10. ASSUME NEW s \in Offered, NEW d \in DirNames, RecoverBegin(s, d) PROVE Kept'
    <2>1. fs'.dirs = fs.dirs \cup {d}
        BY <1>10, CreateDBType DEF RecoverBegin, IInv
    <2> QED
        BY <1>10, <2>1 DEF RecoverBegin, env
<1>11. CASE RecoverRemove
    <2>1. /\ fs'.dirs = fs.dirs \ {old} /\ durable' = durable
          /\ mode' = mode /\ pc = "remove"
        BY <1>11 DEF RecoverRemove, MoveTo, IInv, TypeOK, NodeDir, env
    <2> QED
        BY <2>1 DEF IInv, DirInv, Replaced
<1>12. CASE PowerLoss
    BY <1>12 DEF PowerLoss
<1>13. CASE Done \/ UNCHANGED vars
    BY <1>13 DEF Done, vars, disk, env
<1> QED
    BY <1>1, <1>2, <1>3, <1>4, <1>5, <1>6, <1>7, <1>8, <1>9, <1>10, <1>11, <1>12, <1>13 DEF Next

(* Every step of DiskKV is a step of ReplicaState or leaves it alone.       *)
LEMMA Simulates ==
    ASSUME IInv, Kept, [Next]_vars, IInv'
    PROVE  Simulated
<1>1. ASSUME NEW c \in Cmds, Commit(c) PROVE Simulated
    BY <1>1, SimCommit
<1>2. ASSUME NEW d \in DirNames, OpenNew(d) PROVE Simulated
    BY <1>2, Invisible DEF OpenNew, raft, disk, env, Creating
<1>3. ASSUME NEW d \in DirNames, CleanupDir(d) PROVE Simulated
    BY <1>3, SimCleanupDir
<1>4. ASSUME NEW s \in Offered, NEW d \in DirNames, RecoverBegin(s, d) PROVE Simulated
    BY <1>4, SimRecoverBegin
<1>5. CASE RaftEntry \/ UpdateBegin \/ UpdateEntry \/ PrepareSnapshot \/ SaveSnapshot
    BY <1>5, Invisible
    DEF RaftEntry, UpdateBegin, UpdateEntry, PrepareSnapshot, SaveSnapshot, raft, disk, env, Creating
<1>6. CASE OpenLoad
    BY <1>6, Invisible DEF OpenLoad, raft, disk, env, Creating
<1>7. CASE OpenExisting \/ SaveCreate \/ SaveWrite \/ SaveSync
    <2>1. /\ fs'.cur = fs.cur /\ fs'.dirs = fs.dirs /\ durable' = durable
          /\ hist' = hist /\ acked' = acked /\ mode' = mode /\ store' = store
          /\ ~Creating /\ ~Creating'
        BY <1>7 DEF OpenExisting, SaveCreate, SaveWrite, SaveSync, MoveTo, raft, mem, env, Creating,
                    IInv, TypeOK, NodeDir
    <2> QED
        BY <2>1, Invisible
<1>8. CASE SaveDirSync
    <2>1. durable'.cur = durable.cur \/ mode # "power"
        BY <1>8 DEF SaveDirSync, IInv, DirInv
    <2>2. /\ fs' = fs /\ hist' = hist /\ acked' = acked /\ mode' = mode /\ store' = store
          /\ ~Creating /\ ~Creating' /\ TypeOK /\ TypeOK'
        BY <1>8 DEF SaveDirSync, MoveTo, raft, mem, env, Creating, IInv
    <2>3. SurvivingPtr' = SurvivingPtr
        BY <2>1, <2>2 DEF SurvivingPtr
    <2>4. Disk' = Disk
        BY <2>2, <2>3, DiskSame
    <2> QED
        BY <2>2, <2>4, Stutters
<1>9. CASE RecoverSwap
    BY <1>9, Invisible DEF RecoverSwap, raft, disk, env, Creating
<1>10. CASE Done \/ UNCHANGED vars
    BY <1>10, Invisible DEF Done, vars, raft, disk, mem, env, Creating
<1> QED
    BY <1>1, <1>2, <1>3, <1>4, <1>5, <1>6, <1>7, <1>8, <1>9, <1>10, SimOpenCreate, SimReplaceRename,
       SimReplaceDirSync, SimUpdateApply, SimUpdateReturn, SimRecoverApply, SimRecoverRemove,
       SimRecoverReturn, SimStop, SimPowerLoss, SimPowerLossBoth
    DEF Next

(* kvdisk.go's files, read the way Open reads them, are a disk that moves   *)
(* forward along the log, never behind what was reported to Raft, or is     *)
(* visibly lost; on a machine that suffers kills and power losses it may    *)
(* also fall back, to no other store than a prefix's.                       *)
THEOREM Implements == Spec /\ Unmixed => ImplementsReplicaState
<1>1. Init => Kept
    BY DEF Init, Kept
<1>2. Init => Replica!Init
    <2> SUFFICES ASSUME Init PROVE Replica!Init
        OBVIOUS
    <2>1. TypeOK /\ SurvivingPtr = NoDir
        BY TypeInit DEF Init, SurvivingPtr, NoFile
    <2>2. Disk = EmptyStore
        BY <2>1, DiskCases
    <2> QED
        BY <2>2 DEF Init, Replica!Init, Replica!EmptyStore, EmptyStore, Disk
<1>3. IInv /\ Kept /\ [~RecoversMixed]_vars /\ [Next]_vars
      => IInv' /\ Kept' /\ [Replica!Next]_(Replica!vars)
    BY InvStep, KeptStep, Simulates DEF Simulated
<1> QED
    BY InvInit, <1>1, <1>2, <1>3, PTL DEF Spec, Unmixed, ImplementsReplicaState, Replica!Spec

=============================================================================
