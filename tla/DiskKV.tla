------------------------------- MODULE DiskKV -------------------------------
(***************************************************************************)
(* The on-disk Raft state machine of roo (roo/kvdisk.go): one replica's    *)
(* node directory, the Pebble databases in it, the "current" file that     *)
(* names the database in use, and every step of Open, Update,              *)
(* PrepareSnapshot / SaveSnapshot, RecoverFromSnapshot and Close between   *)
(* which a process can be killed or a machine can lose power.              *)
(*                                                                         *)
(* Modelled from their use in kvdisk.go (code outside the repository):     *)
(*  - the Raft library calls Open once per start, then Update with         *)
(*    consecutive committed entries after the index Open returned.  It     *)
(*    keeps no-op and membership entries ("raft" commands) to itself.      *)
(*    PrepareSnapshot and RecoverFromSnapshot never overlap Update, and    *)
(*    RecoverFromSnapshot never overlaps SaveSnapshot.  Open meets the     *)
(*    node directory of an earlier start when connect() draws the replica  *)
(*    ID of that start again, at random; with any other ID it begins with  *)
(*    an empty one, like Init;                                             *)
(*  - a snapshot offered to this replica covers a longer prefix of the     *)
(*    log than the replica has applied;                                    *)
(*  - a Pebble batch applied with Sync is atomic and durable, and a        *)
(*    directory entry or a file is durable once it has been synced.        *)
(*                                                                         *)
(* Abstracted: a key's value is a natural number, because what             *)
(* queryAppliedIndex reads at appliedIndexKey is decoded as one; a         *)
(* command is the net effect of one log entry (the last write per key of   *)
(* a KVBatch, one write for a KVAction or KVData, none for an entry        *)
(* without a key); a nil value is a delete.                                *)
(***************************************************************************)
EXTENDS Integers, Sequences, FiniteSets

CONSTANTS
    DirNames,         \* names getNewRandomDBDirName may draw
    Keys,             \* keys of the store, appliedIndexKey among them
    appliedIndexKey,  \* the key under which the applied index is stored
    Vals,             \* values clients write
    Cmds,             \* commands that may be committed to the log
    Nil,              \* "no value": the key is absent, or a write deletes it
    NoDir,            \* "no directory"
    Torn,             \* content of a pointer file that fails its checksum
    NoStream,         \* "no snapshot"
    FaultModes,       \* which faults a machine may suffer: "kill", "power", "both"
    IterValueStable,  \* whether iter.Value() stays valid after iter.Next()
    MaxLog,           \* bound: length of the log
    MaxFaults         \* bound: number of kills and power losses

Value == Nat \cup {Nil}
Store == [Keys -> Value]
EmptyStore == [k \in Keys |-> Nil]

(* One log entry: what Update writes for it, or an entry Raft keeps.        *)
Writes == UNION {[K -> Vals \cup {Nil}] : K \in SUBSET Keys}
Cmd == [kind : {"sm", "raft"}, set : Writes]

(* A pointer file ("current" or "current.updating"): NoDir when absent.     *)
PtrFile == [name : DirNames \cup {NoDir, Torn}, synced : BOOLEAN]
NoFile == [name |-> NoDir, synced |-> TRUE]

(* The entries of the node directory.                                       *)
NodeDir == [cur : PtrFile, upd : PtrFile, dirs : SUBSET DirNames]

(* A snapshot: the index Raft knows it by, and the pairs written to it.     *)
Stream == [idx : Nat, store : Store]

ASSUME ValsAssumption == Vals \subseteq Nat
ASSUME KeysAssumption == appliedIndexKey \in Keys
ASSUME CmdsAssumption == Cmds \subseteq Cmd
ASSUME NilAssumption == Nil \notin Nat
ASSUME DirNamesAssumption == NoDir \notin DirNames /\ Torn \notin DirNames /\ NoDir # Torn
ASSUME NoDirAssumption == NoDir \notin Store
ASSUME NoStreamAssumption == NoStream \notin Stream
ASSUME FaultModesAssumption == FaultModes \subseteq {"kill", "power", "both"}
ASSUME IterValueStableAssumption == IterValueStable \in BOOLEAN
ASSUME BoundsAssumption == MaxLog \in Nat /\ MaxFaults \in Nat

VARIABLES
    log,          \* the committed Raft log
    hist,         \* hist[n]: the store the first n entries of the log produce
    fs,           \* the node directory as the running system sees it
    durable,      \* the node directory as it was last synced
    store,        \* store[d]: content of the Pebble database in directory d
    pc,           \* the step the state machine is at
    db,           \* directory of the open database, NoDir when d.db is nil
    new,          \* dbdir, the directory being created by Open or Recover
    old,          \* oldDirName of RecoverFromSnapshot
    lastApplied,  \* d.lastApplied
    raftApplied,  \* the last index Raft has handed over or kept
    wb,           \* the pending batch, as the store it will produce
    ent,          \* index of the last entry of the batch, or of the snapshot
    ctx,          \* the outstanding diskKVCtx
    saved,        \* the last snapshot SaveSnapshot wrote
    acked,        \* the applied index the last completed call reported to Raft
    mode,         \* the faults this behaviour's machine suffers
    faults        \* faults so far

raft == <<log, hist>>
disk == <<fs, durable, store>>
mem  == <<db, new, old, lastApplied, raftApplied, wb, ent, ctx>>
env  == <<mode, faults>>
vars == <<raft, disk, mem, pc, saved, acked, env>>

PCs == {"down", "cleanup", "save", "write", "fsync", "savedir", "rename",
        "dirsync", "create", "load", "swap", "remove", "parentsync", "idle",
        "update", "applied", "failed", "panic_corrupt", "panic_missing",
        "panic_backward"}

-----------------------------------------------------------------------------
(* Operators on stores.                                                     *)

(* The writes of one entry, as Update adds them to its batch.               *)
ApplyCmd(s, c) == [k \in Keys |-> IF k \in DOMAIN c.set THEN c.set[k] ELSE s[k]]

(* The applied index is the last write of the batch: it overrides whatever  *)
(* the entries wrote under the same key.                                    *)
SealBatch(s, n) == [s EXCEPT ![appliedIndexKey] = n]

(* Mutant: the empty value is decoded.                                      *)
queryAppliedIndex_NoEmptyCheck(s) == s[appliedIndexKey]

queryAppliedIndex(s) ==
    IF s[appliedIndexKey] = Nil THEN 0 ELSE s[appliedIndexKey]

(* What a log of n entries means, given what its first n-1 entries mean.    *)
Meaning(s, c, n) == IF c.kind = "sm" THEN SealBatch(ApplyCmd(s, c), n) ELSE s

(* What saveToWriter may write for the snapshot s.  It keeps iter.Value()   *)
(* of every key until the end; when the bytes do not outlive iter.Next(),   *)
(* each kept value may be overwritten by that of another key.               *)
Written(s) ==
    LET values == {s[k] : k \in Keys} \ {Nil}
    IN IF IterValueStable THEN {s}
       ELSE {t \in [Keys -> values \cup {Nil}] : \A k \in Keys : t[k] = Nil <=> s[k] = Nil}

createDB(d) ==
    /\ fs' = [fs EXCEPT !.dirs = @ \cup {d}]
    /\ store' = IF d \in fs.dirs THEN store ELSE [store EXCEPT ![d] = EmptyStore]

(* A name that was never drawn before in this node directory.               *)
getNewRandomDBDirName ==
    DirNames \ (fs.dirs \cup durable.dirs \cup {fs.cur.name, durable.cur.name})

-----------------------------------------------------------------------------
Init ==
    /\ log = <<>>
    /\ hist = [n \in {0} |-> EmptyStore]
    /\ fs = [cur |-> NoFile, upd |-> NoFile, dirs |-> {}]
    /\ durable = fs
    /\ store = [d \in DirNames |-> EmptyStore]
    /\ pc = "down"
    /\ db = NoDir /\ new = NoDir /\ old = NoDir
    /\ lastApplied = 0 /\ raftApplied = 0
    /\ wb = EmptyStore /\ ent = 0
    /\ ctx = NoStream /\ saved = NoStream
    /\ acked = 0
    /\ mode \in FaultModes /\ faults = 0

(* Raft commits one more entry.                                             *)
Commit(c) ==
    /\ Len(log) < MaxLog
    /\ log' = Append(log, c)
    /\ hist' = [n \in 0..Len(log) + 1 |->
                   IF n <= Len(log) THEN hist[n] ELSE Meaning(hist[Len(log)], c, n)]
    /\ UNCHANGED <<disk, mem, pc, saved, acked, env>>

(* Raft passes over an entry that is not for the state machine.             *)
RaftEntry ==
    /\ pc = "idle"
    /\ raftApplied < Len(log)
    /\ log[raftApplied + 1].kind = "raft"
    /\ raftApplied' = raftApplied + 1
    /\ UNCHANGED <<raft, disk, db, new, old, lastApplied, wb, ent, ctx, pc, saved, acked, env>>

-----------------------------------------------------------------------------
(* Open.  A node directory without a current file is a new run: the name of *)
(* the database is saved first and the database created afterwards.         *)

OpenNew(d) ==
    /\ pc = "down"
    /\ fs.cur.name = NoDir
    /\ d \in getNewRandomDBDirName
    /\ new' = d
    /\ pc' = "save"
    /\ UNCHANGED <<raft, disk, db, old, lastApplied, raftApplied, wb, ent, ctx, saved, acked, env>>

(* cleanupNodeDataDir drops the updating file, then reads current.          *)
OpenExisting ==
    /\ pc = "down"
    /\ fs.cur.name # NoDir
    /\ fs' = [fs EXCEPT !.upd = NoFile]
    /\ pc' = IF fs.cur.name = Torn THEN "panic_corrupt" ELSE "cleanup"
    /\ UNCHANGED <<raft, durable, store, mem, saved, acked, env>>

(* ... and removes every other directory, one at a time.                    *)
CleanupDir(d) ==
    /\ pc = "cleanup"
    /\ d \in fs.dirs \ {fs.cur.name}
    /\ fs' = [fs EXCEPT !.dirs = @ \ {d}]
    /\ UNCHANGED <<raft, durable, store, mem, pc, saved, acked, env>>

(* Mutant: Open returns index 0 to Raft.                                    *)
OpenLoad_ReturnsZero ==
    /\ pc = "cleanup"
    /\ fs.dirs = {fs.cur.name}
    /\ db' = fs.cur.name
    /\ lastApplied' = queryAppliedIndex(store[fs.cur.name])
    /\ raftApplied' = 0
    /\ pc' = "idle"
    /\ UNCHANGED <<raft, disk, new, old, wb, ent, ctx, saved, acked, env>>

(* The rest of Open on an existing directory.                               *)
OpenLoad ==
    /\ pc = "cleanup"
    /\ fs.dirs \subseteq {fs.cur.name}
    /\ IF fs.cur.name \notin fs.dirs
       THEN /\ pc' = "panic_missing"
            /\ UNCHANGED <<db, lastApplied, raftApplied>>
       ELSE /\ db' = fs.cur.name
            /\ lastApplied' = queryAppliedIndex(store[fs.cur.name])
            /\ raftApplied' = lastApplied'
            /\ pc' = "idle"
    /\ UNCHANGED <<raft, disk, new, old, wb, ent, ctx, saved, acked, env>>

(* The rest of Open on a new run, after the current file is in place.       *)
OpenCreate ==
    /\ pc = "create"
    /\ createDB(new)
    /\ db' = new
    /\ lastApplied' = queryAppliedIndex(store'[new])
    /\ raftApplied' = lastApplied'
    /\ new' = NoDir
    /\ pc' = "idle"
    /\ UNCHANGED <<raft, durable, old, wb, ent, ctx, saved, acked, env>>

-----------------------------------------------------------------------------
(* saveCurrentDBDirName: os.Create, the writes, f.Sync, the deferred        *)
(* syncDir.  replaceCurrentDBFile: os.Rename, syncDir.  Open and            *)
(* RecoverFromSnapshot share them; d.db is nil exactly in Open.             *)

MoveTo(next) ==
    /\ pc' = next
    /\ UNCHANGED <<raft, store, mem, saved, acked, env>>

SaveCreate ==
    /\ pc = "save"
    /\ fs' = [fs EXCEPT !.upd = [name |-> Torn, synced |-> FALSE]]
    /\ UNCHANGED durable
    /\ MoveTo("write")

SaveWrite ==
    /\ pc = "write"
    /\ fs' = [fs EXCEPT !.upd = [name |-> new, synced |-> FALSE]]
    /\ UNCHANGED durable
    /\ MoveTo("fsync")

(* Mutant: no f.Sync.                                                       *)
SaveSync_Skipped ==
    /\ pc = "fsync"
    /\ UNCHANGED <<fs, durable>>
    /\ MoveTo("savedir")

SaveSync ==
    /\ pc = "fsync"
    /\ fs' = [fs EXCEPT !.upd.synced = TRUE]
    /\ UNCHANGED durable
    /\ MoveTo("savedir")

SaveDirSync ==
    /\ pc = "savedir"
    /\ durable' = fs
    /\ UNCHANGED fs
    /\ MoveTo("rename")

ReplaceRename ==
    /\ pc = "rename"
    /\ fs' = [fs EXCEPT !.cur = fs.upd, !.upd = NoFile]
    /\ UNCHANGED durable
    /\ MoveTo("dirsync")

(* Mutant: no syncDir after the rename.                                     *)
ReplaceDirSync_Skipped ==
    /\ pc = "dirsync"
    /\ UNCHANGED <<fs, durable>>
    /\ MoveTo(IF db = NoDir THEN "create" ELSE "swap")

ReplaceDirSync ==
    /\ pc = "dirsync"
    /\ durable' = fs
    /\ UNCHANGED fs
    /\ MoveTo(IF db = NoDir THEN "create" ELSE "swap")

-----------------------------------------------------------------------------
(* Update: the entries go into one batch, the index of the last one is      *)
(* added to it, and the batch is applied with Sync.                         *)

UpdateBegin ==
    /\ pc = "idle"
    /\ raftApplied < Len(log)
    /\ log[raftApplied + 1].kind = "sm"
    /\ wb' = store[db]
    /\ ent' = raftApplied
    /\ pc' = "update"
    /\ UNCHANGED <<raft, disk, db, new, old, lastApplied, raftApplied, ctx, saved, acked, env>>

UpdateEntry ==
    /\ pc = "update"
    /\ ent < Len(log)
    /\ log[ent + 1].kind = "sm"
    /\ wb' = ApplyCmd(wb, log[ent + 1])
    /\ ent' = ent + 1
    /\ UNCHANGED <<raft, disk, db, new, old, lastApplied, raftApplied, ctx, pc, saved, acked, env>>

(* Mutant: the applied index is set before the entries' writes.             *)
UpdateApply_IndexFirst ==
    /\ pc = "update"
    /\ ent > raftApplied
    /\ store' = [store EXCEPT ![db] =
                    IF wb[appliedIndexKey] = store[db][appliedIndexKey]
                    THEN SealBatch(wb, ent) ELSE wb]
    /\ pc' = "applied"
    /\ UNCHANGED <<raft, fs, durable, mem, saved, acked, env>>

(* Mutant: the applied index is not part of the batch.                      *)
UpdateApply_NoIndex ==
    /\ pc = "update"
    /\ ent > raftApplied
    /\ store' = [store EXCEPT ![db] = wb]
    /\ pc' = "applied"
    /\ UNCHANGED <<raft, fs, durable, mem, saved, acked, env>>

UpdateApply ==
    /\ pc = "update"
    /\ ent > raftApplied
    /\ store' = [store EXCEPT ![db] = SealBatch(wb, ent)]
    /\ pc' = "applied"
    /\ UNCHANGED <<raft, fs, durable, mem, saved, acked, env>>

UpdateReturn ==
    /\ pc = "applied"
    /\ IF lastApplied >= ent
       THEN /\ pc' = "panic_backward"
            /\ UNCHANGED <<lastApplied, raftApplied, acked, wb, ent>>
       ELSE /\ pc' = "idle"
            /\ lastApplied' = ent
            /\ raftApplied' = ent
            /\ acked' = ent
            /\ wb' = EmptyStore /\ ent' = 0
    /\ UNCHANGED <<raft, disk, db, new, old, ctx, saved, env>>

-----------------------------------------------------------------------------
(* Snapshots.                                                               *)

PrepareSnapshot ==
    /\ pc = "idle"
    /\ ctx = NoStream
    /\ ctx' = [idx |-> raftApplied, store |-> store[db]]
    /\ UNCHANGED <<raft, disk, db, new, old, lastApplied, raftApplied, wb, ent, pc, saved, acked, env>>

(* Mutant: the latest state is saved, not the captured one.                 *)
SaveSnapshot_Latest ==
    /\ pc \in {"idle", "update", "applied"}
    /\ ctx # NoStream
    /\ saved' = [idx |-> ctx.idx, store |-> store[db]]
    /\ ctx' = NoStream
    /\ UNCHANGED <<raft, disk, db, new, old, lastApplied, raftApplied, wb, ent, pc, acked, env>>

(* Runs beside Update: it writes what PrepareSnapshot captured.             *)
SaveSnapshot ==
    /\ pc \in {"idle", "update", "applied"}
    /\ ctx # NoStream
    /\ \E t \in Written(ctx.store) : saved' = [idx |-> ctx.idx, store |-> t]
    /\ ctx' = NoStream
    /\ UNCHANGED <<raft, disk, db, new, old, lastApplied, raftApplied, wb, ent, pc, acked, env>>

(* The snapshots Raft may hand to this replica: those of its peers, which   *)
(* write them with the same code, and the last one it wrote itself.         *)
FiledUnder(n) == {[idx |-> n, store |-> t] : t \in Written(hist[n])}

Offered == (UNION {FiledUnder(n) : n \in DOMAIN hist}) \cup ({saved} \ {NoStream})

(* RecoverFromSnapshot up to the read of the stream: the pairs go into a    *)
(* batch for a database in a new directory.                                 *)
RecoverBegin(s, d) ==
    /\ pc = "idle"
    /\ ctx = NoStream
    /\ s.idx > raftApplied
    /\ d \in getNewRandomDBDirName
    /\ old' = fs.cur.name
    /\ new' = d
    /\ createDB(d)
    /\ wb' = s.store
    /\ ent' = s.idx
    /\ pc' = "load"
    /\ UNCHANGED <<raft, durable, db, lastApplied, raftApplied, ctx, saved, acked, env>>

(* Mutant: the old database is removed before current is replaced.          *)
RecoverApply_RemovesOld ==
    /\ pc = "load"
    /\ store' = [store EXCEPT ![new] = wb]
    /\ fs' = [fs EXCEPT !.dirs = @ \ {old}]
    /\ pc' = "save"
    /\ UNCHANGED <<raft, durable, mem, saved, acked, env>>

RecoverApply ==
    /\ pc = "load"
    /\ store' = [store EXCEPT ![new] = wb]
    /\ pc' = "save"
    /\ UNCHANGED <<raft, fs, durable, mem, saved, acked, env>>

(* After the current file is replaced: lastApplied, then the pointer.       *)
RecoverSwap ==
    /\ pc = "swap"
    /\ IF lastApplied > queryAppliedIndex(store[new])
       THEN /\ pc' = "panic_backward"
            /\ UNCHANGED <<lastApplied, db>>
       ELSE /\ pc' = "remove"
            /\ lastApplied' = queryAppliedIndex(store[new])
            /\ db' = new
    /\ UNCHANGED <<raft, disk, new, old, raftApplied, wb, ent, ctx, saved, acked, env>>

(* Mutant: the old database is left behind.                                 *)
RecoverRemove_Skipped ==
    /\ pc = "remove"
    /\ UNCHANGED <<fs, durable>>
    /\ MoveTo("parentsync")

RecoverRemove ==
    /\ pc = "remove"
    /\ fs' = [fs EXCEPT !.dirs = @ \ {old}]
    /\ UNCHANGED durable
    /\ MoveTo("parentsync")

RecoverReturn ==
    /\ pc = "parentsync"
    /\ durable' = fs
    /\ raftApplied' = ent
    /\ acked' = lastApplied
    /\ new' = NoDir /\ old' = NoDir /\ wb' = EmptyStore /\ ent' = 0
    /\ pc' = "idle"
    /\ UNCHANGED <<raft, fs, store, db, lastApplied, ctx, saved, env>>

-----------------------------------------------------------------------------
(* Stops.                                                                   *)

(* A call of Open, Update or RecoverFromSnapshot returns an error (a short  *)
(* read of the stream, a failed create, write, rename, remove or Apply):    *)
(* Raft stops using the replica.  A sync that fails is not modelled: what   *)
(* it leaves on the disk is unknown.                                        *)
ReturnError ==
    /\ pc \in {"cleanup", "load", "save", "write", "fsync", "rename", "create", "remove", "update"}
    /\ pc' = "failed"
    /\ UNCHANGED <<raft, disk, mem, saved, acked, env>>

(* What is in memory is gone.                                               *)
Forget ==
    /\ pc' = "down"
    /\ db' = NoDir /\ new' = NoDir /\ old' = NoDir
    /\ lastApplied' = 0 /\ raftApplied' = 0
    /\ wb' = EmptyStore /\ ent' = 0 /\ ctx' = NoStream
    /\ UNCHANGED <<raft, store, saved, acked, mode>>

Close ==
    /\ pc \in {"idle", "failed"}
    /\ Forget
    /\ UNCHANGED <<fs, durable, faults>>

Panicked == pc \in {"panic_corrupt", "panic_missing", "panic_backward"}

(* The process is killed; the operating system survives.  What follows is   *)
(* the next Open on this node directory: see the README for when that is.   *)
Kill ==
    /\ mode \in {"kill", "both"}
    /\ faults < MaxFaults
    /\ pc # "down" /\ ~Panicked
    /\ faults' = faults + 1
    /\ Forget
    /\ UNCHANGED <<fs, durable>>

(* What a power loss may leave of a file: its content if it was synced,     *)
(* anything otherwise.                                                      *)
Remains(f) ==
    {[name |-> n, synced |-> TRUE] :
        n \in IF f.synced \/ f.name = NoDir THEN {f.name} ELSE {f.name, Torn}}

(* Every directory entry changed since the last sync is kept or lost.       *)
PowerLoss ==
    /\ mode \in {"power", "both"}
    /\ faults < MaxFaults
    /\ ~Panicked
    /\ faults' = faults + 1
    /\ \E c \in Remains(fs.cur) \cup Remains(durable.cur),
          u \in Remains(fs.upd) \cup Remains(durable.upd),
          kept \in SUBSET ((fs.dirs \cup durable.dirs) \ (fs.dirs \cap durable.dirs)) :
             fs' = [cur |-> c, upd |-> u, dirs |-> (fs.dirs \cap durable.dirs) \cup kept]
    /\ durable' = fs'
    /\ Forget

(* A replica that was killed, closed or failed is opened again.  One that   *)
(* panicked is left alone: on this node directory it would panic again.     *)
Done == Panicked /\ UNCHANGED vars

Next ==
    \/ \E c \in Cmds : Commit(c)
    \/ RaftEntry
    \/ \E d \in DirNames : OpenNew(d)
    \/ OpenExisting
    \/ \E d \in DirNames : CleanupDir(d)
    \/ OpenLoad
    \/ OpenCreate
    \/ SaveCreate
    \/ SaveWrite
    \/ SaveSync
    \/ SaveDirSync
    \/ ReplaceRename
    \/ ReplaceDirSync
    \/ UpdateBegin
    \/ UpdateEntry
    \/ UpdateApply
    \/ UpdateReturn
    \/ PrepareSnapshot
    \/ SaveSnapshot
    \/ \E s \in Offered, d \in DirNames : RecoverBegin(s, d)
    \/ RecoverApply
    \/ RecoverSwap
    \/ RecoverRemove
    \/ RecoverReturn
    \/ ReturnError
    \/ Close
    \/ Kill
    \/ PowerLoss
    \/ Done

Spec == Init /\ [][Next]_vars

-----------------------------------------------------------------------------
(* Properties.                                                              *)

TypeOK ==
    /\ log \in Seq(Cmd)
    /\ hist \in [0..Len(log) -> Store]
    /\ fs \in NodeDir /\ durable \in NodeDir
    /\ store \in [DirNames -> Store]
    /\ pc \in PCs
    /\ db \in DirNames \cup {NoDir}
    /\ new \in DirNames \cup {NoDir}
    /\ old \in DirNames \cup {NoDir}
    /\ lastApplied \in Nat /\ raftApplied \in Nat
    /\ wb \in Store /\ ent \in Nat
    /\ ctx \in Stream \cup {NoStream}
    /\ saved \in Stream \cup {NoStream}
    /\ acked \in Nat
    /\ mode \in FaultModes /\ faults \in Nat

(* Between calls the open database holds exactly what the prefix of the log *)
(* that Raft believes applied means, and d.lastApplied is the index stored  *)
(* in it: batches, restarts, replays and snapshot recoveries (Update, Open, *)
(* RecoverFromSnapshot) neither drop nor repeat an entry, and no client     *)
(* write to appliedIndexKey can mislead queryAppliedIndex.                  *)
ServesAppliedPrefix ==
    pc = "idle" =>
        /\ raftApplied \in DOMAIN hist
        /\ store[db] = hist[raftApplied]
        /\ lastApplied = queryAppliedIndex(store[db])

(* Once Update or RecoverFromSnapshot has returned, no restart opens a      *)
(* database that is behind what was reported to Raft, after kills or after  *)
(* power losses; a machine that suffers both may forget what it reported.   *)
AckedSurvives == pc = "idle" /\ mode # "both" => lastApplied >= acked

(* getCurrentDBDirName never meets a current file that fails its checksum:  *)
(* the content is synced before the rename (saveCurrentDBDirName).          *)
CurrentNeverTorn == pc # "panic_corrupt"

(* The assertions "lastApplied not moving forward" of Update and of         *)
(* RecoverFromSnapshot never fire.                                          *)
NeverBackward == pc # "panic_backward"

(* A snapshot is the store of the prefix Raft files it under, although      *)
(* Update ran between PrepareSnapshot and SaveSnapshot.                     *)
SnapshotFaithful ==
    saved # NoStream =>
        saved.idx \in DOMAIN hist /\ saved.store = hist[saved.idx]

(* After a call returns, the node directory holds the open database and no  *)
(* other: neither an aborted recovery nor a crash leaks a database for      *)
(* longer than until the next Open (cleanupNodeDataDir), and nothing        *)
(* removes the database in use.                                             *)
OnlyTheOpenDB == pc \in {"idle", "update", "applied"} => fs.dirs = {db} /\ fs.cur.name = db

(* "db dir unexpectedly deleted": when only processes die, a database that  *)
(* has reported an index to Raft is never missing at Open.                  *)
LostBeforeFirstAck == pc = "panic_missing" /\ mode = "kill" => acked = 0

(* A restart finds what the pointer that survives names: the synced one     *)
(* when only the power fails, the visible one when processes die.           *)
SurvivingPtr == IF mode = "power" THEN durable.cur.name ELSE fs.cur.name

(* On a new run the pointer precedes the database; until the process dies   *)
(* Open goes on to create it.                                               *)
DiskHolds(lost) ==
    CASE SurvivingPtr = NoDir -> EmptyStore
      [] SurvivingPtr \in fs.dirs -> store[SurvivingPtr]
      [] SurvivingPtr \notin fs.dirs /\ SurvivingPtr # NoDir ->
            IF db = NoDir /\ pc \in {"dirsync", "create"} THEN EmptyStore ELSE lost

(* DiskKV implements ReplicaState: kvdisk.go's files, read the way Open     *)
(* reads them, behave like a disk that moves forward along the log or is    *)
(* visibly lost, and falls back to a shorter prefix only when processes die *)
(* and the power fails.  NoDir stands for the lost disk.                    *)
Replica == INSTANCE ReplicaState WITH
    disk <- DiskHolds(NoDir), Lost <- NoDir,
    machine <- IF mode = "both" THEN "fickle" ELSE "steady"
ImplementsReplicaState == Replica!Spec
=============================================================================
