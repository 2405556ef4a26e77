------------------------------ MODULE DbHandle ------------------------------
(***************************************************************************)
(* Readers of the state machine against Close and the database swap of     *)
(* RecoverFromSnapshot (roo/kvdisk.go).  A pebbledb handle is reached      *)
(* through the atomic pointer d.db; lookup() and scan() hold its RWMutex   *)
(* for reading while they use Pebble, close() holds it for writing while   *)
(* it closes Pebble, and ReverseScan uses Pebble without the mutex.        *)
(*                                                                         *)
(* Outside the repository: sync.RWMutex lets no new reader in while a      *)
(* writer waits, and lets the waiting writer in when the last reader       *)
(* leaves; a Pebble database used after db.Close() panics, which ends the  *)
(* goroutine of the query (and the process, where nothing recovers it);    *)
(* the Raft library serialises RecoverFromSnapshot and Close.              *)
(***************************************************************************)
EXTENDS Naturals, FiniteSets

CONSTANTS
    Readers,     \* concurrent calls of Lookup
    NoHandle,    \* the nil pointer, and "no handle" in a reader
    MaxHandles   \* bound: databases ever opened (1 + recoveries)

ASSUME HandlesAssumption == MaxHandles \in Nat \ {0}
ASSUME NoHandleAssumption == NoHandle \notin Nat

Handles == 1..MaxHandles

VARIABLES
    ptr,       \* d.db
    dclosed,   \* d.closed
    closed,    \* closed[h]: pebbledb.closed
    open,      \* open[h]: the Pebble database is open
    writer,    \* writer[h]: "none", "waiting" or "holding" the mutex
    rpc,       \* rpc[r]: the step a reader is at
    hd,        \* hd[r]: the handle it loaded
    fresh,     \* fresh[r]: no recovery or Close overlapped the call so far
    cpc,       \* the step RecoverFromSnapshot or Close is at
    victim     \* the handle it closes

vars == <<ptr, dclosed, closed, open, writer, rpc, hd, fresh, cpc, victim>>

readers == <<rpc, hd, fresh>>

Init ==
    /\ ptr = 1
    /\ dclosed = FALSE
    /\ closed = [h \in Handles |-> FALSE]
    /\ open = [h \in Handles |-> h = 1]
    /\ writer = [h \in Handles |-> "none"]
    /\ rpc = [r \in Readers |-> "idle"]
    /\ hd = [r \in Readers |-> NoHandle]
    /\ fresh = [r \in Readers |-> FALSE]
    /\ cpc = "idle"
    /\ victim = NoHandle

(* Readers that hold the mutex of h.                                        *)
Holders(h) == {r \in Readers : hd[r] = h /\ rpc[r] \in {"locked", "reading"}}

-----------------------------------------------------------------------------
(* Lookup: Get and Scan under the mutex, ReverseScan without it.            *)

(* A call starts with the load of d.db.  "get" stands for Get and Scan.     *)
Load(r, k) ==
    /\ rpc[r] = "idle"
    /\ ptr # NoHandle
    /\ hd' = [hd EXCEPT ![r] = ptr]
    /\ fresh' = [fresh EXCEPT ![r] = cpc = "idle"]
    /\ rpc' = [rpc EXCEPT ![r] = IF k = "reverse" THEN "unlocked" ELSE "lock"]
    /\ UNCHANGED <<ptr, dclosed, closed, open, writer, cpc, victim>>

RLock(r) ==
    /\ rpc[r] = "lock"
    /\ writer[hd[r]] = "none"
    /\ rpc' = [rpc EXCEPT ![r] = "locked"]
    /\ UNCHANGED <<ptr, dclosed, closed, open, writer, hd, fresh, cpc, victim>>

Return(r, outcome) ==
    /\ rpc' = [rpc EXCEPT ![r] = outcome]
    /\ hd' = [hd EXCEPT ![r] = NoHandle]
    /\ fresh' = [fresh EXCEPT ![r] = FALSE]

(* Mutant: lookup() does not look at r.closed.                              *)
CheckClosed_Skipped(r) ==
    /\ rpc[r] = "locked"
    /\ rpc' = [rpc EXCEPT ![r] = "reading"]
    /\ UNCHANGED <<ptr, dclosed, closed, open, writer, hd, fresh, cpc, victim>>

(* The closed check of lookup() and scan().  "refused" is the error "db     *)
(* already closed".                                                         *)
CheckClosed(r) ==
    /\ rpc[r] = "locked"
    /\ rpc' = [rpc EXCEPT ![r] = IF closed[hd[r]] THEN "refused" ELSE "reading"]
    /\ UNCHANGED <<ptr, dclosed, closed, open, writer, hd, fresh, cpc, victim>>

(* The caller gets the error.                                               *)
Refuse(r) ==
    /\ rpc[r] = "refused"
    /\ Return(r, "idle")
    /\ UNCHANGED <<ptr, dclosed, closed, open, writer, cpc, victim>>

(* Mutant: an early return keeps the mutex.                                 *)
Read_KeepsLock(r) ==
    /\ rpc[r] = "reading"
    /\ UNCHANGED vars

(* Pebble is read, the value copied, the mutex released.                    *)
Read(r) ==
    /\ rpc[r] = "reading"
    /\ rpc' = [rpc EXCEPT ![r] = IF open[hd[r]] THEN "check" ELSE "panicked"]
    /\ UNCHANGED <<ptr, dclosed, closed, open, writer, hd, fresh, cpc, victim>>

(* Get and Scan: a valid result when d.closed is set panics.                *)
CheckDiskClosed(r) ==
    /\ rpc[r] = "check"
    /\ Return(r, IF dclosed THEN "asserted" ELSE "idle")
    /\ UNCHANGED <<ptr, dclosed, closed, open, writer, cpc, victim>>

(* ReverseScan iterates over Pebble directly.                               *)
ReverseScan(r) ==
    /\ rpc[r] = "unlocked"
    /\ Return(r, IF open[hd[r]] THEN "idle" ELSE "panicked")
    /\ UNCHANGED <<ptr, dclosed, closed, open, writer, cpc, victim>>

-----------------------------------------------------------------------------
(* RecoverFromSnapshot and Close: swap the pointer, then close the handle   *)
(* that was swapped out.                                                    *)

(* Mutant: the pointer keeps naming the old database.                       *)
RecoverSwap_NoSwap(h) ==
    /\ cpc = "idle" /\ ~dclosed
    /\ ~open[h] /\ ~closed[h]
    /\ open' = [open EXCEPT ![h] = TRUE]
    /\ victim' = ptr
    /\ cpc' = "lock"
    /\ fresh' = [r \in Readers |-> FALSE]
    /\ UNCHANGED <<ptr, dclosed, closed, writer, rpc, hd>>

RecoverSwap(h) ==
    /\ cpc = "idle" /\ ~dclosed
    /\ ~open[h] /\ ~closed[h]
    /\ open' = [open EXCEPT ![h] = TRUE]
    /\ victim' = ptr
    /\ ptr' = h
    /\ cpc' = "lock"
    /\ fresh' = [r \in Readers |-> FALSE]
    /\ UNCHANGED <<dclosed, closed, writer, rpc, hd>>

(* Mutant: Close does not test the pointer it swapped out.                  *)
CloseSwap_NoNilCheck ==
    /\ cpc = "idle"
    /\ victim' = ptr
    /\ ptr' = NoHandle
    /\ cpc' = "flag"
    /\ fresh' = [r \in Readers |-> FALSE]
    /\ UNCHANGED <<dclosed, closed, open, writer, rpc, hd>>

CloseSwap ==
    /\ cpc = "idle" /\ ptr # NoHandle
    /\ victim' = ptr
    /\ ptr' = NoHandle
    /\ cpc' = "flag"
    /\ fresh' = [r \in Readers |-> FALSE]
    /\ UNCHANGED <<dclosed, closed, open, writer, rpc, hd>>

CloseFlag ==
    /\ cpc = "flag"
    /\ dclosed' = TRUE
    /\ cpc' = "lock"
    /\ UNCHANGED <<ptr, closed, open, writer, readers, victim>>

(* close(): r.mu.Lock() announces the writer ...                            *)
LockWait ==
    /\ cpc = "lock"
    /\ writer' = [writer EXCEPT ![victim] = "waiting"]
    /\ cpc' = "wait"
    /\ UNCHANGED <<ptr, dclosed, closed, open, readers, victim>>

(* ... and is granted when the last reader has left.                        *)
LockGranted ==
    /\ cpc = "wait"
    /\ Holders(victim) = {}
    /\ writer' = [writer EXCEPT ![victim] = "holding"]
    /\ closed' = [closed EXCEPT ![victim] = TRUE]
    /\ cpc' = "close"
    /\ UNCHANGED <<ptr, dclosed, open, readers, victim>>

(* db.Close(), Unlock, and the rest of the call.                            *)
CloseDB ==
    /\ cpc = "close"
    /\ open' = [open EXCEPT ![victim] = FALSE]
    /\ writer' = [writer EXCEPT ![victim] = "none"]
    /\ victim' = NoHandle
    /\ cpc' = "idle"
    /\ UNCHANGED <<ptr, dclosed, closed, readers>>

Stopped ==
    /\ ptr = NoHandle /\ cpc = "idle"
    /\ \A r \in Readers : rpc[r] \in {"idle", "panicked", "asserted"}
    /\ UNCHANGED vars

Reader(r) ==
    \/ RLock(r) \/ CheckClosed(r) \/ Refuse(r)
    \/ Read(r) \/ CheckDiskClosed(r) \/ ReverseScan(r)

Closer == CloseFlag \/ LockWait \/ LockGranted \/ CloseDB

Next ==
    \/ \E r \in Readers, k \in {"get", "reverse"} : Load(r, k)
    \/ \E r \in Readers : Reader(r)
    \/ \E h \in Handles : RecoverSwap(h)
    \/ CloseSwap
    \/ Closer
    \/ Stopped

Spec == Init /\ [][Next]_vars

(* Goroutines that can run do run; nothing forces new calls.                *)
FairSpec == Spec /\ (\A r \in Readers : WF_vars(Reader(r))) /\ WF_vars(Closer)

-----------------------------------------------------------------------------
(* Properties.                                                              *)

TypeOK ==
    /\ ptr \in Handles \cup {NoHandle}
    /\ dclosed \in BOOLEAN
    /\ closed \in [Handles -> BOOLEAN]
    /\ open \in [Handles -> BOOLEAN]
    /\ writer \in [Handles -> {"none", "waiting", "holding"}]
    /\ rpc \in [Readers -> {"idle", "lock", "locked", "refused", "reading", "check", "unlocked",
                       "panicked", "asserted"}]
    /\ hd \in [Readers -> Handles \cup {NoHandle}]
    /\ fresh \in [Readers -> BOOLEAN]
    /\ cpc \in {"idle", "flag", "lock", "wait", "close"}
    /\ IF cpc = "idle" THEN victim = NoHandle ELSE victim \in Handles

(* The mutex and the closed flag do their work: lookup() and scan() never   *)
(* touch a Pebble database that close() has closed, however their steps     *)
(* interleave with recoveries and with Close.                               *)
LockedReadSafe == \A r \in Readers : rpc[r] = "reading" => open[hd[r]]

(* A query that overlaps neither a recovery nor Close is not refused with   *)
(* "db already closed": what d.db names between calls is open.              *)
RefusedOnlyOnOverlap == \A r \in Readers : rpc[r] = "refused" => ~fresh[r]

(* A recovery or a Close that has swapped the pointer is not kept waiting   *)
(* by a stream of queries: it goes on to close the old database.            *)
CloseCompletes == cpc # "idle" ~> cpc = "idle"
=============================================================================
