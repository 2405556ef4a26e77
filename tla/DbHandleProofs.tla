--------------------------- MODULE DbHandleProofs ---------------------------
(***************************************************************************)
(* Proofs about DbHandle, for any number of concurrent queries and of      *)
(* recoveries: type correctness, and that the mutex, the closed flag and   *)
(* the swap of d.db protect Get and Scan.                                  *)
(***************************************************************************)
EXTENDS DbHandle, TLAPS

Using == {"lock", "locked", "refused", "reading", "check", "unlocked"}

(* What d.db names is open and not marked closed; it names nothing only     *)
(* after Close, whose flag keeps RecoverFromSnapshot out.                   *)
PtrInv ==
    /\ ptr # NoHandle => open[ptr] /\ ~closed[ptr]
    /\ ptr = NoHandle => dclosed \/ cpc = "flag"

(* The handle being closed has left d.db; it is open until CloseDB, marked  *)
(* closed from the grant of the mutex on, and nobody reads it while the     *)
(* mutex is held for writing.                                               *)
VictimInv ==
    cpc # "idle" =>
        /\ victim # ptr /\ open[victim]
        /\ closed[victim] <=> cpc = "close"
        /\ cpc = "wait" => writer[victim] = "waiting"
        /\ cpc = "close" => writer[victim] = "holding" /\ Holders(victim) = {}

(* A query holds a handle that is open or marked closed; it reads from an   *)
(* open one; and as long as nothing overlapped it, it holds what d.db names.*)
ReaderInv ==
    \A r \in Readers :
        /\ rpc[r] \in Using => hd[r] \in Handles
        /\ hd[r] # NoHandle => open[hd[r]] \/ closed[hd[r]]
        /\ rpc[r] = "reading" => open[hd[r]]
        /\ fresh[r] => cpc = "idle" /\ hd[r] = ptr /\ hd[r] # NoHandle
        /\ rpc[r] = "refused" => ~fresh[r]

IInv == TypeOK /\ PtrInv /\ VictimInv /\ ReaderInv

-----------------------------------------------------------------------------
(* NoHandle is no handle, and the database Open made is one. *)
LEMMA NoHandleFact == NoHandle \notin Handles /\ 1 \in Handles
BY NoHandleAssumption, HandlesAssumption DEF Handles

(* The initial states satisfy IInv. *)
LEMMA InitIInv == Init => IInv
<1> SUFFICES ASSUME Init PROVE IInv
  OBVIOUS
<1>1. TypeOK
  BY NoHandleFact DEF Init, TypeOK
<1>2. PtrInv /\ VictimInv
  BY NoHandleFact DEF Init, PtrInv, VictimInv
<1>3. ReaderInv
  BY NoHandleFact DEF Init, ReaderInv, Using
<1> QED
  BY <1>1, <1>2, <1>3 DEF IInv

(* The steps of a query change nothing but its own record.                  *)
LEMMA QueryStep ==
    ASSUME IInv, NEW r \in Readers, Reader(r) \/ \E k \in {"get", "reverse"} : Load(r, k)
    PROVE  IInv'
<1> USE NoHandleFact DEF IInv
<1>1. CASE \E k \in {"get", "reverse"} : Load(r, k)
  <2>1. TypeOK'
    BY <1>1 DEF TypeOK, Load
  <2>2. PtrInv' /\ VictimInv'
    BY <1>1 DEF TypeOK, PtrInv, VictimInv, Load, Holders
  <2>3. ReaderInv'
    BY <1>1 DEF TypeOK, PtrInv, ReaderInv, Using, Load
  <2> QED
    BY <2>1, <2>2, <2>3
<1>2. CASE RLock(r)
  <2>1. TypeOK'
    BY <1>2 DEF TypeOK, RLock
  <2>2. PtrInv' /\ VictimInv'
    BY <1>2 DEF TypeOK, PtrInv, VictimInv, RLock, Holders
  <2>3. ReaderInv'
    BY <1>2 DEF TypeOK, ReaderInv, Using, RLock
  <2> QED
    BY <2>1, <2>2, <2>3
<1>3. CASE CheckClosed(r)
  <2>1. TypeOK'
    BY <1>3 DEF TypeOK, CheckClosed
  <2>2. PtrInv' /\ VictimInv'
    BY <1>3 DEF TypeOK, PtrInv, VictimInv, CheckClosed, Holders
  <2>3. ReaderInv'
    BY <1>3 DEF TypeOK, PtrInv, ReaderInv, Using, CheckClosed
  <2> QED
    BY <2>1, <2>2, <2>3
<1>4. CASE Refuse(r) \/ CheckDiskClosed(r) \/ ReverseScan(r)
  <2>1. PICK out \in {"idle", "panicked", "asserted"} :
            Return(r, out) /\ UNCHANGED <<ptr, dclosed, closed, open, writer, cpc, victim>>
    BY <1>4 DEF Refuse, CheckDiskClosed, ReverseScan
  <2>2. TypeOK'
    BY <2>1 DEF TypeOK, Return
  <2>3. PtrInv' /\ VictimInv'
    BY <2>1 DEF TypeOK, PtrInv, VictimInv, Return, Holders
  <2>4. ReaderInv'
    BY <2>1 DEF TypeOK, ReaderInv, Using, Return
  <2> QED
    BY <2>2, <2>3, <2>4
<1>5. CASE Read(r)
  <2>1. TypeOK'
    BY <1>5 DEF TypeOK, Read
  <2>2. PtrInv' /\ VictimInv'
    BY <1>5 DEF TypeOK, PtrInv, VictimInv, Read, Holders
  <2>3. ReaderInv'
    BY <1>5 DEF TypeOK, ReaderInv, Using, Read
  <2> QED
    BY <2>1, <2>2, <2>3
<1> QED
  BY <1>1, <1>2, <1>3, <1>4, <1>5 DEF Reader

(* The swap of d.db: what it named becomes the handle to close.             *)
LEMMA SwapStep ==
    ASSUME IInv, CloseSwap \/ \E h \in Handles : RecoverSwap(h)
    PROVE  IInv'
<1> USE NoHandleFact DEF IInv
<1>1. CASE CloseSwap
  <2>1. TypeOK'
    BY <1>1 DEF TypeOK, CloseSwap
  <2>2. PtrInv' /\ VictimInv'
    BY <1>1 DEF TypeOK, PtrInv, VictimInv, CloseSwap
  <2>3. ReaderInv'
    BY <1>1 DEF TypeOK, ReaderInv, CloseSwap
  <2> QED
    BY <2>1, <2>2, <2>3
<1>2. ASSUME NEW h \in Handles, RecoverSwap(h)
      PROVE  IInv'
  <2>1. TypeOK'
    <3>1. ptr \in Handles
      BY <1>2 DEF TypeOK, PtrInv, RecoverSwap
    <3> QED
      BY <1>2, <3>1 DEF TypeOK, RecoverSwap
  <2>2. PtrInv' /\ VictimInv'
    BY <1>2 DEF TypeOK, PtrInv, VictimInv, RecoverSwap
  <2>3. ReaderInv'
    BY <1>2 DEF TypeOK, ReaderInv, RecoverSwap
  <2> QED
    BY <2>1, <2>2, <2>3
<1> QED
  BY <1>1, <1>2

(* close() of the handle that was swapped out.                              *)
LEMMA CloserStep ==
    ASSUME IInv, Closer
    PROVE  IInv'
<1> USE NoHandleFact DEF IInv, readers
<1>1. CASE CloseFlag
  BY <1>1 DEF TypeOK, PtrInv, VictimInv, ReaderInv, CloseFlag, Holders
<1>2. CASE LockWait
  BY <1>2 DEF TypeOK, PtrInv, VictimInv, ReaderInv, LockWait, Holders
<1>3. CASE LockGranted
  BY <1>3 DEF TypeOK, PtrInv, VictimInv, ReaderInv, LockGranted, Holders
<1>4. CASE CloseDB
  <2>1. TypeOK' /\ PtrInv' /\ VictimInv'
    BY <1>4 DEF TypeOK, PtrInv, VictimInv, CloseDB
  <2>2. closed[victim]
    BY <1>4 DEF TypeOK, PtrInv, VictimInv, CloseDB
  <2>3. ReaderInv'
    BY <1>4, <2>2 DEF TypeOK, VictimInv, ReaderInv, CloseDB, Holders
  <2> QED
    BY <2>1, <2>3
<1> QED
  BY <1>1, <1>2, <1>3, <1>4 DEF Closer

(* IInv is kept by stuttering. *)
LEMMA StutterStep ==
    ASSUME IInv, UNCHANGED vars
    PROVE  IInv'
BY DEF IInv, vars, TypeOK, PtrInv, VictimInv, ReaderInv, Holders

(* Every step keeps IInv. *)
LEMMA NextIInv == IInv /\ [Next]_vars => IInv'
<1> SUFFICES ASSUME IInv, [Next]_vars
             PROVE  IInv'
  OBVIOUS
<1>1. CASE \E r \in Readers : Reader(r) \/ \E k \in {"get", "reverse"} : Load(r, k)
  BY <1>1, QueryStep
<1>2. CASE CloseSwap \/ \E h \in Handles : RecoverSwap(h)
  BY <1>2, SwapStep
<1>3. CASE Closer
  BY <1>3, CloserStep
<1>4. CASE Stopped \/ UNCHANGED vars
  BY <1>4, StutterStep DEF Stopped
<1> QED
  BY <1>1, <1>2, <1>3, <1>4 DEF Next

-----------------------------------------------------------------------------
(* IInv holds always.                                                       *)
LEMMA AlwaysIInv == Spec => []IInv
BY InitIInv, NextIInv, PTL DEF Spec

(* The state of the handles, of the mutexes and of the queries is always of *)
(* its kind: there is a handle to close exactly while RecoverFromSnapshot   *)
(* or Close runs.                                                           *)
THEOREM TypeCorrect == Spec => []TypeOK
<1>1. IInv => TypeOK
  BY DEF IInv
<1> QED
  BY AlwaysIInv, <1>1, PTL

(* lookup() and scan() never read a Pebble database that close() has        *)
(* closed, for any number of queries, recoveries and interleavings.         *)
THEOREM LockedReadsAreSafe == Spec => []LockedReadSafe
<1>1. IInv => LockedReadSafe
  BY DEF IInv, ReaderInv, LockedReadSafe
<1> QED
  BY AlwaysIInv, <1>1, PTL

(* A query is refused with "db already closed" only if a recovery or Close  *)
(* overlapped it: what d.db names between calls is never a closed handle.   *)
THEOREM OnlyOverlapRefuses == Spec => []RefusedOnlyOnOverlap
<1>1. IInv => RefusedOnlyOnOverlap
  BY DEF IInv, ReaderInv, RefusedOnlyOnOverlap
<1> QED
  BY AlwaysIInv, <1>1, PTL

(* The handle that a recovery or Close has swapped out cannot be loaded any *)
(* more, is open and not yet marked closed until the mutex is granted, and  *)
(* has no reader when db.Close() runs.                                      *)
CloseOnce ==
    /\ cpc \in {"flag", "lock", "wait"} => open[victim] /\ ~closed[victim] /\ victim # ptr
    /\ cpc = "close" => open[victim] /\ Holders(victim) = {}

(* close() closes every Pebble database at most once, and alone: never one  *)
(* that a new query can still load or that another query holds.             *)
THEOREM ClosesOnceAlone == Spec => []CloseOnce
<1>1. IInv => CloseOnce
  BY DEF IInv, VictimInv, CloseOnce
<1> QED
  BY AlwaysIInv, <1>1, PTL
=============================================================================
