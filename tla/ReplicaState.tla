---------------------------- MODULE ReplicaState ----------------------------
(***************************************************************************)
(* What the Raft library may rely on from a replica's disk.  The disk      *)
(* always holds the store of some prefix of the log, or is visibly lost:   *)
(* it never turns into a foreign store.  An index is acknowledged only     *)
(* when the disk has it.  On a steady machine, where processes die or the  *)
(* power fails but not both, the disk only ever moves to a longer prefix   *)
(* and a lost one stays lost; on a fickle machine, where both happen, it   *)
(* may also fall back to a shorter one.                                    *)
(***************************************************************************)
EXTENDS Naturals

CONSTANTS Keys, appliedIndexKey, Nil, Lost

VARIABLES
    hist,   \* hist[n]: the store after the first n entries, n = 0, 1, ...
    disk,   \* what a restart would find: an element of hist, or Lost
    acked,  \* the last applied index reported to Raft
    machine \* "steady" or "fickle", for good

vars == <<hist, disk, acked, machine>>

EmptyStore == [k \in Keys |-> Nil]

AppliedIndex(s) ==
    IF s[appliedIndexKey] = Nil THEN 0 ELSE s[appliedIndexKey]

Init ==
    /\ hist = [n \in {0} |-> EmptyStore]
    /\ disk = EmptyStore
    /\ acked = 0
    /\ machine \in {"steady", "fickle"}

(* The log grows; what its prefixes mean does not change.                   *)
Extend ==
    /\ DOMAIN hist \subseteq DOMAIN hist'
    /\ \A n \in DOMAIN hist : hist'[n] = hist[n]
    /\ UNCHANGED <<disk, acked, machine>>

(* The disk moves to a longer prefix, or to the same one.                   *)
Advance ==
    /\ disk # Lost
    /\ disk' \in {hist[n] : n \in DOMAIN hist}
    /\ AppliedIndex(disk') >= AppliedIndex(disk)
    /\ UNCHANGED <<hist, acked, machine>>

(* The disk moves to any prefix, also after it was lost.                    *)
FallBack ==
    /\ machine = "fickle"
    /\ disk' \in {hist[n] : n \in DOMAIN hist}
    /\ UNCHANGED <<hist, acked, machine>>

(* An index the disk has reached is reported, a higher one than before      *)
(* unless the disk may have fallen back.                                    *)
Ack ==
    /\ disk # Lost
    /\ acked' > acked \/ machine = "fickle"
    /\ acked' <= AppliedIndex(disk)
    /\ UNCHANGED <<hist, disk, machine>>

(* The disk is gone.                                                        *)
Lose ==
    /\ disk' = Lost
    /\ UNCHANGED <<hist, acked, machine>>

Next == Extend \/ Advance \/ FallBack \/ Ack \/ Lose

Spec == Init /\ [][Next]_vars
=============================================================================
