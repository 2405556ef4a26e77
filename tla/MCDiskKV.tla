------------------------------ MODULE MCDiskKV ------------------------------
(* Constants for model checking DiskKV.                                     *)
EXTENDS DiskKV, TLC

CONSTANTS d1, d2, d3, k

(* A put, a delete that also writes over the applied index, an entry        *)
(* without a key, and an entry Raft keeps.                                  *)
MCCmds ==
    { [kind |-> "sm", set |-> (k :> 7)],
      [kind |-> "sm", set |-> (k :> Nil @@ appliedIndexKey :> 7)],
      [kind |-> "sm", set |-> <<>>],
      [kind |-> "raft", set |-> <<>>] }

MCKeys == {k, appliedIndexKey}
MCSymmetry == Permutations({d1, d2, d3})
=============================================================================
