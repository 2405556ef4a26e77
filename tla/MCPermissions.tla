---------------------------- MODULE MCPermissions ----------------------------
(* Constants for model checking Permissions: a user and a group, and a      *)
(* resource with two parts ("" and "/a").                                   *)
EXTENDS Permissions, TLC

CONSTANTS u, g, f, h, p1, p2

MCPermKeys ==
    { [ent |-> u, rune |-> f, ctx |-> "/a", act |-> NoAct],
      [ent |-> g, rune |-> f, ctx |-> "/", act |-> NoAct] }

(* Two requests with one cache key: they differ in the rune of the resource *)
(* and in the groups.                                                       *)
MCRequests ==
    { [user |-> u, ents |-> <<g, u>>, rune |-> f, res |-> "/a", act |-> NoAct, right |-> <<0, 4>>],
      [user |-> u, ents |-> <<>>, rune |-> h, res |-> "/a", act |-> NoAct, right |-> <<0, 4>>] }

Set(e, c, v) == [key |-> [ent |-> e, rune |-> f, ctx |-> c, act |-> NoAct], val |-> v]

(* The user's permission comes and goes; the group's, once given, stays.    *)
MCBatches ==
    { {Set(u, "/a", <<1>>), Set(g, "/", <<2, 4>>)},
      {Set(u, "/a", Nil)} }

MCSymmetry == Permutations({p1, p2})

MCUsers == {u}
MCPrefixUsers == u :> {u}
MCSubpaths == "/a" :> <<"", "/a">>
=============================================================================
