---- MODULE MCDiscovery ----
(* Three nodes that list each other, in different orders.  The clocks of   *)
(* n2 and n3 may agree; a process that is started again has a later time.  *)
EXTENDS Discovery, TLC

CONSTANTS n1, n2, n3

MCHosts == (n1 :> <<n2, n3>>) @@ (n2 :> <<n3, n1>>) @@ (n3 :> <<n1, n2>>)
MCClock(n, k) == IF k > 1 THEN {3 + k}
                 ELSE CASE n = n1 -> {1} [] n = n2 -> {2} [] n = n3 -> {2, 3}
====
