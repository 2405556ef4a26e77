---- MODULE MCRouting ----
(* One host with a secured origin, whose port is written out, and a plain  *)
(* one, which is not deployed at first.                                    *)
EXTENDS Routing

Secure == [scheme |-> "", port |-> "443"]
Plain == [scheme |-> "http", port |-> ""]
MCOrigins == {Secure, Plain}
MCDestsOf(o) == IF o = Secure THEN {"x", "y"} ELSE {"z"}
MCDeployed == [o \in MCOrigins |-> IF o = Secure THEN {"x"} ELSE {}]
====
