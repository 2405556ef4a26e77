------------------------------- MODULE Proxy -------------------------------
(***************************************************************************)
(* One node's use of the routes: Proxy() of roo/proxy.go, with the map     *)
(* Proxies and ProxyCache in front of the store, and HostPolicy of         *)
(* roo/roo.go with HostCache.  Requests run at the same time, and the map  *)
(* is not locked.                                                          *)
(*                                                                         *)
(* Abstracted: requests for one host; a proxy is its destination.  The     *)
(* session exists (before that Proxy answers 425) and CheckHostnames is on *)
(* (otherwise every name is accepted).  A destination that does not parse  *)
(* is not modelled: routes are written by Swarm.                           *)
(***************************************************************************)
EXTENDS Integers

CONSTANTS
    Urls,       \* [scheme, port] of the requests that arrive
    NoDest,     \* no such key, no such entry
    Requests,   \* bound: requests at a time
    Names,      \* host names that HostPolicy is asked about
    Prefixes,   \* those of them that the routed host begins with, itself included
    MaxFaults   \* bound: failed scans, with the faults of Swarm

VARIABLES
    routes,     \* the store, shared with Swarm
    proxies,    \* Proxies: key -> destination
    fresh,      \* ProxyCache: the keys checked in the last minute
    req,        \* req[r]: a request
    known,      \* HostCache: name -> "yes", "no" or "none"
    lost        \* faults so far, shared with Swarm

DefaultPort(u) == <<u.scheme, u.port>> \in {<<"http", "80">>, <<"https", "443">>}

(* Mutant: the scheme of the request is not part of the key.                *)
RequestKey_NoScheme(u) == [scheme |-> "https", port |-> IF DefaultPort(u) THEN "" ELSE u.port]

(* HOST_PREFIX + r.Host + scheme: a client leaves its default port out of   *)
(* the Host header.                                                         *)
RequestKey(u) == [scheme |-> u.scheme, port |-> IF DefaultPort(u) THEN "" ELSE u.port]

Done == [pc |-> "done", url |-> CHOOSE u \in Urls : TRUE, rp |-> NoDest, dest |-> NoDest]

Init ==
    /\ proxies = [k \in DOMAIN routes |-> NoDest] /\ fresh = {}
    /\ req = [r \in Requests |-> Done]
    /\ known = [n \in Names |-> "none"]

hostVars == <<known, lost>>
Key(r) == RequestKey(req[r].url)
Goto(r, pc) == req' = [req EXCEPT ![r].pc = pc]
(* r is forwarded (to rp or dest) or answered 404.                          *)
Answer(r) == req' = [req EXCEPT ![r] = Done]

-----------------------------------------------------------------------------
(* Proxy.                                                                   *)

(* rp, exists := Proxies[requestKey].  A proxy that was checked lately is   *)
(* used at once, and nothing changes; otherwise rp is kept for later.       *)
Load(r, u) ==
    LET k == RequestKey(u)
    IN  /\ req[r].pc = "done" /\ ~(k \in fresh /\ proxies[k] # NoDest)
        /\ req' = [req EXCEPT ![r] = [pc |-> "get", url |-> u, rp |-> proxies[k], dest |-> NoDest]]
        /\ UNCHANGED <<routes, proxies, fresh, hostVars>>

(* The store is asked: an error and an empty value are a 404.               *)
Get(r) ==
    /\ req[r].pc = "get"
    /\ \/ Answer(r)
       \/ /\ routes[Key(r)] # NoDest
          /\ req' = [req EXCEPT ![r].pc = "compare", ![r].dest = routes[Key(r)]]
    /\ UNCHANGED <<routes, proxies, fresh, hostVars>>

(* Mutant: a proxy that exists is kept.                                     *)
Changed_Never(r) == FALSE

(* A proxy that was loaded and has changed is deleted; one that has not is  *)
(* confirmed and used.                                                      *)
Changed(r) == req[r].dest # req[r].rp

Compare(r) ==
    /\ req[r].pc = "compare"
    /\ \/ /\ req[r].rp = NoDest
          /\ Goto(r, "build") /\ UNCHANGED <<proxies, fresh>>
       \/ /\ req[r].rp # NoDest /\ Changed(r)
          /\ proxies' = [proxies EXCEPT ![Key(r)] = NoDest]
          /\ Goto(r, "build") /\ UNCHANGED fresh
       \/ /\ req[r].rp # NoDest /\ ~Changed(r)
          /\ fresh' = fresh \cup {Key(r)}
          /\ Answer(r) /\ UNCHANGED proxies
    /\ UNCHANGED <<routes, hostVars>>

Build(r) ==
    /\ req[r].pc = "build"
    /\ proxies' = [proxies EXCEPT ![Key(r)] = req[r].dest]
    /\ Goto(r, "set")
    /\ UNCHANGED <<routes, fresh, hostVars>>

(* ProxyCache.Set, and the request is forwarded.                            *)
Set(r) ==
    /\ req[r].pc = "set"
    /\ fresh' = fresh \cup {Key(r)}
    /\ Answer(r)
    /\ UNCHANGED <<routes, proxies, hostVars>>

(* A minute after it was set.                                               *)
Expire(k) ==
    /\ k \in fresh /\ fresh' = fresh \ {k}
    /\ UNCHANGED <<routes, proxies, req, hostVars>>

(* Two requests touch the map at once, one of them to write: the Go runtime *)
(* may end the process, which starts again with nothing.                    *)
Touches(r) == req[r].pc \in {"compare", "build"}
Fatal ==
    /\ \E r, s \in Requests : r # s /\ Touches(r) /\ (Touches(s) \/ req[s].pc = "done")
    /\ proxies' = [k \in DOMAIN proxies |-> NoDest] /\ fresh' = {}
    /\ req' = [r \in Requests |-> Done]
    /\ known' = [n \in Names |-> "none"]
    /\ UNCHANGED <<routes, lost>>

-----------------------------------------------------------------------------
(* HostPolicy, for names that HostCache does not answer for.                *)

(* A scan of the keys that begin with the name.                             *)
Found(n) == n \in Prefixes /\ \E k \in DOMAIN routes : routes[k] # NoDest

(* The scan and the entry it leaves are one step.  An error is remembered   *)
(* like a name that is not there.                                           *)
Scan(n) ==
    /\ known[n] = "none"
    /\ \/ known' = [known EXCEPT ![n] = IF Found(n) THEN "yes" ELSE "no"] /\ UNCHANGED lost
       \/ known' = [known EXCEPT ![n] = "no"] /\ lost < MaxFaults /\ lost' = lost + 1
    /\ UNCHANGED <<routes, proxies, fresh, req>>

(* Mutant: a refusal has no expiration.                                     *)
Forget_Accepted(n) ==
    /\ known[n] = "yes" /\ known' = [known EXCEPT ![n] = "none"]
    /\ UNCHANGED <<routes, proxies, fresh, req, lost>>

(* Four minutes later.                                                      *)
Forget(n) ==
    /\ known[n] # "none" /\ known' = [known EXCEPT ![n] = "none"]
    /\ UNCHANGED <<routes, proxies, fresh, req, lost>>

-----------------------------------------------------------------------------
Handle(r) == Get(r) \/ Compare(r) \/ Build(r) \/ Set(r)

Next ==
    \/ \E r \in Requests : Handle(r) \/ \E u \in Urls : Load(r, u)
    \/ Fatal
    \/ \E k \in DOMAIN proxies : Expire(k)
    \/ \E n \in Names : Scan(n) \/ Forget(n)
=============================================================================
