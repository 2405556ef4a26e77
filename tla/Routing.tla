------------------------------ MODULE Routing ------------------------------
(***************************************************************************)
(* Swarm, which writes routes to the store, and Proxy, which reads them:   *)
(* what a client is served while services are deployed and moved.          *)
(***************************************************************************)
EXTENDS Integers

CONSTANTS Origins, DestsOf(_), Deployed, NoDest, Nodes, Jobs, MaxDeploys, MaxFaults,
          Requests, Names, Prefixes,
          Host          \* the routed host

ASSUME RoutingAssumption ==
    /\ {MaxDeploys, MaxFaults} \subseteq Nat
    /\ Origins \subseteq [scheme : STRING, port : STRING]
    /\ Deployed \in [Origins -> SUBSET UNION {DestsOf(o) : o \in Origins}]
    /\ \A o \in Origins : NoDest \notin DestsOf(o) /\ Deployed[o] \subseteq DestsOf(o)
    /\ Host \in Prefixes /\ Prefixes \subseteq Names

VARIABLES routes, docker, deploys, booted, managers, tick, job, lost,
          proxies, fresh, req, known

(* What a client asks for to reach the origin o.                            *)
Url(o) == [scheme |-> IF o.scheme = "" THEN "https" ELSE o.scheme, port |-> o.port]
Urls == {Url(o) : o \in Origins}

S == INSTANCE Swarm
P == INSTANCE Proxy

swarmVars == <<docker, deploys, booted, managers, tick, job>>
proxyVars == <<proxies, fresh, req, known>>
vars == <<routes, lost, swarmVars, proxyVars>>

Init == S!Init /\ P!Init

Next ==
    \/ S!Next /\ UNCHANGED proxyVars
    \/ P!Next /\ UNCHANGED swarmVars

(* The leader's ticker, some goroutine and the clocks of the caches go on;  *)
(* nobody has to deploy, boot or ask, and a request may hang.               *)
Spec ==
    /\ Init /\ [][Next]_vars
    /\ WF_vars(S!Update /\ UNCHANGED proxyVars)
    /\ WF_vars((\E j \in Jobs : S!WriteJob(j)) /\ UNCHANGED proxyVars)
    /\ \A u \in Urls : WF_vars(P!Expire(P!RequestKey(u)) /\ UNCHANGED swarmVars)
    /\ \A n \in Names : WF_vars(P!Forget(n) /\ UNCHANGED swarmVars)

-----------------------------------------------------------------------------
(* What a request is or can be forwarded to was deployed for the scheme and *)
(* port it asked for: the keys of Route.GetKey and of Proxy() name the same *)
(* origin, and no interleaving of requests mixes them.                      *)
OriginKept ==
    \A r \in Requests : req[r].pc # "done" =>
        \E o \in Origins :
            Url(o) = req[r].url /\ {req[r].rp, req[r].dest} \subseteq DestsOf(o) \cup {NoDest}

(* Only a hostname that is in the store is accepted: HostPolicy with        *)
(* CheckHostnames is the option `to whitelist hostnames only in the store`. *)
OnlyStoredHosts ==
    \A n \in Names : known[n] = "yes" => n = Host

(* Once docker's tasks do not change any more, the key a client's request   *)
(* asks for holds the destination of one of the listed tasks, if any        *)
(* manager's role key was stored: goroutines of earlier updates may write   *)
(* after later ones, but no destination that is not listed any more stays.  *)
RoutesConverge ==
    <>[](managers = {} \/ \A o \in Origins :
            docker[o] # {} => routes[P!RequestKey(Url(o))] \in docker[o])

(* The destinations of the listed tasks that a request with key k may reach. *)
Listed(k) == UNION {docker[o] : o \in {p \in Origins : P!RequestKey(Url(p)) = k}}

(* And then a proxy that is served from the cache is the one of the store,  *)
(* or that of another listed task while the updates write them in turn: an  *)
(* entry that requests raced to replace does not stay (Proxies and          *)
(* ProxyCache).                                                             *)
ProxyConverges ==
    <>[](\A k \in fresh : proxies[k] \in {NoDest, routes[k]} \cup Listed(k))

(* A routed host is not refused for ever: that it was unknown, or that the  *)
(* scan failed, is forgotten (HostCache).                                   *)
HostConverges ==
    <>[](\A n \in Names : P!Found(n) => known[n] # "no")
=============================================================================
