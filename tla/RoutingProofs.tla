--------------------------- MODULE RoutingProofs ---------------------------
(***************************************************************************)
(* Proofs about Routing, for any origins, nodes, goroutines, requests and  *)
(* faults: what a request can be forwarded to.                             *)
(***************************************************************************)
EXTENDS Routing, TLAPS

(* What the key k may name: a destination of an origin with that key.       *)
Backing(k) == {NoDest} \cup UNION {DestsOf(o) : o \in {x \in Origins : S!GetKey(x) = k}}

Dests == {NoDest} \cup UNION {DestsOf(o) : o \in Origins}

(* The tasks, the routes that goroutines have still to write, the store.    *)
SwarmInv ==
    /\ docker \in [Origins -> SUBSET Dests] /\ \A o \in Origins : docker[o] \subseteq DestsOf(o)
    /\ job \in [Jobs -> SUBSET (Origins \X Dests)]
    /\ \A j \in Jobs : \A o \in Origins, d \in Dests : <<o, d>> \in job[j] => d \in DestsOf(o)
    /\ routes \in [S!Keys -> Dests] /\ \A k \in S!Keys : routes[k] \in Backing(k)

PCs == {"done", "get", "compare", "build", "set"}

(* The map Proxies, and what the requests hold.                             *)
ProxyInv ==
    /\ proxies \in [S!Keys -> Dests] /\ \A k \in S!Keys : proxies[k] \in Backing(k)
    /\ \A r \in Requests : req[r].pc # "done" =>
          /\ req[r].url \in Urls
          /\ {req[r].rp, req[r].dest} \subseteq Backing(P!RequestKey(req[r].url))
    /\ \A r \in Requests : req[r].pc \in {"compare", "build", "set"} => req[r].dest # NoDest

Requested == req \in [Requests -> [pc : PCs, url : {P!Done.url} \cup Urls, rp : Dests, dest : Dests]]

IInv == SwarmInv /\ Requested /\ ProxyInv

-----------------------------------------------------------------------------
(* Keys.                                                                    *)

(* The key of an origin is one of the keys. *)
LEMMA KeyOfOrigin ==
    ASSUME NEW o \in Origins
    PROVE  S!GetKey(o) \in S!Keys
BY DEF S!GetKey, S!Keys

(* The key of a request for a known origin is a key of the store.           *)
LEMMA KeyOfRequest ==
    ASSUME NEW u \in Urls
    PROVE  P!RequestKey(u) \in S!Keys
<1>1. PICK o \in Origins : u = Url(o)
  BY DEF Urls
<1>2. o \in [scheme : STRING, port : STRING]
  BY RoutingAssumption
<1>3. S!WithScheme(o) = u
  <2>1. CASE o.scheme = ""
    <3>1. u = [scheme |-> "https", port |-> o.port] /\ S!WithScheme(o) = [o EXCEPT !.scheme = "https"]
      BY <1>1, <2>1 DEF S!WithScheme, Url
    <3> QED
      BY <1>2, <3>1
  <2>2. CASE o.scheme # ""
    BY <1>1, <1>2, <2>2 DEF S!WithScheme, Url
  <2> QED
    BY <2>1, <2>2
<1>4. u = [scheme |-> u.scheme, port |-> u.port]
  BY <1>1 DEF Url
<1>5. CASE P!DefaultPort(u)
  <2>1. <<u.scheme, u.port>> \in S!DefaultPorts
    BY <1>5 DEF P!DefaultPort, S!DefaultPorts
  <2>2. P!RequestKey(u) = S!WithoutPort(u)
    BY <1>4, <1>5, <2>1 DEF P!RequestKey, S!WithoutPort
  <2> QED
    BY <1>3, <2>2 DEF S!Keys
<1>6. CASE ~P!DefaultPort(u)
  <2>1. P!RequestKey(u) = u
    BY <1>4, <1>6 DEF P!RequestKey
  <2> QED
    BY <1>3, <2>1 DEF S!Keys
<1> QED
  BY <1>5, <1>6

(* What may stand under a key. *)
LEMMA BackingFacts ==
    ASSUME NEW k
    PROVE  /\ NoDest \in Backing(k) /\ Backing(k) \subseteq Dests
           /\ \A o \in Origins : S!GetKey(o) = k => DestsOf(o) \subseteq Backing(k)
BY DEF Backing, Dests

-----------------------------------------------------------------------------
(* The initial states satisfy IInv. *)
LEMMA InitIInv == Init => IInv
<1> SUFFICES ASSUME Init PROVE IInv
  OBVIOUS
<1>1. SwarmInv
  BY RoutingAssumption, BackingFacts DEF Init, S!Init, SwarmInv, Dests
<1>2. Requested
  <2>1. P!Done \in [pc : PCs, url : {P!Done.url} \cup Urls, rp : Dests, dest : Dests]
    BY DEF P!Done, PCs, Dests
  <2> QED
    BY <2>1 DEF Init, P!Init, Requested
<1>3. ProxyInv
  <2>1. DOMAIN routes = S!Keys
    BY DEF Init, S!Init
  <2>2. proxies = [k \in S!Keys |-> NoDest] /\ \A r \in Requests : req[r].pc = "done"
    BY <2>1 DEF Init, P!Init, P!Done
  <2> QED
    BY <2>2, BackingFacts DEF ProxyInv, Dests
<1> QED
  BY <1>1, <1>2, <1>3 DEF IInv

(* An update takes the destinations of the listed tasks.                    *)
LEMMA ListedTasks ==
    ASSUME SwarmInv
    PROVE  /\ S!GetDockerRoutes \in SUBSET (Origins \X Dests)
           /\ \A o \in Origins, d \in Dests :
                 <<o, d>> \in S!GetDockerRoutes => d \in DestsOf(o)
BY DEF SwarmInv, S!GetDockerRoutes

(* What Swarm does leaves the proxies and the requests alone.               *)
LEMMA SwarmStep ==
    ASSUME IInv, S!Next, UNCHANGED proxyVars
    PROVE  IInv'
<1> USE DEF IInv, proxyVars
<1>1. CASE \E o \in Origins : S!Deploy(o)
  <2>0. PICK o \in Origins : S!Deploy(o)
    BY <1>1
  <2>1. PICK D \in SUBSET DestsOf(o) :
            docker' = [docker EXCEPT ![o] = D] /\ UNCHANGED <<routes, job>>
    BY <2>0 DEF S!Deploy
  <2>2. D \in SUBSET Dests
    BY <2>1 DEF Dests
  <2> QED
    BY <2>1, <2>2 DEF SwarmInv, Requested, ProxyInv
<1>2. CASE \/ S!Tick
           \/ \E n \in Nodes : S!Boot(n) \/ S!Post(n)
  <2>1. UNCHANGED <<routes, docker>>
        /\ (job' = job \/ \E j \in Jobs : job' = [job EXCEPT ![j] = S!GetDockerRoutes])
    BY <1>2 DEF S!Tick, S!Boot, S!Post, S!Spawn
  <2> QED
    BY <2>1, ListedTasks DEF SwarmInv, Requested, ProxyInv
<1>3. ASSUME NEW j \in Jobs, NEW o \in Origins, NEW d \in DestsOf(o), S!Write(j, o, d)
      PROVE  IInv'
  <2>1. UNCHANGED docker /\ job' = [job EXCEPT ![j] = @ \ {<<o, d>>}]
    BY <1>3 DEF S!Write
  <2>2. job' \in [Jobs -> SUBSET (Origins \X Dests)] /\ \A i \in Jobs : job'[i] \subseteq job[i]
    BY <2>1 DEF SwarmInv
  <2>3. routes' = routes \/ routes' = [routes EXCEPT ![S!GetKey(o)] = d]
    BY <1>3 DEF S!Write
  <2>4. d \in Backing(S!GetKey(o)) /\ S!GetKey(o) \in S!Keys
    BY BackingFacts, KeyOfOrigin
  <2>5. routes' \in [S!Keys -> Dests] /\ \A k \in S!Keys : routes'[k] \in Backing(k)
    BY <2>3, <2>4, BackingFacts DEF SwarmInv
  <2>6. SwarmInv'
    BY <2>1, <2>2, <2>5 DEF SwarmInv
  <2>7. Requested' /\ ProxyInv'
    BY DEF Requested, ProxyInv
  <2> QED
    BY <2>6, <2>7
<1> QED
  BY <1>1, <1>2, <1>3 DEF S!Next, S!Update, S!WriteJob

(* A request changes its own record, and the map at its own key.            *)
LEMMA RequestStep ==
    ASSUME IInv, NEW r \in Requests,
           NEW q \in [pc : PCs, url : {P!Done.url} \cup Urls, rp : Dests, dest : Dests],
           req' = [req EXCEPT ![r] = q],
           q.pc # "done" => q.url \in Urls /\ {q.rp, q.dest} \subseteq Backing(P!RequestKey(q.url)),
           q.pc \in {"compare", "build", "set"} => q.dest # NoDest,
           \/ proxies' = proxies
           \/ \E k \in S!Keys : \E d \in Backing(k) : proxies' = [proxies EXCEPT ![k] = d],
           UNCHANGED <<routes, swarmVars>>
    PROVE  IInv'
<1> USE DEF IInv, swarmVars
<1>1. SwarmInv'
  BY DEF SwarmInv
<1>2. Requested' /\ req'[r] = q /\ \A x \in Requests \ {r} : req'[x] = req[x]
  BY DEF Requested
<1>3. proxies' \in [S!Keys -> Dests] /\ \A k \in S!Keys : proxies'[k] \in Backing(k)
  BY BackingFacts DEF ProxyInv
<1>4. ProxyInv'
  BY <1>2, <1>3 DEF ProxyInv
<1> QED
  BY <1>1, <1>2, <1>4

(* A request that is over. *)
LEMMA DoneRecord ==
    /\ P!Done \in [pc : PCs, url : {P!Done.url} \cup Urls, rp : Dests, dest : Dests]
    /\ P!Done.pc = "done"
BY DEF P!Done, PCs, Dests

(* IInv is kept by Handle. *)
LEMMA HandleStep ==
    ASSUME IInv, NEW r \in Requests, P!Handle(r), UNCHANGED swarmVars
    PROVE  IInv'
<1> USE DEF IInv
<1> DEFINE R == [pc : PCs, url : {P!Done.url} \cup Urls, rp : Dests, dest : Dests]
           k == P!RequestKey(req[r].url)
<1>0. UNCHANGED routes /\ req[r].pc # "done"
  BY DEF P!Handle, P!Get, P!Compare, P!Build, P!Set
<1>1. /\ req[r] \in R /\ req[r].url \in Urls
      /\ {req[r].rp, req[r].dest} \subseteq Backing(k) /\ k \in S!Keys
  BY <1>0, KeyOfRequest DEF Requested, ProxyInv
<1>2. req' = [req EXCEPT ![r] = P!Done] /\ proxies' = proxies => IInv'
  BY <1>0, DoneRecord, RequestStep
<1>3. ASSUME NEW pc \in {"build", "set"}, P!Goto(r, pc), req[r].dest # NoDest,
             \/ proxies' = proxies
             \/ \E x \in S!Keys : \E d \in Backing(x) : proxies' = [proxies EXCEPT ![x] = d]
      PROVE  IInv'
  <2> DEFINE q == [req[r] EXCEPT !.pc = pc]
  <2>1. q \in R /\ q.pc = pc /\ q.url = req[r].url /\ q.rp = req[r].rp /\ q.dest = req[r].dest
    BY <1>1, <1>3 DEF PCs
  <2>2. req' = [req EXCEPT ![r] = q]
    BY <1>3 DEF P!Goto
  <2> HIDE DEF q
  <2> QED
    BY <1>0, <1>1, <1>3, <2>1, <2>2, RequestStep
<1>4. CASE P!Get(r)
  <2>1. CASE P!Answer(r)
    BY <1>2, <1>4, <2>1 DEF P!Get, P!Answer
  <2>2. CASE routes[k] # NoDest /\ req' = [req EXCEPT ![r].pc = "compare", ![r].dest = routes[k]]
    <3> DEFINE q == [[req[r] EXCEPT !.pc = "compare"] EXCEPT !.dest = routes[k]]
    <3>0. routes[k] \in Backing(k) /\ routes[k] \in Dests
      BY <1>1 DEF SwarmInv
    <3>1. /\ q \in R /\ q.pc = "compare" /\ q.url = req[r].url /\ q.rp = req[r].rp
          /\ q.dest = routes[k]
      BY <1>1, <3>0 DEF PCs
    <3>2. req' = [req EXCEPT ![r] = q] /\ proxies' = proxies
      BY <1>4, <2>2 DEF P!Get
    <3>3. q.url \in Urls /\ {q.rp, q.dest} \subseteq Backing(P!RequestKey(q.url)) /\ q.dest # NoDest
      BY <1>1, <2>2, <3>0, <3>1
    <3> HIDE DEF q, k
    <3> QED
      BY <1>0, <3>1, <3>2, <3>3, RequestStep
  <2> QED
    BY <1>4, <2>1, <2>2 DEF P!Get, P!Key
<1>5. CASE P!Compare(r)
  <2>0. req[r].dest # NoDest
    BY <1>5 DEF P!Compare, ProxyInv
  <2>1. CASE P!Goto(r, "build")
    <3>1. proxies' = proxies \/ proxies' = [proxies EXCEPT ![k] = NoDest]
      BY <1>5 DEF P!Compare, P!Key
    <3> QED
      BY <1>1, <1>3, <2>0, <2>1, <3>1, BackingFacts
  <2>2. CASE P!Answer(r) /\ proxies' = proxies
    BY <1>2, <2>2 DEF P!Answer
  <2> QED
    BY <1>5, <2>1, <2>2 DEF P!Compare
<1>6. CASE P!Build(r)
  <2>1. proxies' = [proxies EXCEPT ![k] = req[r].dest] /\ P!Goto(r, "set") /\ req[r].dest # NoDest
    BY <1>6 DEF P!Build, P!Key, ProxyInv
  <2> QED
    BY <1>1, <1>3, <2>1
<1>7. CASE P!Set(r)
  BY <1>2, <1>7 DEF P!Set, P!Answer
<1> QED
  BY <1>4, <1>5, <1>6, <1>7 DEF P!Handle

(* IInv is kept by Load. *)
LEMMA LoadStep ==
    ASSUME IInv, NEW r \in Requests, NEW u \in Urls, P!Load(r, u), UNCHANGED swarmVars
    PROVE  IInv'
<1> USE DEF IInv
<1> DEFINE k == P!RequestKey(u)
           q == [pc |-> "get", url |-> u, rp |-> proxies[k], dest |-> NoDest]
<1>1. proxies[k] \in Backing(k) /\ proxies[k] \in Dests
  BY KeyOfRequest DEF ProxyInv
<1>2. /\ q \in [pc : PCs, url : {P!Done.url} \cup Urls, rp : Dests, dest : Dests]
      /\ q.pc = "get" /\ q.url = u /\ q.rp = proxies[k] /\ q.dest = NoDest
  BY <1>1 DEF PCs, Dests
<1>3. req' = [req EXCEPT ![r] = q] /\ UNCHANGED <<routes, proxies>>
  BY DEF P!Load
<1> HIDE DEF q
<1> QED
  BY <1>1, <1>2, <1>3, RequestStep, BackingFacts

(* The caches: entries expire, the process starts again with nothing, and   *)
(* HostPolicy scans and forgets.                                            *)
LEMMA CacheStep ==
    ASSUME IInv, UNCHANGED swarmVars,
           \/ P!Fatal
           \/ \E k \in DOMAIN proxies : P!Expire(k)
           \/ \E n \in Names : P!Scan(n) \/ P!Forget(n)
    PROVE  IInv'
<1> USE DEF IInv, swarmVars
<1>1. UNCHANGED routes /\ SwarmInv'
  BY DEF P!Fatal, P!Expire, P!Scan, P!Forget, SwarmInv
<1>2. CASE P!Fatal
  <2>1. /\ proxies' = [k \in S!Keys |-> NoDest] /\ req' = [r \in Requests |-> P!Done]
    BY <1>2 DEF P!Fatal, ProxyInv
  <2>2. Requested'
    BY <2>1, DoneRecord DEF Requested
  <2>3. ProxyInv'
    BY <2>1, DoneRecord, BackingFacts DEF ProxyInv, Dests
  <2> QED
    BY <1>1, <2>2, <2>3
<1>3. CASE \E k \in DOMAIN proxies : P!Expire(k)
  <2>1. UNCHANGED <<proxies, req>>
    BY <1>3 DEF P!Expire
  <2> QED
    BY <1>1, <2>1 DEF Requested, ProxyInv
<1>4. ASSUME NEW n \in Names, P!Scan(n) \/ P!Forget(n)
      PROVE  IInv'
  <2>1. UNCHANGED <<proxies, req>> /\ Requested' /\ ProxyInv'
    BY <1>4 DEF P!Scan, P!Forget, Requested, ProxyInv
  <2> QED
    BY <1>1, <2>1
<1> QED
  BY <1>2, <1>3, <1>4

(* Every step keeps IInv. *)
LEMMA NextIInv == IInv /\ [Next]_vars => IInv'
<1> SUFFICES ASSUME IInv, [Next]_vars
             PROVE  IInv'
  OBVIOUS
<1>1. CASE S!Next /\ UNCHANGED proxyVars
  BY <1>1, SwarmStep
<1>2. CASE P!Next /\ UNCHANGED swarmVars
  BY <1>2, HandleStep, LoadStep, CacheStep DEF P!Next
<1>3. CASE UNCHANGED vars
  BY <1>3 DEF vars, swarmVars, proxyVars, IInv, SwarmInv, Requested, ProxyInv
<1> QED
  BY <1>1, <1>2, <1>3 DEF Next

(* IInv is an invariant. *)
LEMMA AlwaysIInv == Spec => []IInv
BY InitIInv, NextIInv, PTL DEF Spec

-----------------------------------------------------------------------------
(* What a running request was given by the map or by the store was deployed *)
(* under the key it asks for, whoever wrote the map meanwhile.              *)
KeyKept ==
    \A r \in Requests : req[r].pc # "done" =>
        \A d \in {req[r].rp, req[r].dest} \ {NoDest} :
            \E o \in Origins : d \in DestsOf(o) /\ S!GetKey(o) = P!RequestKey(req[r].url)

(* Proxy() forwards a request only to what Route.GetKey stored under the    *)
(* request's own key, for any labels, even ones that share a key.           *)
THEOREM RequestsKeepTheirKey == Spec => []KeyKept
<1>1. IInv => KeyKept
  BY DEF IInv, ProxyInv, KeyKept, Backing
<1> QED
  BY AlwaysIInv, <1>1, PTL

(* No two origins of the host have one key.                                 *)
DistinctOrigins ==
    \A o, q \in Origins : S!GetKey(o) = P!RequestKey(Url(q)) => o = q

(* Where no two origins have one key, a request is forwarded only to what   *)
(* was deployed for the scheme and port it asked for, although the scheme   *)
(* and the default port are normalised by two different functions           *)
(* (Route.GetKey and Proxy()).                                              *)
THEOREM OriginsAreKept == ASSUME DistinctOrigins PROVE Spec => []OriginKept
<1>1. IInv => OriginKept
  <2> SUFFICES ASSUME IInv, NEW r \in Requests, req[r].pc # "done"
               PROVE  \E o \in Origins :
                        /\ Url(o) = req[r].url
                        /\ {req[r].rp, req[r].dest} \subseteq DestsOf(o) \cup {NoDest}
    BY DEF OriginKept
  <2>1. req[r].url \in Urls /\ {req[r].rp, req[r].dest} \subseteq Backing(P!RequestKey(req[r].url))
    BY DEF IInv, ProxyInv
  <2>2. PICK o \in Origins : Url(o) = req[r].url
    BY <2>1 DEF Urls
  <2>3. Backing(P!RequestKey(req[r].url)) \subseteq DestsOf(o) \cup {NoDest}
    BY <2>2 DEF Backing, DistinctOrigins
  <2> QED
    BY <2>1, <2>2, <2>3
<1> QED
  BY AlwaysIInv, <1>1, PTL
=============================================================================
