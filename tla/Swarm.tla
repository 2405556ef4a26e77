------------------------------- MODULE Swarm -------------------------------
(***************************************************************************)
(* How the routes that docker's labels ask for get into the store:         *)
(* roo/kvdocker.go and roo/docker.go.  A node that can ask docker writes   *)
(* its role key once, when it boots; the leader has one of those nodes     *)
(* refresh the routes at every tick; the writes are left to a goroutine.   *)
(*                                                                         *)
(* Abstracted: the labels of one host, an origin being its scheme and port *)
(* labels; a destination is the value of a route.  Docker lists the tasks  *)
(* that ran before, too, so an origin may have several destinations.       *)
(* Leadership is external: there is a leader at every tick.  The variable  *)
(* routes is shared with Proxy.                                            *)
(***************************************************************************)
EXTENDS Integers

CONSTANTS
    Origins,      \* [scheme, port] labels that tasks carry
    DestsOf(_),   \* DestsOf(o): where tasks with the labels o can be
    Deployed,     \* Deployed[o]: where they are at first, a set of them
    NoDest,       \* no such key
    Nodes,        \* the nodes that run where docker answers (managers)
    Jobs,         \* bound: goroutines that write at a time
    MaxDeploys,   \* bound: changes of the tasks
    MaxFaults     \* bound: lost writes and failed requests

VARIABLES
    routes,       \* routes[k]: the value of the key HOST_PREFIX ... k
    docker,       \* docker[o]: the destinations of the listed tasks with the labels o
    deploys,      \* changes of the tasks so far
    booted,       \* the nodes that have run updateFromSwarm(true)
    managers,     \* the nodes with a key SWARM_MANAGER_PREFIX
    tick,         \* the managers that the leader has still to try, this tick
    job,          \* job[j]: the routes a goroutine has still to write
    lost          \* faults so far

-----------------------------------------------------------------------------
(* Route.GetKey.  A key is its port and its scheme; the scheme is https by  *)
(* default, and a default port is left out.                                 *)
WithScheme(o) == IF o.scheme = "" THEN [o EXCEPT !.scheme = "https"] ELSE o
DefaultPorts == {<<"http", "80">>, <<"http", ":http">>, <<"https", "443">>, <<"https", ":https">>}
WithoutPort(o) == IF <<o.scheme, o.port>> \in DefaultPorts THEN [o EXCEPT !.port = ""] ELSE o

(* Mutant: the scheme is filled in after the port was looked at.            *)
GetKey_PortFirst(o) == WithScheme(WithoutPort(o))

GetKey(o) == WithoutPort(WithScheme(o))

(* The keys that routes and requests can have.                              *)
Keys == UNION {{o, WithScheme(o), WithoutPort(WithScheme(o))} : o \in Origins}

Init ==
    /\ routes = [k \in Keys |-> NoDest]
    /\ docker = Deployed
    /\ deploys = 0 /\ booted = {} /\ managers = {} /\ tick = {}
    /\ job = [j \in Jobs |-> {}]
    /\ lost = 0

Fault == lost < MaxFaults /\ lost' = lost + 1

(* A service is deployed, moved (its old tasks may be listed on) or taken   *)
(* away, or docker drops old tasks.                                         *)
Deploy(o) ==
    /\ deploys < MaxDeploys /\ deploys' = deploys + 1
    /\ \E D \in SUBSET DestsOf(o) : D # docker[o] /\ docker' = [docker EXCEPT ![o] = D]
    /\ UNCHANGED <<routes, booted, managers, tick, job, lost>>

-----------------------------------------------------------------------------
(* Every listed task, whatever its state.  A task without a destination is  *)
(* passed over, like one that is not there.                                 *)
GetDockerRoutes == UNION {{o} \X docker[o] : o \in Origins}

(* updateFromSwarm: the routes are read now, and written by a goroutine.    *)
Spawn == \E j \in Jobs : job[j] = {} /\ job' = [job EXCEPT ![j] = GetDockerRoutes]

(* At boot the role key is written too, once; a failure is ignored.         *)
Boot(n) ==
    /\ n \notin booted /\ booted' = booted \cup {n}
    /\ \/ managers' = managers \cup {n} /\ UNCHANGED lost
       \/ Fault /\ UNCHANGED managers
    /\ Spawn
    /\ UNCHANGED <<routes, docker, deploys, tick>>

(* The leader reads the role keys.                                          *)
Tick ==
    /\ tick = {} /\ managers # {} /\ tick' = managers
    /\ UNCHANGED <<routes, docker, deploys, booted, managers, job, lost>>

(* It tries the managers in any order until one answers 2xx: the update was *)
(* begun and the answer came; it was begun and the answer was lost; the     *)
(* node could not be reached, or could not ask docker; or its API has no    *)
(* session yet and it answers 200 without an update.                        *)
Post(n) ==
    /\ n \in tick
    /\ \/ Spawn /\ tick' = {} /\ UNCHANGED lost
       \/ Spawn /\ tick' = tick \ {n} /\ Fault
       \/ tick' = tick \ {n} /\ Fault /\ UNCHANGED job
       \/ tick' = {} /\ Fault /\ UNCHANGED job
    /\ UNCHANGED <<routes, docker, deploys, booted, managers>>

(* One write of the goroutine; a failure is logged.  It follows the list,   *)
(* whose order is docker's own: any.  A route is never deleted.             *)
Write(j, o, d) ==
    /\ <<o, d>> \in job[j]
    /\ job' = [job EXCEPT ![j] = @ \ {<<o, d>>}]
    /\ \/ routes' = [routes EXCEPT ![GetKey(o)] = d] /\ UNCHANGED lost
       \/ Fault /\ UNCHANGED routes
    /\ UNCHANGED <<docker, deploys, booted, managers, tick>>

-----------------------------------------------------------------------------
Update == Tick \/ \E n \in Nodes : Post(n)
WriteJob(j) == \E o \in Origins : \E d \in DestsOf(o) : Write(j, o, d)

Next ==
    \/ \E o \in Origins : Deploy(o)
    \/ \E n \in Nodes : Boot(n)
    \/ Update \/ \E j \in Jobs : WriteJob(j)
=============================================================================
