------------------------------ MODULE Admission ------------------------------
(***************************************************************************)
(* How a node admits requests (roo/roo.go): the pool of connection tokens  *)
(* connc that the API routes and the proxy share, the variable err of main *)
(* that main and every API handler assign, and the daily limit per client  *)
(* address.                                                                *)
(*                                                                         *)
(* Each request runs in its own goroutine, and main goes on while the API  *)
(* serves.  Accesses to connc, to err and to the limit's cache are         *)
(* separate steps.                                                         *)
(*                                                                         *)
(* Outside the repository: net/http recovers a handler's panic and goes    *)
(* on; httputil.ReverseProxy panics to abort a response whose copy failed; *)
(* the entries of the limit's cache expire.                                *)
(***************************************************************************)
EXTENDS Naturals, FiniteSets

CONSTANTS
    Reqs,                 \* concurrent requests
    IPs,                  \* client addresses
    Services,             \* notifiers and consumers main connects to
    MaximumConnections,   \* the setting of that name
    ProxyDailyLimit,      \* the setting of that name; 0: no limit
    MaxChecks             \* bound: calls of ProxyDailyLimitCheck per address

ASSUME ConnectionsAssumption == MaximumConnections \in Nat \ {0}
ASSUME ServicesAssumption == Services \in Nat
ASSUME LimitAssumption == ProxyDailyLimit \in Nat /\ MaxChecks \in Nat
ASSUME IPsAssumption == IPs # {}

VARIABLES
    connc,    \* tokens in the channel
    err,      \* main's err: "nil" or "error"
    pc,       \* pc[r]: the step of a request
    from,     \* from[r]: its client address
    main,     \* main's step, services left, own result, what became of it
    result,   \* result[r]: what its own serveWithArgs came to
    status,   \* status[r]: the status it was answered with
    raced,    \* raced[r]: another goroutine assigned err since r did
    seen,     \* seen[r]: the total it read from the cache
    total,    \* total[i]: the count in the cache, 0 when absent
    checks,   \* checks[i]: checks so far
    passed,   \* passed[i]: requests let through since the count was last reset
    missed,   \* missed[i]: checks that another check overwrote
    lost      \* tokens that were never put back

api == <<err, main, result, raced>>
limit == <<seen, total, checks, passed, missed>>
vars == <<connc, api, pc, from, status, limit, lost>>

Holding == {r \in Reqs : pc[r] \in {"serve", "test", "write", "get", "set", "proxy", "return"}}

Init ==
    /\ connc = MaximumConnections
    /\ err = "nil"
    /\ pc = [r \in Reqs |-> "idle"]
    /\ from = [r \in Reqs |-> CHOOSE i \in IPs : TRUE]
    /\ main = [pc |-> "kv", left |-> Services, failed |-> FALSE, raced |-> FALSE, gaveUp |-> FALSE]
    /\ result = [r \in Reqs |-> "none"]
    /\ status = [r \in Reqs |-> "none"]
    /\ raced = [r \in Reqs |-> FALSE]
    /\ seen = [r \in Reqs |-> 0]
    /\ total = [i \in IPs |-> 0]
    /\ checks = [i \in IPs |-> 0]
    /\ passed = [i \in IPs |-> 0]
    /\ missed = [i \in IPs |-> 0]
    /\ lost = 0

Goto(r, step) == pc' = [pc EXCEPT ![r] = step]
Answer(r, code) == status' = [status EXCEPT ![r] = code]

(* The handler ends without putting its token back.                         *)
Leak(r) == Goto(r, "done") /\ lost' = lost + 1

-----------------------------------------------------------------------------
(* A handler starts: a token, or "Maximum clients reached on this node."    *)

TakeToken(r, step) ==
    \/ /\ connc > 0
       /\ connc' = connc - 1
       /\ Goto(r, step)
       /\ UNCHANGED status
    \/ /\ connc = 0
       /\ Answer(r, "unavailable")
       /\ Goto(r, "done")
       /\ UNCHANGED connc

ApiRequest(r) ==
    /\ pc[r] = "idle"
    /\ TakeToken(r, "serve")
    /\ UNCHANGED <<api, from, limit, lost>>

ProxyRequest(r, i) ==
    /\ main.pc = "up"
    /\ pc[r] = "idle"
    /\ checks[i] < MaxChecks
    /\ from' = [from EXCEPT ![r] = i]
    /\ TakeToken(r, IF ProxyDailyLimit > 0 THEN "get" ELSE "proxy")
    /\ UNCHANGED <<api, limit, lost>>

-----------------------------------------------------------------------------
(* main, while the API serves already.                                      *)

(* Requests that still rely on the err they assigned.                       *)
Relying == {r \in Reqs : pc[r] \in {"test", "write"}}

MainAssigns(e, step) ==
    /\ err' = e
    /\ main' = [main EXCEPT !.pc = step, !.failed = e = "error", !.raced = FALSE, !.gaveUp = FALSE]
    /\ raced' = [r \in Reqs |-> raced[r] \/ r \in Relying]
    /\ UNCHANGED <<connc, pc, from, result, status, limit, lost>>

MainGoes(m) ==
    /\ main' = m
    /\ UNCHANGED <<connc, err, pc, from, result, status, raced, limit, lost>>

(* err = kv.connect(), which returns no error: it panics or exits.          *)
KvConnect == main.pc = "kv" /\ MainAssigns("nil", "kvtest")

(* main looks at err, and only then sets configuration.API.                 *)
KvTest ==
    /\ main.pc = "kvtest"
    /\ MainGoes([main EXCEPT !.pc = "next", !.gaveUp = err = "error"])

(* err = gonats.connect() of the next notifier or consumer.                 *)
NatsConnect ==
    /\ main.pc = "next"
    /\ main.left > 0
    /\ \E e \in {"nil", "error"} : MainAssigns(e, "test")

(* Mutant: main tests err only.                                             *)
NatsTest_ErrOnly ==
    /\ main.pc = "test"
    /\ MainGoes([main EXCEPT !.pc = "next", !.left = @ - 1, !.gaveUp = err = "error"])

(* A failed connect leaves Session nil, which main tests too.  What it      *)
(* takes for a failure skips the service (and its listen) or, for a         *)
(* critical one, ends the process.                                          *)
NatsTest ==
    /\ main.pc = "test"
    /\ MainGoes([main EXCEPT !.pc = "next", !.left = @ - 1,
                             !.gaveUp = err = "error" \/ main.failed])

(* The proxy listens.                                                       *)
StartProxy ==
    /\ main.pc = "next"
    /\ main.left = 0
    /\ MainGoes([main EXCEPT !.pc = "up", !.failed = FALSE, !.raced = FALSE, !.gaveUp = FALSE])

Main == KvConnect \/ KvTest \/ NatsConnect \/ NatsTest \/ StartProxy

-----------------------------------------------------------------------------
(* The API routes.                                                          *)

ApiSet == main.pc \notin {"kv", "kvtest"}

(* serveWithArgs returns and its result is assigned to the shared err: an   *)
(* error, nil after an answer was written, or nil and nothing written: an   *)
(* empty body, or configuration.API not set yet.  It panics, for one, in a  *)
(* join whose RequestAddReplica is refused.                                 *)
Serve(r) ==
    /\ pc[r] = "serve"
    /\ \/ \E e \in IF ApiSet THEN {"error", "written", "empty"} ELSE {"empty"} :
            /\ err' = IF e = "error" THEN "error" ELSE "nil"
            /\ result' = [result EXCEPT ![r] = e]
            /\ raced' = [q \in Reqs |-> q # r /\ (raced[q] \/ q \in Relying)]
            /\ main' = [main EXCEPT !.raced = @ \/ main.pc \in {"kvtest", "test"}]
            /\ Goto(r, "test")
            /\ UNCHANGED lost
       \/ ApiSet /\ Leak(r) /\ UNCHANGED api
    /\ UNCHANGED <<connc, from, status, limit>>

(* err != nil.  Without an error the answer is what serve wrote, or an      *)
(* empty 200.                                                               *)
Test(r) ==
    /\ pc[r] = "test"
    /\ \/ err = "error" /\ Goto(r, "write") /\ UNCHANGED status
       \/ err = "nil" /\ Answer(r, "ok") /\ Goto(r, "return")
    /\ UNCHANGED <<connc, api, from, limit, lost>>

(* w.WriteHeader has no effect after serve has written a header; then       *)
(* err.Error() reads err again, and panics when it is nil by now.           *)
Write(r) ==
    /\ pc[r] = "write"
    /\ Answer(r, IF result[r] = "written" THEN "ok" ELSE "bad")
    /\ \/ err = "error" /\ Goto(r, "return") /\ UNCHANGED lost
       \/ err = "nil" /\ Leak(r)
    /\ UNCHANGED <<connc, api, from, limit>>

-----------------------------------------------------------------------------
(* The proxy.                                                               *)

(* ProxyDailyLimitCheck: c.Get ...                                          *)
CheckGet(r) ==
    /\ pc[r] = "get"
    /\ seen' = [seen EXCEPT ![r] = total[from[r]]]
    /\ checks' = [checks EXCEPT ![from[r]] = @ + 1]
    /\ Goto(r, "set")
    /\ UNCHANGED <<connc, api, from, status, total, passed, missed, lost>>

(* Mutant: the total is compared before it is incremented.                  *)
CheckSet_Before(r) ==
    LET i == from[r] IN
    /\ pc[r] = "set"
    /\ total' = [total EXCEPT ![i] = seen[r] + 1]
    /\ missed' = [missed EXCEPT ![i] = @ + (IF seen[r] < total[i] THEN total[i] - seen[r] ELSE 0)]
    /\ \/ /\ seen[r] > ProxyDailyLimit
          /\ Answer(r, "limited")
          /\ Leak(r)
          /\ UNCHANGED passed
       \/ /\ seen[r] <= ProxyDailyLimit
          /\ passed' = [passed EXCEPT ![i] = @ + 1]
          /\ Goto(r, "proxy")
          /\ UNCHANGED <<status, lost>>
    /\ UNCHANGED <<connc, api, from, seen, checks>>

(* ... then c.Set of the incremented total, and the comparison.  A request  *)
(* over the limit returns from the handler at once.                         *)
CheckSet(r) ==
    LET i == from[r] IN
    /\ pc[r] = "set"
    /\ total' = [total EXCEPT ![i] = seen[r] + 1]
    /\ missed' = [missed EXCEPT ![i] = @ + (IF seen[r] < total[i] THEN total[i] - seen[r] ELSE 0)]
    /\ \/ /\ seen[r] + 1 > ProxyDailyLimit
          /\ Answer(r, "limited")
          /\ Leak(r)
          /\ UNCHANGED passed
       \/ /\ seen[r] + 1 <= ProxyDailyLimit
          /\ passed' = [passed EXCEPT ![i] = @ + 1]
          /\ Goto(r, "proxy")
          /\ UNCHANGED <<status, lost>>
    /\ UNCHANGED <<connc, api, from, seen, checks>>

(* 24 hours after the last Set.                                             *)
Expire(i) ==
    /\ total[i] > 0
    /\ total' = [total EXCEPT ![i] = 0]
    /\ passed' = [passed EXCEPT ![i] = 0]
    /\ UNCHANGED <<connc, api, pc, from, status, seen, checks, missed, lost>>

(* Mutant: the handler ends like one that was limited.                      *)
Proxy_NoReturn(r) ==
    /\ pc[r] = "proxy"
    /\ Answer(r, "ok")
    /\ Goto(r, "done")
    /\ UNCHANGED <<connc, api, from, limit, lost>>

(* The request is forwarded; an aborted response panics.                    *)
Proxy(r) ==
    /\ pc[r] = "proxy"
    /\ \/ Answer(r, "ok") /\ Goto(r, "return") /\ UNCHANGED lost
       \/ Leak(r) /\ UNCHANGED status
    /\ UNCHANGED <<connc, api, from, limit>>

-----------------------------------------------------------------------------
(* Mutant: the token is put back twice.                                     *)
PutToken_Twice(r) ==
    /\ pc[r] = "return"
    /\ connc' = connc + 2
    /\ Goto(r, "done")
    /\ UNCHANGED <<api, from, status, limit, lost>>

(* connc <- struct{}{}, which blocks while the channel is full.             *)
PutToken(r) ==
    /\ pc[r] = "return"
    /\ connc < MaximumConnections
    /\ connc' = connc + 1
    /\ Goto(r, "done")
    /\ UNCHANGED <<api, from, status, limit, lost>>

(* The goroutine is gone; the next request may come.                        *)
Reset(r) ==
    /\ pc[r] = "done"
    /\ Goto(r, "idle")
    /\ Answer(r, "none")
    /\ from' = [from EXCEPT ![r] = CHOOSE i \in IPs : TRUE]
    /\ result' = [result EXCEPT ![r] = "none"]
    /\ raced' = [raced EXCEPT ![r] = FALSE]
    /\ seen' = [seen EXCEPT ![r] = 0]
    /\ UNCHANGED <<connc, err, main, total, checks, passed, missed, lost>>

Handler(r) ==
    \/ Serve(r) \/ Test(r) \/ Write(r)
    \/ CheckGet(r) \/ CheckSet(r) \/ Proxy(r)
    \/ PutToken(r) \/ Reset(r)

Next ==
    \/ \E r \in Reqs : ApiRequest(r)
    \/ \E r \in Reqs, i \in IPs : ProxyRequest(r, i)
    \/ \E r \in Reqs : Handler(r)
    \/ \E i \in IPs : Expire(i)
    \/ Main

Spec == Init /\ [][Next]_vars

(* The steps of a handler between its two calls that may hang: serve, which *)
(* reads the request's body without a timeout, and the forwarding, which    *)
(* has none for an upgraded connection.                                     *)
Prompt(r) ==
    \/ Test(r) \/ Write(r)
    \/ CheckGet(r) \/ CheckSet(r)
    \/ PutToken(r) \/ Reset(r)

(* A handler that can run does run; nothing forces requests to come, a      *)
(* call that may hang to return, or main to get any further.                *)
FairSpec == Spec /\ \A r \in Reqs : WF_vars(Prompt(r))

-----------------------------------------------------------------------------
(* Properties.                                                              *)

TypeOK ==
    /\ connc \in 0..MaximumConnections
    /\ err \in {"nil", "error"}
    /\ pc \in [Reqs -> {"idle", "serve", "test", "write", "get", "set", "proxy", "return", "done"}]
    /\ from \in [Reqs -> IPs]
    /\ main \in [pc : {"kv", "kvtest", "next", "test", "up"}, left : 0..Services,
                 failed : BOOLEAN, raced : BOOLEAN, gaveUp : BOOLEAN]
    /\ result \in [Reqs -> {"none", "error", "written", "empty"}]
    /\ raced \in [Reqs -> BOOLEAN]
    /\ status \in [Reqs -> {"none", "ok", "bad", "limited", "unavailable"}]
    /\ seen \in [Reqs -> Nat]
    /\ total \in [IPs -> Nat] /\ checks \in [IPs -> Nat]
    /\ passed \in [IPs -> Nat] /\ missed \in [IPs -> Nat]
    /\ lost \in 0..MaximumConnections

(* No token is made or lost but by a panic or by the return of a limited    *)
(* request, whichever way handlers interleave: the node never serves more   *)
(* than MaximumConnections at once, and putting a token back never blocks.  *)
TokensAccounted == connc + Cardinality(Holding) + lost = MaximumConnections

(* What the goroutines that share err make of each other's results.  Only   *)
(* one whose err another goroutine assigned before it looked can be wrong:  *)
(* a failed request may then be answered 200, one that wrote no answer 400, *)
(* err.Error() may meet nil, and main may take a service it connected to    *)
(* for a failure.  An answer that serve wrote stands, and main never takes  *)
(* a failed connect for a success.                                          *)
FailureReported ==
    /\ \A r \in Reqs :
        /\ pc[r] = "return" /\ result[r] = "error" => status[r] = "bad" \/ raced[r]
        /\ pc[r] = "return" /\ status[r] = "bad" =>
             result[r] = "error" \/ (result[r] = "empty" /\ raced[r])
        /\ pc[r] = "write" => err = "error" \/ raced[r]
    /\ main.pc = "next" =>
        /\ main.failed => main.gaveUp
        /\ main.gaveUp => main.failed \/ main.raced

(* An address gets more than ProxyDailyLimit requests through only by       *)
(* checks that overwrote each other, one for each.                          *)
LimitEnforced ==
    ProxyDailyLimit > 0 => \A i \in IPs : passed[i] <= ProxyDailyLimit + missed[i]

(* A node has a token to give again and again, unless from some time on     *)
(* every token is lost or with a request that hangs in serve or behind the  *)
(* proxy: no other step of a handler keeps one for ever.                    *)
Hung == {r \in Reqs : pc[r] \in {"serve", "proxy"}}
TokenReturns == []<>(connc > 0) \/ <>[](lost + Cardinality(Hung) = MaximumConnections)

(* "Maximum clients reached on this node.": said only when they are.        *)
BusyMeansFull == connc = 0 => Cardinality(Holding) = MaximumConnections
=============================================================================
