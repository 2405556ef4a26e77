-------------------------- MODULE AdmissionProofs --------------------------
(***************************************************************************)
(* Proofs about Admission, for any number of requests, addresses and       *)
(* tokens: type correctness, the accounting of the tokens, the shared err  *)
(* and the daily limit.                                                    *)
(***************************************************************************)
EXTENDS Admission, FiniteSetTheorems, TLAPS

MainPCs == {"kv", "kvtest", "next", "test", "up"}
PCs == {"idle", "serve", "test", "write", "get", "set", "proxy", "return", "done"}
Held == {"serve", "test", "write", "get", "set", "proxy", "return"}

(* The values of the variables, without the bounds that only follow from    *)
(* the accounting of the tokens.                                            *)
Values ==
    /\ connc \in Nat /\ lost \in Nat
    /\ err \in {"nil", "error"}
    /\ pc \in [Reqs -> PCs]
    /\ from \in [Reqs -> IPs]
    /\ main \in [pc : MainPCs, left : 0..Services,
                 failed : BOOLEAN, raced : BOOLEAN, gaveUp : BOOLEAN]
    /\ result \in [Reqs -> {"none", "error", "written", "empty"}]
    /\ raced \in [Reqs -> BOOLEAN]
    /\ status \in [Reqs -> {"none", "ok", "bad", "limited", "unavailable"}]
    /\ seen \in [Reqs -> Nat]
    /\ total \in [IPs -> Nat] /\ checks \in [IPs -> Nat]
    /\ passed \in [IPs -> Nat] /\ missed \in [IPs -> Nat]

Tokens == IsFiniteSet(Holding) /\ TokensAccounted

(* Until another goroutine assigns it, err is the result of the one that    *)
(* tests it; only the API routes fail.                                      *)
ErrInv ==
    /\ \A r \in Reqs : pc[r] \in {"idle", "serve", "get", "set", "proxy"} => result[r] = "none"
    /\ \A r \in Reqs : pc[r] \in {"test", "write"} => result[r] # "none"
    /\ \A r \in Reqs : pc[r] = "test" /\ ~raced[r] => (result[r] = "error" <=> err = "error")
    /\ \A r \in Reqs : pc[r] = "write" /\ ~raced[r] => err = "error" /\ result[r] = "error"
    /\ \A r \in Reqs : pc[r] = "return" =>
        /\ result[r] = "error" => status[r] = "bad" \/ raced[r]
        /\ status[r] = "bad" => result[r] = "error" \/ (result[r] = "empty" /\ raced[r])

(* The same for main; it has a service left while it tests one.             *)
MainInv ==
    /\ main.pc \in {"kvtest", "test"} /\ ~main.raced => (main.failed <=> err = "error")
    /\ main.pc \in {"kv", "kvtest"} => ~main.failed
    /\ main.pc = "test" => main.left > 0
    /\ main.pc = "next" =>
        /\ main.failed => main.gaveUp
        /\ main.gaveUp => main.failed \/ main.raced

(* The count in the cache falls behind only by overwritten checks.          *)
LimitInv ==
    \A i \in IPs :
        /\ passed[i] <= total[i] + missed[i]
        /\ passed[i] <= ProxyDailyLimit + missed[i] \/ ProxyDailyLimit = 0

IInv == Values /\ Tokens /\ ErrInv /\ MainInv /\ LimitInv

-----------------------------------------------------------------------------
(* The holders of tokens.                                                   *)

(* The number of handlers that hold a token is a number. *)
LEMMA HoldingCard ==
    ASSUME Tokens
    PROVE  Cardinality(Holding) \in Nat
BY FS_CardinalityType DEF Tokens

(* A handler's step moves that handler and no other. *)
LEMMA GotoIs ==
    ASSUME Values, NEW r \in Reqs, NEW p \in PCs, Goto(r, p)
    PROVE  pc' \in [Reqs -> PCs] /\ pc'[r] = p /\ \A q \in Reqs \ {r} : pc'[q] = pc[q]
BY DEF Goto, Values

(* A handler gets a token, keeps it, or ends.                               *)
LEMMA HoldingGrows ==
    ASSUME Values, Tokens, NEW r \in Reqs, NEW p \in Held, Goto(r, p), pc[r] \notin Held
    PROVE  IsFiniteSet(Holding') /\ Cardinality(Holding') = Cardinality(Holding) + 1
<1>1. Holding' = Holding \cup {r} /\ r \notin Holding
  BY GotoIs DEF Holding, Held, PCs
<1> QED
  BY <1>1, FS_AddElement DEF Tokens

(* A step between two places that both hold a token, or neither, keeps the holders. *)
LEMMA HoldingSame ==
    ASSUME Values, NEW r \in Reqs, NEW p \in PCs, Goto(r, p), p \in Held <=> pc[r] \in Held
    PROVE  Holding' = Holding
BY GotoIs DEF Holding, Held

(* A handler that leaves its critical part is one holder less. *)
LEMMA HoldingShrinks ==
    ASSUME Values, Tokens, NEW r \in Reqs, NEW p \in PCs \ Held, Goto(r, p), pc[r] \in Held
    PROVE  IsFiniteSet(Holding') /\ Cardinality(Holding') = Cardinality(Holding) - 1
<1>1. Holding' = Holding \ {r} /\ r \in Holding
  BY GotoIs DEF Holding, Held
<1> QED
  BY <1>1, FS_RemoveElement DEF Tokens

(* The three ways the tokens stay accounted for.                            *)
LEMMA TokensKept ==
    ASSUME Values, Tokens, NEW r \in Reqs, NEW p \in PCs, Goto(r, p), p \in Held <=> pc[r] \in Held,
           UNCHANGED <<connc, lost>>
    PROVE  Tokens'
BY HoldingSame DEF Tokens, TokensAccounted

(* A handler that takes a token keeps the account balanced. *)
LEMMA TokensTaken ==
    ASSUME Values, Tokens, NEW r \in Reqs, NEW p \in Held, Goto(r, p), pc[r] \notin Held,
           connc' = connc - 1, UNCHANGED lost
    PROVE  Tokens'
BY HoldingGrows, HoldingCard, ConnectionsAssumption DEF Tokens, TokensAccounted, Values

(* So does one that returns its token, or ends without returning it. *)
LEMMA TokensLeft ==
    ASSUME Values, Tokens, NEW r \in Reqs, Goto(r, "done"), pc[r] \in Held,
           (connc' = connc + 1 /\ UNCHANGED lost) \/ (lost' = lost + 1 /\ UNCHANGED connc)
    PROVE  Tokens'
<1>1. "done" \in PCs \ Held
  BY DEF PCs, Held
<1> QED
  BY <1>1, HoldingShrinks, HoldingCard, ConnectionsAssumption DEF Tokens, TokensAccounted, Values

-----------------------------------------------------------------------------
(* The initial states satisfy IInv. *)
LEMMA InitIInv == Init => IInv
<1> SUFFICES ASSUME Init PROVE IInv
  OBVIOUS
<1>1. Values
  <2>1. (CHOOSE i \in IPs : TRUE) \in IPs
    BY IPsAssumption
  <2> QED
    BY <2>1, ConnectionsAssumption, ServicesAssumption DEF Init, Values, PCs, MainPCs
<1>2. Tokens
  <2>1. Holding = {}
    BY DEF Init, Holding
  <2> QED
    BY <2>1, FS_EmptySet, ConnectionsAssumption DEF Init, Tokens, TokensAccounted
<1>3. ErrInv /\ MainInv
  BY DEF Init, ErrInv, MainInv
<1>4. LimitInv
  BY LimitAssumption DEF Init, LimitInv
<1> QED
  BY <1>1, <1>2, <1>3, <1>4 DEF IInv

(* A request comes.                                                         *)
LEMMA ArriveStep ==
    ASSUME IInv, NEW r \in Reqs, NEW step \in {"serve", "get", "proxy"},
           pc[r] = "idle", TakeToken(r, step),
           from' = from \/ \E i \in IPs : from' = [from EXCEPT ![r] = i],
           UNCHANGED <<api, limit, lost>>
    PROVE  IInv'
<1> USE DEF IInv, api, limit
<1>0. step \in PCs /\ step \in Held /\ "done" \in PCs /\ "done" \notin Held /\ pc[r] \notin Held
  BY DEF PCs, Held
<1>1. from' \in [Reqs -> IPs]
  BY DEF Values
<1>2. CASE connc > 0 /\ connc' = connc - 1 /\ Goto(r, step) /\ UNCHANGED status
  <2>1. Values'
    BY <1>0, <1>1, <1>2, GotoIs DEF Values
  <2>2. Tokens'
    BY <1>0, <1>2, TokensTaken
  <2>3. ErrInv'
    BY <1>0, <1>2, GotoIs DEF ErrInv
  <2>4. LimitInv' /\ MainInv'
    BY DEF LimitInv, MainInv
  <2> QED
    BY <2>1, <2>2, <2>3, <2>4
<1>3. CASE connc = 0 /\ Answer(r, "unavailable") /\ Goto(r, "done") /\ UNCHANGED connc
  <2>1. Values'
    BY <1>0, <1>1, <1>3, GotoIs DEF Values, Answer
  <2>2. Tokens'
    BY <1>0, <1>3, TokensKept
  <2>3. ErrInv'
    BY <1>0, <1>3, GotoIs DEF ErrInv, Values, Answer
  <2>4. LimitInv' /\ MainInv'
    BY DEF LimitInv, MainInv
  <2> QED
    BY <2>1, <2>2, <2>3, <2>4
<1> QED
  BY <1>2, <1>3 DEF TakeToken

(* serveWithArgs returns, and err is assigned; or it panics.                *)
LEMMA ServeStep ==
    ASSUME IInv, NEW r \in Reqs, Serve(r)
    PROVE  IInv'
<1> USE DEF IInv, api, limit
<1>0. /\ pc[r] = "serve" /\ pc[r] \in Held /\ UNCHANGED <<connc, from, status, limit>>
      /\ "test" \in PCs /\ "test" \in Held /\ "done" \in PCs
  BY DEF Serve, PCs, Held
<1>1. LimitInv'
  BY <1>0 DEF LimitInv
<1>2. ASSUME NEW e \in {"error", "written", "empty"},
             ApiSet \/ e = "empty",
             err' = IF e = "error" THEN "error" ELSE "nil",
             result' = [result EXCEPT ![r] = e],
             raced' = [q \in Reqs |-> q # r /\ (raced[q] \/ q \in Relying)],
             main' = [main EXCEPT !.raced = @ \/ main.pc \in {"kvtest", "test"}],
             Goto(r, "test"), UNCHANGED lost
      PROVE  IInv'
  <2>1. Values'
    BY <1>0, <1>2, GotoIs DEF Values
  <2>2. Tokens'
    BY <1>0, <1>2, TokensKept
  <2>3. ErrInv'
    <3>1. /\ pc'[r] = "test" /\ result'[r] = e /\ ~raced'[r]
          /\ \A q \in Reqs \ {r} :
               pc'[q] = pc[q] /\ result'[q] = result[q] /\ (raced'[q] <=> raced[q] \/ q \in Relying)
      BY <1>0, <1>2, GotoIs DEF Values
    <3>2. \A q \in Reqs \ {r} : pc[q] \in {"test", "write"} => raced'[q]
      BY <3>1 DEF Relying
    <3>3. e # "none" /\ (e = "error" <=> err' = "error")
      BY <1>2
    <3> QED
      BY <1>0, <3>1, <3>2, <3>3 DEF ErrInv
  <2>4. MainInv'
    BY <1>2 DEF MainInv, Values
  <2> QED
    BY <1>1, <2>1, <2>2, <2>3, <2>4
<1>3. CASE ApiSet /\ Leak(r) /\ UNCHANGED api
  <2>0. MainInv'
    BY <1>3 DEF MainInv
  <2>1. Values'
    BY <1>0, <1>3, GotoIs DEF Values, Leak
  <2>2. Tokens'
    BY <1>0, <1>3, TokensLeft DEF Leak
  <2>3. ErrInv'
    BY <1>0, <1>3, GotoIs DEF ErrInv, Leak
  <2> QED
    BY <1>1, <2>0, <2>1, <2>2, <2>3
<1> QED
  BY <1>2, <1>3 DEF Serve

(* err is tested, and read again where an error is written.                 *)
LEMMA AnswerStep ==
    ASSUME IInv, NEW r \in Reqs, Test(r) \/ Write(r)
    PROVE  IInv'
<1> USE DEF IInv, api, limit
<1>0. /\ pc[r] \in {"test", "write"} /\ pc[r] \in Held /\ UNCHANGED <<connc, api, from, limit>>
      /\ {"write", "return", "done"} \subseteq PCs /\ {"write", "return"} \subseteq Held
  BY DEF Test, Write, PCs, Held
<1>1. LimitInv' /\ MainInv'
  BY <1>0 DEF LimitInv, MainInv
<1>2. CASE Test(r)
  <2>1. PICK p \in {"write", "return"} : Goto(r, p) /\ (p = "write" <=> err = "error")
    BY <1>2 DEF Test, Values
  <2>2. Values'
    BY <1>0, <1>2, <2>1, GotoIs DEF Test, Values, Answer
  <2>3. Tokens'
    BY <1>0, <1>2, <2>1, TokensKept DEF Test
  <2>4. ErrInv'
    BY <1>0, <1>2, <2>1, GotoIs DEF ErrInv, Values, Test, Answer
  <2> QED
    BY <1>1, <2>2, <2>3, <2>4
<1>3. CASE Write(r)
  <2>1. PICK p \in {"return", "done"} : Goto(r, p) /\ lost' = IF p = "done" THEN lost + 1 ELSE lost
    BY <1>3 DEF Write, Leak
  <2>2. Values'
    BY <1>0, <1>3, <2>1, GotoIs DEF Write, Values, Answer
  <2>3. Tokens'
    BY <1>0, <2>1, TokensKept, TokensLeft
  <2>4. ErrInv'
    BY <1>0, <1>3, <2>1, GotoIs DEF ErrInv, Values, Write, Answer
  <2> QED
    BY <1>1, <2>2, <2>3, <2>4
<1> QED
  BY <1>2, <1>3

(* ProxyDailyLimitCheck reads the count, and writes it back.                *)
LEMMA CheckGetStep ==
    ASSUME IInv, NEW r \in Reqs, CheckGet(r)
    PROVE  IInv'
<1> USE DEF IInv, api
<1>0. /\ pc[r] = "get" /\ pc[r] \in Held /\ "set" \in PCs /\ "set" \in Held /\ Goto(r, "set")
      /\ UNCHANGED <<connc, api, from, status, total, passed, missed, lost>>
  BY DEF CheckGet, PCs, Held
<1>1. Values'
  BY <1>0, GotoIs DEF CheckGet, Values
<1>2. Tokens'
  BY <1>0, TokensKept
<1>3. ErrInv'
  BY <1>0, GotoIs DEF ErrInv
<1>4. LimitInv' /\ MainInv'
  BY <1>0 DEF LimitInv, MainInv
<1> QED
  BY <1>1, <1>2, <1>3, <1>4

(* IInv is kept by CheckSet. *)
LEMMA CheckSetStep ==
    ASSUME IInv, NEW r \in Reqs, CheckSet(r)
    PROVE  IInv'
<1> USE DEF IInv, api
<1> DEFINE i == from[r]
<1>0. /\ pc[r] = "set" /\ pc[r] \in Held /\ UNCHANGED <<connc, api, from, seen, checks>>
      /\ {"proxy", "done"} \subseteq PCs /\ "proxy" \in Held
  BY DEF CheckSet, PCs, Held
<1>1. i \in IPs /\ seen[r] \in Nat /\ total[i] \in Nat /\ missed[i] \in Nat /\ passed[i] \in Nat
  BY DEF Values
<1>2. PICK p \in {"proxy", "done"} : Goto(r, p) /\ lost' = IF p = "done" THEN lost + 1 ELSE lost
  BY DEF CheckSet, Leak
<1>3. /\ total' = [total EXCEPT ![i] = seen[r] + 1]
      /\ missed' = [missed EXCEPT ![i] = @ + (IF seen[r] < total[i] THEN total[i] - seen[r] ELSE 0)]
      /\ \/ passed' = passed
         \/ seen[r] + 1 <= ProxyDailyLimit /\ passed' = [passed EXCEPT ![i] = @ + 1]
  BY DEF CheckSet
<1>4. Values'
  <2>1. total' \in [IPs -> Nat] /\ missed' \in [IPs -> Nat] /\ passed' \in [IPs -> Nat]
    BY <1>1, <1>3 DEF Values
  <2>2. status' \in [Reqs -> {"none", "ok", "bad", "limited", "unavailable"}]
    BY DEF CheckSet, Answer, Values
  <2> QED
    BY <1>0, <1>2, <2>1, <2>2, GotoIs DEF Values
<1>5. Tokens'
  BY <1>0, <1>2, TokensKept, TokensLeft
<1>6. ErrInv' /\ MainInv'
  BY <1>0, <1>2, GotoIs DEF ErrInv, MainInv, Values, CheckSet, Answer
<1>7. LimitInv'
  <2>1. /\ total'[i] = seen[r] + 1
        /\ missed'[i] = missed[i] + (IF seen[r] < total[i] THEN total[i] - seen[r] ELSE 0)
        /\ \/ passed'[i] = passed[i]
           \/ seen[r] + 1 <= ProxyDailyLimit /\ passed'[i] = passed[i] + 1
    BY <1>1, <1>3 DEF Values
  <2>2. \A j \in IPs \ {i} : total'[j] = total[j] /\ missed'[j] = missed[j] /\ passed'[j] = passed[j]
    BY <1>1, <1>3 DEF Values
  <2>3. passed'[i] <= total'[i] + missed'[i]
    BY <1>1, <2>1 DEF LimitInv
  <2>4. passed'[i] <= ProxyDailyLimit + missed'[i] \/ ProxyDailyLimit = 0
    BY <1>1, <2>1, LimitAssumption DEF LimitInv
  <2> QED
    BY <1>1, <2>2, <2>3, <2>4 DEF LimitInv
<1> QED
  BY <1>4, <1>5, <1>6, <1>7

(* The count of an address expires.                                         *)
LEMMA ExpireStep ==
    ASSUME IInv, NEW i \in IPs, Expire(i)
    PROVE  IInv'
<1> USE DEF IInv, api
<1>0. UNCHANGED <<connc, api, pc, from, status, seen, checks, missed, lost>>
  BY DEF Expire
<1>1. Values'
  BY <1>0 DEF Expire, Values
<1>2. Tokens' /\ ErrInv' /\ MainInv'
  BY <1>0 DEF Tokens, TokensAccounted, Holding, ErrInv, MainInv
<1>3. LimitInv'
  BY LimitAssumption DEF Expire, LimitInv, Values
<1> QED
  BY <1>1, <1>2, <1>3

(* The request is forwarded, the token goes back, the goroutine ends.       *)
LEMMA EndStep ==
    ASSUME IInv, NEW r \in Reqs, Proxy(r) \/ PutToken(r) \/ Reset(r)
    PROVE  IInv'
<1> USE DEF IInv, api, limit
<1>0. {"return", "done", "idle"} \subseteq PCs /\ "return" \in Held /\ {"done", "idle"} \cap Held = {}
  BY DEF PCs, Held
<1>1. UNCHANGED <<err, main, total, checks, passed, missed>> /\ LimitInv' /\ MainInv'
  BY DEF Proxy, PutToken, Reset, LimitInv, MainInv
<1>2. CASE Proxy(r)
  <2>1. PICK p \in {"return", "done"} : Goto(r, p) /\ lost' = IF p = "done" THEN lost + 1 ELSE lost
    BY <1>2 DEF Proxy, Leak
  <2>2. pc[r] = "proxy" /\ pc[r] \in Held /\ UNCHANGED <<connc, api, from, limit>>
    BY <1>2 DEF Proxy, Held
  <2>3. Values'
    BY <1>0, <1>2, <2>1, <2>2, GotoIs DEF Proxy, Values, Answer
  <2>4. Tokens'
    BY <1>0, <2>1, <2>2, TokensKept, TokensLeft
  <2>5. ErrInv'
    <3>1. /\ pc'[r] \in {"return", "done"} /\ result'[r] = "none"
          /\ pc'[r] = "return" => status'[r] = "ok"
          /\ \A q \in Reqs \ {r} : pc'[q] = pc[q] /\ status'[q] = status[q]
      BY <1>0, <1>2, <2>1, <2>2, GotoIs DEF ErrInv, Values, Proxy, Answer, Leak, Goto
    <3> QED
      BY <2>2, <3>1 DEF ErrInv
  <2> QED
    BY <1>1, <2>3, <2>4, <2>5
<1>3. CASE PutToken(r)
  <2>1. pc[r] = "return" /\ pc[r] \in Held /\ Goto(r, "done") /\ connc' = connc + 1
    BY <1>3 DEF PutToken, Held
  <2>2. Values'
    BY <1>0, <1>3, <2>1, GotoIs DEF PutToken, Values
  <2>3. Tokens'
    BY <1>3, <2>1, TokensLeft DEF PutToken
  <2>4. ErrInv'
    BY <1>0, <1>3, <2>1, GotoIs DEF ErrInv, PutToken
  <2> QED
    BY <1>1, <2>2, <2>3, <2>4
<1>4. CASE Reset(r)
  <2>1. pc[r] = "done" /\ pc[r] \notin Held /\ Goto(r, "idle") /\ UNCHANGED <<connc, lost>>
    BY <1>4 DEF Reset, Held
  <2>2. Values'
    <3>1. (CHOOSE i \in IPs : TRUE) \in IPs
      BY IPsAssumption
    <3> QED
      BY <1>0, <1>1, <1>4, <2>1, <3>1, GotoIs DEF Reset, Values, Answer
  <2>3. Tokens'
    BY <1>0, <2>1, TokensKept
  <2>4. ErrInv'
    BY <1>0, <1>1, <1>4, <2>1, GotoIs DEF ErrInv, Values, Reset, Answer
  <2> QED
    BY <1>1, <2>2, <2>3, <2>4
<1> QED
  BY <1>2, <1>3, <1>4

(* A step of main moves no request and no token.                            *)
LEMMA MainFrame ==
    ASSUME IInv, UNCHANGED <<connc, pc, from, result, status, limit, lost>>,
           main' \in [pc : MainPCs, left : 0..Services,
                      failed : BOOLEAN, raced : BOOLEAN, gaveUp : BOOLEAN],
           err' \in {"nil", "error"}, raced' \in [Reqs -> BOOLEAN]
    PROVE  Values' /\ Tokens' /\ LimitInv'
BY DEF IInv, Values, Tokens, TokensAccounted, Holding, LimitInv, limit

(* main assigns err: the requests that rely on it are warned.               *)
LEMMA MainAssignsStep ==
    ASSUME IInv, NEW e \in {"nil", "error"}, NEW step \in {"kvtest", "test"}, MainAssigns(e, step),
           step = "kvtest" => e = "nil", step = "test" => main.left > 0
    PROVE  IInv'
<1>1. /\ main' = [main EXCEPT !.pc = step, !.failed = e = "error", !.raced = FALSE, !.gaveUp = FALSE]
      /\ main' \in [pc : MainPCs, left : 0..Services,
                     failed : BOOLEAN, raced : BOOLEAN, gaveUp : BOOLEAN]
      /\ err' = e /\ raced' \in [Reqs -> BOOLEAN]
      /\ \A r \in Reqs : raced'[r] <=> raced[r] \/ r \in Relying
      /\ UNCHANGED <<connc, pc, from, result, status, limit, lost>>
  BY DEF MainAssigns, IInv, Values, MainPCs
<1>2. Values' /\ Tokens' /\ LimitInv'
  BY <1>1, MainFrame
<1>3. ErrInv'
  BY <1>1 DEF IInv, ErrInv, Relying
<1>4. MainInv'
  BY <1>1 DEF IInv, Values, MainInv
<1> QED
  BY <1>2, <1>3, <1>4 DEF IInv

(* main reads err, or goes on.                                              *)
LEMMA MainGoesStep ==
    ASSUME IInv, KvTest \/ NatsTest \/ StartProxy
    PROVE  IInv'
<1>1. UNCHANGED <<connc, err, pc, from, result, status, raced, limit, lost>>
  BY DEF KvTest, NatsTest, StartProxy, MainGoes
<1>2. main' \in [pc : MainPCs, left : 0..Services,
                 failed : BOOLEAN, raced : BOOLEAN, gaveUp : BOOLEAN]
  <2>1. \A n \in 0..Services : n > 0 => n - 1 \in 0..Services
    BY ServicesAssumption
  <2>2. CASE NatsTest
    <3>1. main.left - 1 \in 0..Services
      BY <2>1, <2>2 DEF NatsTest, IInv, Values, MainInv
    <3> QED
      BY <2>2, <3>1 DEF NatsTest, MainGoes, IInv, Values, MainPCs
  <2>3. CASE KvTest \/ StartProxy
    BY <2>3 DEF KvTest, StartProxy, MainGoes, IInv, Values, MainPCs
  <2> QED
    BY <2>2, <2>3
<1>3. Values' /\ Tokens' /\ LimitInv'
  BY <1>1, <1>2, MainFrame DEF IInv, Values
<1>4. ErrInv'
  BY <1>1 DEF IInv, ErrInv
<1>5. MainInv'
  BY <1>1 DEF KvTest, NatsTest, StartProxy, MainGoes, IInv, Values, MainInv
<1> QED
  BY <1>3, <1>4, <1>5 DEF IInv

(* Every step keeps IInv. *)
LEMMA NextIInv == IInv /\ [Next]_vars => IInv'
<1> SUFFICES ASSUME IInv, [Next]_vars
             PROVE  IInv'
  OBVIOUS
<1>1. ASSUME NEW r \in Reqs, ApiRequest(r)
      PROVE  IInv'
  BY <1>1, ArriveStep DEF ApiRequest
<1>2. ASSUME NEW r \in Reqs, NEW i \in IPs, ProxyRequest(r, i)
      PROVE  IInv'
  BY <1>2, ArriveStep DEF ProxyRequest
<1>3. ASSUME NEW r \in Reqs, Handler(r)
      PROVE  IInv'
  BY <1>3, ServeStep, AnswerStep, CheckGetStep, CheckSetStep, EndStep DEF Handler
<1>4. ASSUME NEW i \in IPs, Expire(i)
      PROVE  IInv'
  BY <1>4, ExpireStep
<1>5. CASE Main
  <2>1. CASE KvConnect
    BY <2>1, MainAssignsStep DEF KvConnect
  <2>2. CASE NatsConnect
    BY <2>2, MainAssignsStep DEF NatsConnect
  <2> QED
    BY <1>5, <2>1, <2>2, MainGoesStep DEF Main
<1>6. CASE UNCHANGED vars
  BY <1>6 DEF vars, api, limit, IInv, Values, Tokens, TokensAccounted, Holding, ErrInv, MainInv, LimitInv
<1> QED
  BY <1>1, <1>2, <1>3, <1>4, <1>5, <1>6 DEF Next

(* IInv is an invariant. *)
LEMMA AlwaysIInv == Spec => []IInv
BY InitIInv, NextIInv, PTL DEF Spec

-----------------------------------------------------------------------------
(* Every variable is of its kind; the channel holds at most                 *)
(* MaximumConnections tokens, and no more than that are ever lost.          *)
THEOREM TypeCorrect == Spec => []TypeOK
<1>1. IInv => TypeOK
  BY HoldingCard, ConnectionsAssumption
     DEF IInv, Values, Tokens, TokensAccounted, TypeOK, PCs, MainPCs
<1> QED
  BY AlwaysIInv, <1>1, PTL

(* The tokens in connc, those of the running handlers and those lost to a   *)
(* panic or to a limited request are always MaximumConnections.             *)
THEOREM TokensAreAccounted == Spec => []TokensAccounted
<1>1. IInv => TokensAccounted
  BY DEF IInv, Tokens
<1> QED
  BY AlwaysIInv, <1>1, PTL

(* So a handler that is done can put its token back at once: the send to    *)
(* connc finds room, and no more than MaximumConnections run at a time.     *)
PutNeverBlocks ==
    /\ Cardinality(Holding) <= MaximumConnections
    /\ \A r \in Reqs : pc[r] = "return" => connc < MaximumConnections

(* connc <- struct{}{} never blocks a handler, for any number of requests.  *)
THEOREM TokensFitTheChannel == Spec => []PutNeverBlocks
<1>1. IInv => PutNeverBlocks
  <2> SUFFICES ASSUME IInv PROVE PutNeverBlocks
    OBVIOUS
  <2>1. Cardinality(Holding) \in Nat /\ connc \in Nat /\ lost \in Nat
    BY HoldingCard DEF IInv, Values
  <2>2. ASSUME NEW r \in Reqs, pc[r] = "return"
        PROVE  Cardinality(Holding) # 0
    <3>1. r \in Holding
      BY <2>2 DEF Holding
    <3> QED
      BY <3>1, FS_EmptySet DEF IInv, Tokens
  <2> QED
    BY <2>1, <2>2, ConnectionsAssumption DEF IInv, Tokens, TokensAccounted, PutNeverBlocks
<1> QED
  BY AlwaysIInv, <1>1, PTL

(* Only a goroutine whose err another one, main or a handler, assigned      *)
(* before it looked takes another's result for its own; an answer that      *)
(* serve wrote stands, and main never takes a failed connect for a success. *)
THEOREM FailuresAreReported == Spec => []FailureReported
<1>1. IInv => FailureReported
  <2> SUFFICES ASSUME IInv PROVE FailureReported
    OBVIOUS
  <2>1. \A r \in Reqs : pc[r] = "write" => err = "error" \/ raced[r]
    BY DEF IInv, ErrInv
  <2> QED
    BY <2>1 DEF IInv, ErrInv, MainInv, FailureReported
<1> QED
  BY AlwaysIInv, <1>1, PTL

(* An address passes the daily limit only by checks that overwrote each     *)
(* other, one request for each, for any limit and any number of requests.   *)
THEOREM LimitIsEnforced == Spec => []LimitEnforced
<1>1. IInv => LimitEnforced
  BY DEF IInv, LimitInv, LimitEnforced
<1> QED
  BY AlwaysIInv, <1>1, PTL
=============================================================================
