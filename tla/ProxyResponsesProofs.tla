------------------------ MODULE ProxyResponsesProofs ------------------------
(***************************************************************************)
(* What clients are told is true: proofs that the responses of the HTTP    *)
(* layer agree with the node and with the job engine, for any number of    *)
(* requests, blocks, restarts and changes of the configuration.            *)
(***************************************************************************)
EXTENDS PdaProxyProofs

-----------------------------------------------------------------------------
(* What a request may rely on, as a function of the state around it: the   *)
(* blocks nd of the node, the configuration cf, the attempts at and their  *)
(* seals sl.                                                               *)

(* Exists and Found, for any blocks.                                       *)
HasRead(r, nd) ==
  /\ r.asked.height \in DOMAIN nd
  /\ r.asked.method = "blob.Get" => r.asked.index \in DOMAIN nd[r.asked.height]
ReadOf(r, nd) ==
  IF r.asked.method = "blob.Get"
    THEN <<nd[r.asked.height][r.asked.index]>> ELSE nd[r.asked.height]

(* Some block has the submission, each blob sealed by an attempt at it.    *)
OnNode(blobs, nd, at, sl) ==
  \E n \in DOMAIN nd :
    /\ Len(nd[n]) = Len(blobs)
    /\ \A i \in 1 .. Len(nd[n]) :
         /\ nd[n][i].ns = blobs[i].ns /\ nd[n][i].text = blobs[i].text
         /\ \E m \in DOMAIN at : at[m] = blobs[i].text /\ nd[n][i].seal = sl[m]

(* The blobs of a read: proofs of the running program, decrypted where the *)
(* key is the running one.                                                 *)
Told(blobs, found, cf) ==
  /\ Len(blobs) = Len(found)
  /\ \A i \in 1 .. Len(found) :
       /\ found[i].seal # Clear /\ found[i].seal.program = cf.program
       /\ found[i].seal.secret = cf.secret =>
            blobs[i] = [ns |-> found[i].ns, text |-> found[i].text]

(* The fields of a request by how far it is.                               *)
Typed(r) ==
  /\ r \in RequestStates
  /\ r.pc = "idle" => r = Quiet
  /\ r.pc # "idle" => r.asked \in Asked
  /\ r.pc = "inbound" => r.got = None
  /\ r.pc = "outbound" => r.got \in {Served} \cup Failures
  /\ r.pc = "respond" => r.got \in Responses

(* A reply that says so is about blocks the node has, and so is the        *)
(* response made from it.                                                  *)
Backed(r, nd, cf, at, sl) ==
  /\ (r.pc = "outbound" /\ r.got = Served) \/ (r.pc = "respond" /\ r.got = Verbatim(Served)) =>
       (IsSubmit(r) => OnNode(r.asked.blobs, nd, at, sl))
  /\ r.pc = "outbound" /\ r.got = Served => (IsRead(r) => HasRead(r, nd))
  /\ r.pc = "respond" /\ r.got.tag = "decrypted" =>
       IsRead(r) /\ HasRead(r, nd) /\ Told(r.got.blobs, ReadOf(r, nd), cf)

(* A pending submission waits for a job that is in one of the trees.       *)
Waits(r, q, f) ==
  r.pc = "respond" /\ IsSubmit(r) /\ r.got = pending_response =>
    /\ Len(r.out) < Len(r.asked.blobs)
    /\ q[NextBlob(r).text] # None \/ f[NextBlob(r).text] # None

(* The variables of the HTTP layer that are not requests.                  *)
LedgerOK ==
  /\ node \in Seq(Seq(Stored)) /\ config \in Configs /\ made \in Nat
  /\ sealed \in Seq(Configs) /\ Len(sealed) = Len(attempts)

(* No request outlives the process, so that the configuration a response   *)
(* was made with is the running one.                                       *)
EndTogether == ~Running => \A h \in Handlers : request[h] = Quiet

Agree ==
  \A h \in Handlers : /\ Typed(request[h])
                      /\ Backed(request[h], node, config, attempts, sealed)
                      /\ Waits(request[h], queue, finished)

ResponseInv == LedgerOK /\ EndTogether /\ Agree

-----------------------------------------------------------------------------
(* What follows from it.                                                   *)

(* The responses are told apart by their tags.                             *)
LEMMA ResponseFacts ==
  /\ \A x \in Failures \cup {None} : x # Served
  /\ \A x \in {pending_response, bad_auth_response, internal_error_response} \cup Failures :
       x # Verbatim(Served) /\ x.tag # "decrypted"
  /\ \A x : Verbatim(x).tag # "decrypted" /\ Verbatim(x) # pending_response
  /\ Verbatim(NoResult) # Verbatim(Served)
  /\ \A x : Decrypted(x).tag = "decrypted" /\ Decrypted(x).blobs = x
           /\ Decrypted(x) # pending_response /\ Decrypted(x) # Verbatim(Served)
  /\ pending_response \notin {bad_auth_response, internal_error_response}
<1>1. /\ Served.tag = "served" /\ None.tag = "None" /\ pending_response.tag = "pending"
      /\ bad_auth_response.tag = "bad auth" /\ internal_error_response.tag = "internal error"
      /\ NoResult.tag = "no result"
  BY DEF None, Served, NoResult, pending_response, bad_auth_response, internal_error_response
<1>2. \A x \in Failures : x.tag \in {"unreachable", "unauthorized", "not json", "no result"}
  <2>1. /\ Unreachable.tag = "unreachable" /\ Unauthorized.tag = "unauthorized"
        /\ NotJson.tag = "not json" /\ NoResult.tag = "no result"
    BY DEF Unreachable, Unauthorized, NotJson, NoResult
  <2> QED BY <2>1 DEF Failures
<1>3. \A x : Verbatim(x).tag = "verbatim" /\ Verbatim(x).reply = x
  BY DEF Verbatim
<1>4. \A x : Decrypted(x).tag = "decrypted" /\ Decrypted(x).blobs = x
  BY DEF Decrypted
<1>5. Verbatim(NoResult) # Verbatim(Served)
  <2>1. Verbatim(NoResult).reply = NoResult /\ Verbatim(Served).reply = Served
    BY DEF Verbatim
  <2>2. NoResult # Served
    BY <1>1
  <2> QED BY <2>1, <2>2
<1>6. \A x \in Failures \cup {None} : x # Served
  BY <1>1, <1>2
<1>7. \A x \in {pending_response, bad_auth_response, internal_error_response} \cup Failures :
        x # Verbatim(Served) /\ x.tag # "decrypted"
  BY <1>1, <1>2, <1>3
<1> QED BY <1>1, <1>3, <1>4, <1>5, <1>6, <1>7

LEMMA ResponseTypes ==
  /\ {pending_response, bad_auth_response, internal_error_response,
      Verbatim(Served), Verbatim(NoResult)} \subseteq Responses
  /\ \A x \in Seq([ns : Namespaces, text : Keys \cup {Noise}]) : Decrypted(x) \in Responses
<1>1. ASSUME NEW S, NEW x \in S
      PROVE  Decrypted(x) \in [tag : {"decrypted"}, blobs : S]
  BY DEF Decrypted
<1> QED BY <1>1 DEF Responses

(* The three properties, from what requests rely on.                       *)
LEMMA ResponseInvImplies ==
  ASSUME ProxyInv, ResponseInv
  PROVE  ProxyTypeOK /\ ResponsesAreTrue /\ ReadsAreComplete
<1>1. ASSUME NEW h \in Handlers
      PROVE  /\ Typed(request[h]) /\ Matched(request[h], handler[h])
             /\ Backed(request[h], node, config, attempts, sealed)
             /\ Waits(request[h], queue, finished)
  BY DEF ResponseInv, Agree, ProxyInv, CallsMatch
<1>2. ProxyTypeOK
  <2>1. request = [h \in Handlers |-> request[h]] /\ \A h \in Handlers : request[h] \in RequestStates
    BY <1>1 DEF ProxyInv, RequestsOK, Typed
  <2>2. request \in [Handlers -> RequestStates]
    BY <2>1
  <2> QED BY <1>1, <2>2 DEF ProxyTypeOK, ResponseInv, LedgerOK, Matched
<1>3. ResponsesAreTrue
  <2> SUFFICES ASSUME NEW h \in Handlers, request[h].pc = "respond", IsSubmit(request[h])
               PROVE  /\ request[h].got = Verbatim(Served) =>
                           \E n \in DOMAIN node :
                             /\ Len(node[n]) = Len(request[h].asked.blobs)
                             /\ \A i \in 1 .. Len(node[n]) :
                                  Holds(node[n], i, request[h].asked.blobs[i])
                      /\ request[h].got = pending_response =>
                           /\ Len(request[h].out) < Len(request[h].asked.blobs)
                           /\ Known(NextBlob(request[h]).text)
    BY DEF ResponsesAreTrue
  <2>1. ASSUME request[h].got = Verbatim(Served)
        PROVE  \E n \in DOMAIN node :
                 /\ Len(node[n]) = Len(request[h].asked.blobs)
                 /\ \A i \in 1 .. Len(node[n]) : Holds(node[n], i, request[h].asked.blobs[i])
    <3>1. OnNode(request[h].asked.blobs, node, attempts, sealed)
      BY <1>1, <2>1 DEF Backed
    <3> QED BY <3>1 DEF OnNode, Holds
  <2>2. ASSUME request[h].got = pending_response
        PROVE  Len(request[h].out) < Len(request[h].asked.blobs) /\ Known(NextBlob(request[h]).text)
    BY <1>1, <2>2 DEF Waits, Known
  <2> QED BY <2>1, <2>2
<1>4. ReadsAreComplete
  <2> SUFFICES ASSUME NEW h \in Handlers, request[h].pc = "respond", request[h].got.tag = "decrypted"
               PROVE  Told(request[h].got.blobs, Found(request[h]), config)
    BY DEF ReadsAreComplete, Told
  <2> QED BY <1>1 DEF Backed, Found, ReadOf
<1> QED BY <1>2, <1>3, <1>4

-----------------------------------------------------------------------------
(* What time does not take away.                                           *)

(* A sequence that another one continues.                                  *)
Extends(new, old) == \A i \in DOMAIN old : i \in DOMAIN new /\ new[i] = old[i]

LEMMA AppendExtends ==
  ASSUME NEW S, NEW s \in Seq(S), NEW e \in S
  PROVE  Extends(Append(s, e), s) /\ Append(s, e) \in Seq(S)
BY DEF Extends

(* Blocks and attempts are only added, so what a reply says stays true.    *)
LEMMA BackedStays ==
  ASSUME NEW r, NEW nd, NEW nd2, NEW cf, NEW at, NEW at2, NEW sl, NEW sl2,
         Extends(nd2, nd), Extends(at2, at), Extends(sl2, sl), DOMAIN at = DOMAIN sl,
         Backed(r, nd, cf, at, sl)
  PROVE  Backed(r, nd2, cf, at2, sl2)
<1>1. ASSUME NEW blobs, OnNode(blobs, nd, at, sl)
      PROVE  OnNode(blobs, nd2, at2, sl2)
  <2>1. PICK n \in DOMAIN nd :
          /\ Len(nd[n]) = Len(blobs)
          /\ \A i \in 1 .. Len(nd[n]) :
               /\ nd[n][i].ns = blobs[i].ns /\ nd[n][i].text = blobs[i].text
               /\ \E m \in DOMAIN at : at[m] = blobs[i].text /\ nd[n][i].seal = sl[m]
    BY <1>1 DEF OnNode
  <2>2. n \in DOMAIN nd2 /\ nd2[n] = nd[n]
    BY <2>1 DEF Extends
  <2>3. ASSUME NEW i \in 1 .. Len(nd[n])
        PROVE  \E m \in DOMAIN at2 : at2[m] = blobs[i].text /\ nd2[n][i].seal = sl2[m]
    BY <2>1, <2>2 DEF Extends
  <2> QED BY <2>1, <2>2, <2>3 DEF OnNode
<1>2. ASSUME HasRead(r, nd)
      PROVE  HasRead(r, nd2) /\ ReadOf(r, nd2) = ReadOf(r, nd)
  BY <1>2 DEF HasRead, ReadOf, Extends
<1> QED BY <1>1, <1>2 DEF Backed

(* A request that is not being served relies on nothing.                   *)
LEMMA QuietAgrees ==
  /\ Typed(Quiet)
  /\ \A nd, cf, at, sl : Backed(Quiet, nd, cf, at, sl)
  /\ \A q, f : Waits(Quiet, q, f)
<1>1. Quiet.pc = "idle"
  BY DEF Quiet
<1>2. None \in Replies \cup Responses /\ << >> \in Seq(Sealed)
  BY DEF Replies
<1>3. Quiet \in RequestStates
  BY <1>2 DEF Quiet, RequestStates
<1> QED BY <1>1, <1>3 DEF Typed, Backed, Waits

-----------------------------------------------------------------------------
(* Steps of the engine.                                                    *)

(* A process starts only when none runs.                                   *)
LEMMA PhaseStep ==
  ASSUME EngineNext
  PROVE  /\ phase # "up" /\ phase' = "up" => ~Running
         /\ ~Running' => phase' = "down" \/ ~Running
<1>1. ASSUME NEW h \in Handlers, HandlerStep(h)
      PROVE  phase' = phase
  BY <1>1 DEF HandlerStep, ReturnFinished, RetryFailed, SendRetry, NotFinished, ReturnPending,
     NewJob, NewJobPanics, InsertJob, SendJob, StoreError, Return, HandlerOnly
<1>2. ASSUME NEW t \in Tasks, ProveStep(t)
      PROVE  phase' = phase
  BY <1>2 DEF ProveStep, StartProve, RequestProof, RecordRequest, SendBack, FetchProof,
     ProveLocal, handle_zk_client_error, AbandonProve, TaskOnly
<1>3. CASE WorkerStep \/ Flush \/ Crash
  <2>1. phase' = phase \/ phase' = "down"
    BY <1>3 DEF WorkerStep, SpawnProve, WorkerBreak, WorkerFlush, WorkerExit, Crash, Die, Flush,
       TaskOnly
  <2> QED BY <2>1 DEF Running
<1>4. CASE Shutdown \/ Start \/ StartPanics
  BY <1>4 DEF Shutdown, Start, StartPanics, Running
<1> QED BY <1>1, <1>2, <1>3, <1>4 DEF EngineNext, CallStep, Running

(* Every attempt has the seal of the process that made it.                 *)
LEMMA SealsStep ==
  ASSUME TypeOK, LedgerOK, EngineNext, Around
  PROVE  LedgerOK' /\ Extends(sealed', sealed) /\ Extends(attempts', attempts)
<1>1. Next
  BY EngineNextIsNext
<1>2. Extends(attempts', attempts)
  BY <1>1, AttemptsGrow DEF Extends
<1>3. node' = node /\ made' = made /\ config' \in Configs
  BY DEF Around, LedgerOK
<1>4. CASE attempts' = attempts
  BY <1>2, <1>3, <1>4 DEF Around, LedgerOK, Extends
<1>5. CASE attempts' # attempts
  <2>1. PICK k \in Keys : attempts' = Append(attempts, k)
    BY <1>1, <1>5, AttemptsAdded
  <2>2. sealed' = Append(sealed, config)
    BY <1>5 DEF Around
  <2>3. sealed' \in Seq(Configs) /\ Extends(sealed', sealed)
    BY <2>2, AppendExtends DEF LedgerOK
  <2>4. Len(sealed') = Len(attempts')
    BY <2>1, <2>2 DEF LedgerOK, TypeOK
  <2> QED BY <1>2, <1>3, <2>3, <2>4 DEF LedgerOK
<1> QED BY <1>4, <1>5

(* What requests rely on outlives a step of the engine, or they end.       *)
LEMMA EngineStepAgrees ==
  ASSUME TypeOK, ProxyInv, ResponseInv, EngineNext, Around
  PROVE  ResponseInv'
<1>1. LedgerOK' /\ Extends(sealed', sealed) /\ Extends(attempts', attempts)
  BY SealsStep DEF ResponseInv
<1>2. ASSUME request' = [h \in Handlers |-> Quiet]
      PROVE  ResponseInv'
  <2>1. \A h \in Handlers : request'[h] = Quiet
    BY <1>2
  <2> QED BY <1>1, <2>1, QuietAgrees DEF ResponseInv, EndTogether, Agree
<1>3. CASE phase' = "down"
  BY <1>2, <1>3 DEF Around
<1>4. CASE ~Running /\ phase' # "down"
  <2>1. request' = [h \in Handlers |-> Quiet]
    BY <1>4 DEF Around, ResponseInv, EndTogether, ProxyInv, RequestsOK
  <2> QED BY <1>2, <2>1
<1>5. CASE Running /\ phase' # "down"
  <2>1. request' = request /\ node' = node
    BY <1>5 DEF Around
  <2>2. config' = config /\ Running'
    BY <1>5, PhaseStep DEF Around
  <2>3. Next /\ ~Die
    BY <1>5, EngineNextIsNext DEF Die
  <2>4. DOMAIN attempts = DOMAIN sealed /\ Extends(node, node)
    BY DEF ResponseInv, LedgerOK, TypeOK, Extends
  <2>5. ASSUME NEW h \in Handlers
        PROVE  /\ Typed(request'[h])
               /\ Backed(request'[h], node', config', attempts', sealed')
               /\ Waits(request'[h], queue', finished')
    <3>1. /\ Typed(request[h]) /\ Backed(request[h], node, config, attempts, sealed)
          /\ Waits(request[h], queue, finished) /\ RequestOK(request[h])
      BY DEF ResponseInv, Agree, ProxyInv, RequestsOK
    <3>2. Backed(request[h], node', config', attempts', sealed')
      BY <1>1, <2>1, <2>2, <2>4, <3>1, BackedStays
    <3>3. Waits(request[h], queue', finished')
      <4> SUFFICES ASSUME request[h].pc = "respond", IsSubmit(request[h]),
                          request[h].got = pending_response
                   PROVE  /\ Len(request[h].out) < Len(request[h].asked.blobs)
                          /\ \/ queue'[NextBlob(request[h]).text] # None
                             \/ finished'[NextBlob(request[h]).text] # None
        BY DEF Waits
      <4>1. Len(request[h].out) < Len(request[h].asked.blobs) /\ Known(NextBlob(request[h]).text)
        BY <3>1 DEF Waits, Known
      <4>2. request[h].asked.blobs \in Seq(Blobs) /\ Len(request[h].out) \in Nat
        BY <3>1, ProxyAssumption DEF RequestOK
      <4>3. NextBlob(request[h]).text \in Keys
        <5>1. NextBlob(request[h]) \in Blobs
          BY <4>1, <4>2 DEF NextBlob
        <5> QED BY <5>1 DEF Blobs
      <4>4. \A k \in Keys : Known(k) => queue'[k] # None \/ finished'[k] # None
        BY <2>3, KnownStep DEF Known
      <4> QED BY <4>1, <4>3, <4>4
    <3> QED BY <2>1, <3>1, <3>2, <3>3
  <2> QED BY <1>1, <2>2, <2>5 DEF ResponseInv, EndTogether, Agree
<1> QED BY <1>3, <1>4, <1>5

-----------------------------------------------------------------------------
(* Steps of requests.                                                      *)

(* One request changes and the node may get a block; the others see only   *)
(* what they may rely on.                                                  *)
LEMMA OneRequestAgrees ==
  ASSUME TypeOK, ProxyInv, ResponseInv, NEW h \in Handlers, NEW r, Become(h, r),
         Running, UNCHANGED <<phase, trees, attempts, sealed, config>>,
         made' \in Nat, node' \in Seq(Seq(Stored)), Extends(node', node),
         Typed(r), Backed(r, node', config, attempts, sealed), Waits(r, queue, finished)
  PROVE  ResponseInv'
<1>1. request' = [g \in Handlers |-> IF g = h THEN r ELSE request[g]]
  BY DEF Become, ProxyInv, RequestsOK
<1>2. /\ config' = config /\ sealed' = sealed /\ attempts' = attempts
      /\ queue' = queue /\ finished' = finished /\ phase' = phase
  BY DEF trees
<1>3. LedgerOK' /\ EndTogether'
  BY <1>2 DEF ResponseInv, LedgerOK, EndTogether, Running
<1>4. ASSUME NEW g \in Handlers, g # h
      PROVE  /\ Typed(request[g]) /\ Waits(request[g], queue, finished)
             /\ Backed(request[g], node', config, attempts, sealed)
  <2>1. /\ Typed(request[g]) /\ Waits(request[g], queue, finished)
        /\ Backed(request[g], node, config, attempts, sealed)
    BY DEF ResponseInv, Agree
  <2>2. /\ DOMAIN attempts = DOMAIN sealed
        /\ Extends(attempts, attempts) /\ Extends(sealed, sealed)
    BY DEF ResponseInv, LedgerOK, TypeOK, Extends
  <2> QED BY <2>1, <2>2, BackedStays
<1>5. Agree'
  BY <1>1, <1>2, <1>4 DEF Agree
<1> QED BY <1>3, <1>5 DEF ResponseInv

(* The node and the configuration stay: only the request has to agree.     *)
LEMMA OnlyRequestAgrees ==
  ASSUME TypeOK, ProxyInv, ResponseInv, NEW h \in Handlers, NEW r, Become(h, r),
         Running, UNCHANGED <<phase, trees, attempts, sealed, config, node>>, made' \in Nat,
         Typed(r), Backed(r, node, config, attempts, sealed), Waits(r, queue, finished)
  PROVE  ResponseInv'
<1>1. node' = node /\ node' \in Seq(Seq(Stored)) /\ Extends(node', node)
  BY DEF ResponseInv, LedgerOK, Extends
<1> QED BY <1>1, OneRequestAgrees

(* Two fields of a request are replaced.                                   *)
LEMMA ReplaceTwo ==
  ASSUME NEW r \in RequestStates, NEW p \in {"idle", "inbound", "outbound", "respond"},
         NEW x \in Replies \cup Responses
  PROVE  LET new == [r EXCEPT !.pc = p, !.got = x]
         IN  /\ new \in RequestStates /\ new.pc = p /\ new.got = x
             /\ new.asked = r.asked /\ new.out = r.out
<1>1. ASSUME NEW A, NEW B, NEW C, NEW D, NEW q \in [pc : A, asked : B, out : C, got : D],
             NEW y \in A, NEW z \in D
      PROVE  LET new == [q EXCEPT !.pc = y, !.got = z]
             IN  /\ new \in [pc : A, asked : B, out : C, got : D] /\ new.pc = y /\ new.got = z
                 /\ new.asked = q.asked /\ new.out = q.out
  OBVIOUS
<1> QED BY <1>1 DEF RequestStates

(* What clients may offer is something they may ask.                       *)
LEMMA OfferedIsAsked ==
  ASSUME LedgerOK, NEW q \in Offered
  PROVE  q \in Asked
<1>1. DOMAIN node \subseteq Nat /\ 1 .. Len(node) + 1 \subseteq Nat
  BY DEF LedgerOK
<1>2. UNION {1 .. Len(node[i]) + 1 : i \in DOMAIN node} \subseteq Nat
  OBVIOUS
<1>3. \/ q \in [method : {"blob.Submit"}, blobs : Submissions]
      \/ q \in [method : {"blob.GetAll"}, height : 1 .. Len(node) + 1]
      \/ q \in [method : {"blob.Get"}, height : DOMAIN node,
                index : UNION {1 .. Len(node[i]) + 1 : i \in DOMAIN node}]
      \/ q \in [method : {"other"} \cup TurnedDown]
  BY DEF Offered
<1>4. ASSUME NEW A, A \subseteq Nat, q \in [method : {"blob.GetAll"}, height : A]
      PROVE  q \in [method : {"blob.GetAll"}, height : Nat]
  BY <1>4
<1>5. ASSUME NEW A, NEW B, A \subseteq Nat, B \subseteq Nat,
             q \in [method : {"blob.Get"}, height : A, index : B]
      PROVE  q \in [method : {"blob.Get"}, height : Nat, index : Nat]
  BY <1>5
<1> QED BY <1>1, <1>2, <1>3, <1>4, <1>5 DEF Asked

(* A new request has been told nothing, or that it is turned down.         *)
LEMMA ReceiveAgrees ==
  ASSUME TypeOK, ProxyInv, ResponseInv, NEW h \in Handlers, NEW q \in Offered, Receive(h, q)
  PROVE  ResponseInv'
<1> DEFINE g == CASE q.method = "no token" -> bad_auth_response
                  [] q.method \in {"no json", "bad params"} -> internal_error_response
                  [] OTHER -> None
           p == IF q.method \in TurnedDown THEN "respond" ELSE "inbound"
           r == [pc |-> p, asked |-> q, out |-> << >>, got |-> g]
<1>1. /\ Become(h, r) /\ Running /\ made' \in Nat
      /\ UNCHANGED <<phase, trees, attempts, sealed, config, node>>
  <2>1. Become(h, r)
    BY DEF Receive
  <2>2. Running /\ made' = made + 1 /\ UNCHANGED <<vars, node, config, sealed>>
    BY Zenon DEF Receive
  <2>3. made' \in Nat
    BY <2>2 DEF ResponseInv, LedgerOK
  <2>4. UNCHANGED <<phase, trees, attempts, sealed, config, node>>
    BY <2>2 DEF vars, trees
  <2> QED BY <2>1, <2>2, <2>3, <2>4
<1>2. q \in Asked
  BY OfferedIsAsked DEF ResponseInv
<1>3. \/ p = "respond" /\ g \in {bad_auth_response, internal_error_response}
      \/ p = "inbound" /\ g = None
  BY DEF TurnedDown
<1> HIDE DEF g, p
<1>4. g \in Replies \cup Responses
  BY <1>3, ResponseTypes DEF Replies
<1>5. r \in RequestStates /\ r.pc = p /\ r.asked = q /\ r.got = g
  BY <1>2, <1>3, <1>4 DEF RequestStates
<1> HIDE DEF r
<1>6. Typed(r)
  BY <1>2, <1>3, <1>5, ResponseTypes DEF Typed
<1>7. Backed(r, node, config, attempts, sealed)
  BY <1>3, <1>5, ResponseFacts DEF Backed
<1>8. Waits(r, queue, finished)
  BY <1>3, <1>5, ResponseFacts DEF Waits
<1> QED BY <1>1, <1>6, <1>7, <1>8, OnlyRequestAgrees

(* The call to the engine leaves all of this alone.                        *)
LEMMA EncryptAgrees ==
  ASSUME ResponseInv, NEW h \in Handlers, Encrypt(h)
  PROVE  ResponseInv'
<1>1. UNCHANGED <<request, node, config, sealed, made, attempts, queue, finished, phase>>
  BY DEF Encrypt, Call, proxy, trees
<1> QED BY <1>1 DEF ResponseInv, LedgerOK, EndTogether, Running, Agree

(* The engine's answer: a request that ends as pending has a job that the  *)
(* engine knows, because the answer said so.                               *)
LEMMA EncryptedAgrees ==
  ASSUME TypeOK, AnswersAreTrue, ProxyInv, ResponseInv, NEW h \in Handlers, Encrypted(h)
  PROVE  ResponseInv'
<1> DEFINE r == request[h]
           a == handler[h].answer
<1>1. /\ handler[h].pc = "reply" /\ Running /\ made' = made
      /\ UNCHANGED <<phase, trees, attempts, sealed, config, node>>
  BY DEF Encrypted, Return, HandlerOnly
<1>2. made' \in Nat
  BY <1>1 DEF ResponseInv, LedgerOK
<1>3. handler[h] # Idle /\ a \in Answers
  BY <1>1, CallFacts DEF TypeOK, Idle
<1>4. /\ RequestOK(r) /\ Whole(r, attempts) /\ Unsealed(r) /\ Typed(r)
      /\ handler[h].key = NextBlob(r).text
  BY <1>3, WholeRequests DEF ProxyInv, RequestsOK, CallsMatch, Matched, ResponseInv, Agree
<1>5. r \in RequestStates /\ r.pc = "inbound" /\ r.got = None /\ r.asked \in Asked
  BY <1>4 DEF Typed, Unsealed
<1>6. ASSUME NEW x \in {pending_response, internal_error_response}, Answer(h, x),
             x = pending_response => a = Pending
      PROVE  ResponseInv'
  <2> DEFINE new == [r EXCEPT !.pc = "respond", !.got = x]
  <2>1. Become(h, new)
    BY <1>6 DEF Answer
  <2>2. /\ new \in RequestStates /\ new.pc = "respond" /\ new.got = x
        /\ new.asked = r.asked /\ new.out = r.out
    <3>1. x \in Replies \cup Responses
      BY ResponseTypes
    <3> QED BY <1>5, <3>1, ReplaceTwo
  <2> HIDE DEF new
  <2>3. Typed(new)
    BY <1>5, <2>2, ResponseTypes DEF Typed
  <2>4. Backed(new, node, config, attempts, sealed)
    BY <2>2, ResponseFacts DEF Backed
  <2>5. ASSUME x = pending_response
        PROVE  Len(new.out) < Len(new.asked.blobs) /\ Known(NextBlob(new).text)
    BY <1>1, <1>4, <1>6, <2>2, <2>5 DEF AnswersAreTrue, Unsealed, NextBlob
  <2>6. Waits(new, queue, finished)
    BY <2>2, <2>5 DEF Waits, Known
  <2> QED BY <1>1, <1>2, <2>1, <2>3, <2>4, <2>6, OnlyRequestAgrees
<1>7. ASSUME a.tag = "ZkProofFinished",
             Become(h, [r EXCEPT !.out = Append(@, [ns |-> NextBlob(r).ns, proof |-> a])])
      PROVE  ResponseInv'
  <2> DEFINE e == [ns |-> NextBlob(r).ns, proof |-> a]
             new == [r EXCEPT !.out = Append(@, e)]
  <2>1. a \in ProofStatus
    BY <1>3, <1>7 DEF Answers, None, Pending, Error
  <2>2. e \in Sealed
    BY <1>4, <2>1, NextBlobIsBlob DEF Sealed
  <2>3. r.out \in Seq(Sealed)
    BY <1>4 DEF RequestOK
  <2> HIDE DEF e
  <2>4. Append(r.out, e) \in Seq(Sealed)
    BY <2>2, <2>3
  <2>5. new \in RequestStates /\ new.pc = "inbound" /\ new.got = None /\ new.asked = r.asked
    BY <1>5, <2>4 DEF RequestStates
  <2>6. Become(h, new)
    BY <1>7 DEF e
  <2> HIDE DEF new
  <2>7. Typed(new) /\ Backed(new, node, config, attempts, sealed) /\ Waits(new, queue, finished)
    BY <1>5, <2>5 DEF Typed, Backed, Waits
  <2> QED BY <1>1, <1>2, <2>6, <2>7, OnlyRequestAgrees
<1>8. pending_response # internal_error_response
  BY ResponseFacts
<1> QED BY <1>6, <1>7, <1>8 DEF Encrypted

-----------------------------------------------------------------------------
(* The node and outbound_handler.                                          *)

(* The block that a whole submission becomes is the one clients are told   *)
(* of: its encryptions are of its own blobs, under the seals of attempts   *)
(* at them.                                                                *)
LEMMA PostedIsOnNode ==
  ASSUME TypeOK, LedgerOK, NEW r, RequestOK(r), Whole(r, attempts), IsSubmit(r), Forwardable(r)
  PROVE  /\ Posted(r.out) \in Seq(Stored)
         /\ OnNode(r.asked.blobs, Append(node, Posted(r.out)), attempts, sealed)
<1> DEFINE b == Posted(r.out)
           blobs == r.asked.blobs
           new == Append(node, b)
<1>1. /\ blobs \in Seq(Blobs) /\ r.out \in Seq(Sealed) /\ Len(r.out) \in Nat
      /\ Len(r.out) = Len(blobs) /\ r.pc = "inbound"
  BY ProxyAssumption DEF RequestOK, Forwardable
<1>2. ASSUME NEW i \in 1 .. Len(r.out)
      PROVE  /\ r.out[i].ns = blobs[i].ns /\ r.out[i].proof.key = blobs[i].text
             /\ r.out[i].proof.nonce \in DOMAIN attempts
             /\ attempts[r.out[i].proof.nonce] = blobs[i].text
             /\ sealed[r.out[i].proof.nonce] \in Configs
             /\ blobs[i].ns \in Namespaces /\ blobs[i].text \in Keys
  <2>1. /\ r.out[i].ns = blobs[i].ns /\ r.out[i].proof.key = blobs[i].text
        /\ r.out[i].proof.nonce \in DOMAIN attempts
        /\ attempts[r.out[i].proof.nonce] = blobs[i].text
    BY <1>1 DEF Whole
  <2>2. sealed[r.out[i].proof.nonce] \in Configs
    BY <2>1 DEF LedgerOK, TypeOK
  <2>3. blobs[i] \in Blobs
    BY <1>1
  <2> QED BY <2>1, <2>2, <2>3 DEF Blobs
<1>3. b = [i \in 1 .. Len(r.out) |-> [ns |-> r.out[i].ns, text |-> r.out[i].proof.key,
                                      seal |-> sealed[r.out[i].proof.nonce]]]
  BY DEF Posted
<1> HIDE DEF b, blobs
<1>4. ASSUME NEW i \in 1 .. Len(r.out)
      PROVE  b[i] \in Stored /\ b[i].ns = blobs[i].ns /\ b[i].text = blobs[i].text
             /\ b[i].seal = sealed[r.out[i].proof.nonce]
  BY <1>2, <1>3, ProxyAssumption DEF Stored
<1>5. DOMAIN b = 1 .. Len(r.out) /\ b \in Seq(Stored) /\ Len(b) = Len(blobs)
  <2>1. b \in [1 .. Len(r.out) -> Stored]
    BY <1>3, <1>4
  <2> HIDE DEF b
  <2> QED BY <1>1, <2>1
<1>6. Len(node) + 1 \in DOMAIN new /\ new[Len(node) + 1] = b
  BY <1>5 DEF LedgerOK
<1>7. OnNode(blobs, new, attempts, sealed)
  BY <1>1, <1>2, <1>4, <1>5, <1>6 DEF OnNode
<1> QED BY <1>5, <1>7 DEF b, blobs

(* verify_decrypt_blob on each blob of a read.                             *)
LEMMA OpenedIsTold ==
  ASSUME LedgerOK, NEW found \in Seq(Stored), \A i \in DOMAIN found : Verifies(found[i])
  PROVE  /\ Opened(found) \in Seq([ns : Namespaces, text : Keys \cup {Noise}])
         /\ Told(Opened(found), found, config)
<1> DEFINE o == Opened(found)
           P == [ns : Namespaces, text : Keys \cup {Noise}]
<1>1. o = [i \in 1 .. Len(found) |-> verify_decrypt_blob(found[i])] /\ Len(found) \in Nat
  BY DEF Opened
<1>2. ASSUME NEW i \in 1 .. Len(found)
      PROVE  /\ verify_decrypt_blob(found[i]) \in P
             /\ found[i].seal # Clear /\ found[i].seal.program = config.program
             /\ found[i].seal.secret = config.secret =>
                  verify_decrypt_blob(found[i]) = [ns |-> found[i].ns, text |-> found[i].text]
  <2>1. found[i] \in Stored
    OBVIOUS
  <2>2. found[i].ns \in Namespaces /\ found[i].text \in Keys
    BY <2>1 DEF Stored
  <2> QED BY <2>2 DEF verify_decrypt_blob, Verifies
<1> HIDE DEF o, P
<1>3. o \in [1 .. Len(found) -> P] /\ \A i \in 1 .. Len(found) : o[i] = verify_decrypt_blob(found[i])
  BY <1>1, <1>2
<1>4. o \in Seq(P) /\ Len(o) = Len(found)
  BY <1>1, <1>3
<1>5. Told(o, found, config)
  BY <1>2, <1>3, <1>4 DEF Told
<1> QED BY <1>4, <1>5 DEF o, P

(* TryDecrypt on a read that the node has.                                 *)
LEMMA TryDecryptIsTold ==
  ASSUME LedgerOK, NEW r, HasRead(r, node)
  PROVE  /\ TryDecrypt(r) \in Responses
         /\ \/ TryDecrypt(r) = Verbatim(Served)
            \/ /\ TryDecrypt(r).tag = "decrypted"
               /\ TryDecrypt(r) # Verbatim(Served) /\ TryDecrypt(r) # pending_response
               /\ Told(TryDecrypt(r).blobs, ReadOf(r, node), config)
<1>1. ReadOf(r, node) \in Seq(Stored) /\ Found(r) = ReadOf(r, node)
  <2>1. node[r.asked.height] \in Seq(Stored)
    BY DEF HasRead, LedgerOK
  <2>2. ASSUME r.asked.method = "blob.Get"
        PROVE  node[r.asked.height][r.asked.index] \in Stored
    BY <2>1, <2>2 DEF HasRead
  <2>3. \A x \in Stored : <<x>> \in Seq(Stored)
    OBVIOUS
  <2> QED BY <2>1, <2>2, <2>3 DEF ReadOf, Found
<1> DEFINE f == Found(r)
<1>2. \/ TryDecrypt(r) = Decrypted(Opened(f)) /\ \A i \in DOMAIN f : Verifies(f[i])
      \/ TryDecrypt(r) = Verbatim(Served)
  BY DEF TryDecrypt
<1>3. CASE TryDecrypt(r) = Decrypted(Opened(f)) /\ \A i \in DOMAIN f : Verifies(f[i])
  <2>1. /\ Opened(f) \in Seq([ns : Namespaces, text : Keys \cup {Noise}])
        /\ Told(Opened(f), f, config)
    BY <1>1, <1>3, OpenedIsTold
  <2>2. TryDecrypt(r) \in Responses
    BY <1>3, <2>1, ResponseTypes
  <2>3. TryDecrypt(r).tag = "decrypted" /\ TryDecrypt(r).blobs = Opened(f)
    BY <1>3 DEF Decrypted
  <2>4. TryDecrypt(r) # Verbatim(Served) /\ TryDecrypt(r) # pending_response
    BY <2>3 DEF Verbatim, pending_response
  <2> QED BY <1>1, <2>1, <2>2, <2>3, <2>4
<1>4. CASE TryDecrypt(r) = Verbatim(Served)
  BY <1>4, ResponseTypes
<1> QED BY <1>2, <1>3, <1>4

(* The node's reply to a forwarded request.                                *)
LEMMA NodeAgrees ==
  ASSUME TypeOK, ProxyInv, ResponseInv, NEW h \in Handlers, NodeServes(h) \/ NodeFails(h)
  PROVE  ResponseInv'
<1> DEFINE r == request[h]
<1>1. /\ Running /\ Forwardable(r) /\ made' = made
      /\ UNCHANGED <<phase, trees, attempts, sealed, config>>
  BY DEF NodeServes, NodeFails, vars, trees
<1>2. made' \in Nat /\ LedgerOK
  BY <1>1 DEF ResponseInv, LedgerOK
<1>3. /\ RequestOK(r) /\ Whole(r, attempts) /\ r \in RequestStates
      /\ r.pc = "inbound" /\ r.asked \in Asked
  BY <1>1, WholeRequests DEF ProxyInv, RequestsOK, ResponseInv, Agree, Typed, Forwardable
<1>4. /\ node' \in Seq(Seq(Stored)) /\ Extends(node', node)
      /\ NodeServes(h) => /\ IsSubmit(r) => OnNode(r.asked.blobs, node', attempts, sealed)
                          /\ IsRead(r) => HasRead(r, node')
  <2>1. CASE NodeServes(h) /\ IsSubmit(r)
    <3>1. node' = Append(node, Posted(r.out)) /\ ~IsRead(r)
      BY <2>1 DEF NodeServes, IsSubmit, IsRead
    <3>2. Posted(r.out) \in Seq(Stored)
          /\ OnNode(r.asked.blobs, Append(node, Posted(r.out)), attempts, sealed)
      BY <1>1, <1>2, <1>3, <2>1, PostedIsOnNode
    <3>3. node \in Seq(Seq(Stored))
      BY <1>2 DEF LedgerOK
    <3> QED BY <3>1, <3>2, <3>3, AppendExtends
  <2>2. CASE ~(NodeServes(h) /\ IsSubmit(r))
    <3>1. node' = node /\ (NodeServes(h) => (IsRead(r) => HasRead(r, node)))
      BY <2>2 DEF NodeServes, NodeFails, Exists, HasRead
    <3>2. node \in Seq(Seq(Stored)) /\ Extends(node, node)
      BY <1>2 DEF LedgerOK, Extends
    <3> QED BY <2>2, <3>1, <3>2
  <2> QED BY <2>1, <2>2
<1>5. PICK x \in {Served} \cup Failures :
        /\ Become(h, [r EXCEPT !.pc = "outbound", !.got = x])
        /\ x = Served => NodeServes(h)
  <2>1. CASE NodeServes(h)
    BY <2>1 DEF NodeServes, Failures
  <2>2. CASE NodeFails(h)
    BY <2>2, ResponseFacts DEF NodeFails
  <2> QED BY <2>1, <2>2
<1> DEFINE new == [r EXCEPT !.pc = "outbound", !.got = x]
<1>6. /\ new \in RequestStates /\ new.pc = "outbound" /\ new.got = x
      /\ new.asked = r.asked /\ new.out = r.out
  <2>1. x \in Replies \cup Responses
    BY DEF Replies
  <2> QED BY <1>3, <2>1, ReplaceTwo
<1>7. Become(h, new)
  BY <1>5
<1> HIDE DEF new
<1>8. Typed(new)
  BY <1>3, <1>6 DEF Typed
<1>9. Backed(new, node', config, attempts, sealed)
  BY <1>4, <1>5, <1>6 DEF Backed, IsSubmit, IsRead, HasRead
<1>10. Waits(new, queue, finished)
  BY <1>6 DEF Waits
<1> QED BY <1>1, <1>2, <1>4, <1>7, <1>8, <1>9, <1>10, OneRequestAgrees

(* The response that outbound_handler makes of it.                         *)
LEMMA OutboundAgrees ==
  ASSUME TypeOK, ProxyInv, ResponseInv, NEW h \in Handlers, outbound_handler(h)
  PROVE  ResponseInv'
<1> DEFINE r == request[h]
<1>1. /\ Running /\ r.pc = "outbound" /\ made' = made
      /\ UNCHANGED <<phase, trees, attempts, sealed, config, node>>
  BY DEF outbound_handler, vars, trees
<1>2. made' \in Nat /\ LedgerOK
  BY <1>1 DEF ResponseInv, LedgerOK
<1>3. /\ r \in RequestStates /\ r.asked \in Asked /\ RequestOK(r)
      /\ Backed(r, node, config, attempts, sealed)
  BY <1>1 DEF ProxyInv, RequestsOK, ResponseInv, Agree, Typed
<1>4. ASSUME NEW x \in Responses, Answer(h, x), x # pending_response,
             x = Verbatim(Served) => r.got = Served,
             x.tag = "decrypted" =>
               IsRead(r) /\ HasRead(r, node) /\ Told(x.blobs, ReadOf(r, node), config)
      PROVE  ResponseInv'
  <2> DEFINE new == [r EXCEPT !.pc = "respond", !.got = x]
  <2>1. Become(h, new)
    BY <1>4 DEF Answer
  <2>2. /\ new \in RequestStates /\ new.pc = "respond" /\ new.got = x
        /\ new.asked = r.asked /\ new.out = r.out
    <3>1. x \in Replies \cup Responses
      BY <1>4
    <3> QED BY <1>3, <3>1, ReplaceTwo
  <2> HIDE DEF new
  <2>3. Typed(new)
    BY <1>3, <1>4, <2>2 DEF Typed
  <2>4. HasRead(new, node) = HasRead(r, node) /\ ReadOf(new, node) = ReadOf(r, node)
    BY <2>2 DEF HasRead, ReadOf
  <2>5. Backed(new, node, config, attempts, sealed)
    BY <1>1, <1>3, <1>4, <2>2, <2>4 DEF Backed, IsSubmit, IsRead
  <2>6. Waits(new, queue, finished)
    BY <1>4, <2>2 DEF Waits
  <2> QED BY <1>1, <1>2, <2>1, <2>3, <2>5, <2>6, OnlyRequestAgrees
<1>5. ASSUME NEW x \in {internal_error_response, bad_auth_response, Verbatim(NoResult)}, Answer(h, x)
      PROVE  ResponseInv'
  <2>1. x \in Responses
    BY ResponseTypes
  <2>2. x # pending_response /\ x # Verbatim(Served) /\ x.tag # "decrypted"
    BY ResponseFacts
  <2> QED BY <1>4, <1>5, <2>1, <2>2
<1>6. CASE r.got = Served /\ IsRead(r) /\ Answer(h, TryDecrypt(r))
  <2>1. HasRead(r, node)
    BY <1>1, <1>3, <1>6 DEF Backed
  <2>2. TryDecrypt(r) \in Responses
    BY <1>2, <2>1, TryDecryptIsTold
  <2>3. \/ TryDecrypt(r) = Verbatim(Served)
        \/ /\ TryDecrypt(r).tag = "decrypted"
           /\ TryDecrypt(r) # Verbatim(Served) /\ TryDecrypt(r) # pending_response
           /\ Told(TryDecrypt(r).blobs, ReadOf(r, node), config)
    BY <1>2, <2>1, TryDecryptIsTold
  <2>4. Verbatim(Served) # pending_response /\ Verbatim(Served).tag # "decrypted"
    BY ResponseFacts
  <2> QED BY <1>4, <1>6, <2>1, <2>2, <2>3, <2>4
<1>7. CASE r.got = Served /\ Answer(h, Verbatim(Served))
  <2>1. /\ Verbatim(Served) # pending_response /\ Verbatim(Served).tag # "decrypted"
        /\ Verbatim(Served) \in Responses
    BY ResponseFacts, ResponseTypes
  <2> QED BY <1>4, <1>7, <2>1
<1> QED BY <1>5, <1>6, <1>7 DEF outbound_handler

(* The response is sent, its client is gone, or the engine panicked.       *)
LEMMA EndAgrees ==
  ASSUME TypeOK, ProxyInv, ResponseInv, NEW h \in Handlers,
         Respond(h) \/ Disconnect(h) \/ Panicked(h)
  PROVE  ResponseInv'
<1>1. /\ Running /\ Become(h, Quiet) /\ made' = made
      /\ UNCHANGED <<phase, trees, attempts, sealed, config, node>>
  BY DEF Respond, Disconnect, Panicked, NewJobPanics, HandlerOnly, vars, trees
<1>2. made' \in Nat
  BY <1>1 DEF ResponseInv, LedgerOK
<1> QED BY <1>1, <1>2, QuietAgrees, OnlyRequestAgrees

-----------------------------------------------------------------------------
(* Theorems.                                                               *)

LEMMA ResponseStep ==
  ASSUME TypeOK, AnswersAreTrue, ProxyInv, ResponseInv, [ProxyNext]_all
  PROVE  ResponseInv'
<1>1. CASE UNCHANGED all
  <2>1. UNCHANGED <<request, node, config, sealed, made, attempts, queue, finished, phase>>
    BY <1>1 DEF all, vars, proxy
  <2> QED BY <2>1 DEF ResponseInv, LedgerOK, EndTogether, Running, Agree
<1>2. CASE EngineNext /\ Around
  BY <1>2, EngineStepAgrees
<1>3. ASSUME NEW h \in Handlers, NEW q \in Offered, Receive(h, q)
      PROVE  ResponseInv'
  BY <1>3, ReceiveAgrees
<1>4. ASSUME NEW h \in Handlers, RequestStep(h) \/ NodeStep(h) \/ Disconnect(h)
      PROVE  ResponseInv'
  BY <1>4, EncryptAgrees, EncryptedAgrees, NodeAgrees, OutboundAgrees, EndAgrees
     DEF RequestStep, NodeStep
<1> QED BY <1>1, <1>2, <1>3, <1>4 DEF ProxyNext

(* The invariant holds of the HTTP layer over the engine.                  *)
LEMMA ResponseInvariant == ProxySpec => [](ProxyInv /\ ResponseInv)
<1>1. ProxyInit => ResponseInv
  <2> SUFFICES ASSUME ProxyInit
               PROVE  ResponseInv
    OBVIOUS
  <2>1. LedgerOK
    BY ProxyAssumption DEF ProxyInit, Init, LedgerOK
  <2>2. \A h \in Handlers : request[h] = Quiet
    BY DEF ProxyInit
  <2> QED BY <2>1, <2>2, QuietAgrees DEF ResponseInv, EndTogether, Agree
<1>2. TypeOK /\ AnswersAreTrue /\ ProxyInv /\ ResponseInv /\ [ProxyNext]_all => ResponseInv'
  BY ResponseStep
<1> QED BY <1>1, <1>2, ProxyInvariant, PTL DEF ProxySpec

(* The HTTP layer's state has its types, the engine is called only for the *)
(* blob a submission is at, and every attempt has a seal.                  *)
THEOREM ProxyTypes == ProxySpec => []ProxyTypeOK
BY ResponseInvariant, ResponseInvImplies, PTL

(* A blob.Submit that is answered with the node's result is on the node,   *)
(* whole, encrypted and in order; one that is answered as pending waits    *)
(* for a job of the engine. Both still hold when the client is told.       *)
THEOREM TrueResponses == ProxySpec => []ResponsesAreTrue
BY ResponseInvariant, ResponseInvImplies, PTL

(* A blob.Get or blob.GetAll that is answered with decrypted blobs has all *)
(* of them, in order, and what was encrypted under the running key is what *)
(* was submitted, whatever was posted between the read and the answer.     *)
THEOREM CompleteReads == ProxySpec => []ReadsAreComplete
BY ResponseInvariant, ResponseInvImplies, PTL
=============================================================================
