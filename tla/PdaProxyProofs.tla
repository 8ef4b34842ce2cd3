--------------------------- MODULE PdaProxyProofs ---------------------------
(***************************************************************************)
(* Proofs about the HTTP layer over the job engine, for any number of      *)
(* requests, jobs, blobs and restarts.                                     *)
(***************************************************************************)
EXTENDS PdaProxy, PdaRunnerProofs

-----------------------------------------------------------------------------
(* Requests.                                                               *)

(* What a request keeps of a submission: the client's blobs, and as many   *)
(* encryptions as it has gathered.                                         *)
RequestOK(r) ==
  /\ DOMAIN r = {"pc", "asked", "out", "got"}
  /\ r.pc \in {"idle", "inbound", "outbound", "respond"}
  /\ r.pc # "idle" /\ IsSubmit(r) => r.asked.blobs \in Submissions
  /\ r.out \in Seq(Sealed)

RequestsOK ==
  /\ request = [h \in Handlers |-> request[h]]
  /\ \A h \in Handlers : RequestOK(request[h])

(* The engine works for a request exactly on its next blob.                *)
Matched(r, c) == c # Idle => Unsealed(r) /\ c.key = NextBlob(r).text

CallsMatch == \A h \in Handlers : Matched(request[h], handler[h])

(* The blobs of a submission are blobs.                                    *)
LEMMA NextBlobIsBlob ==
  ASSUME NEW r, RequestOK(r), Unsealed(r)
  PROVE  /\ r.asked.blobs \in Seq(Blobs) /\ Len(r.out) \in Nat
         /\ NextBlob(r) \in Blobs /\ NextBlob(r).text \in Keys /\ NextBlob(r).ns \in Namespaces
<1>1. r.asked.blobs \in Seq(Blobs) /\ r.out \in Seq(Sealed)
  BY ProxyAssumption DEF RequestOK, Unsealed
<1>2. Len(r.out) \in Nat /\ Len(r.out) < Len(r.asked.blobs)
  BY <1>1 DEF Unsealed
<1>3. NextBlob(r) \in Blobs
  BY <1>1, <1>2 DEF NextBlob
<1> QED BY <1>1, <1>2, <1>3 DEF Blobs

(* SubmissionsAreWhole for one request, given the attempts.                *)
Whole(r, a) ==
  r.pc # "idle" /\ IsSubmit(r) =>
    /\ Len(r.out) <= Len(r.asked.blobs)
    /\ \A i \in 1 .. Len(r.out) :
         /\ r.out[i].ns = r.asked.blobs[i].ns
         /\ r.out[i].proof.tag = "ZkProofFinished"
         /\ r.out[i].proof.key = r.asked.blobs[i].text
         /\ r.out[i].proof.nonce \in DOMAIN a
         /\ a[r.out[i].proof.nonce] = r.asked.blobs[i].text
    /\ r.pc = "outbound" => Len(r.out) = Len(r.asked.blobs)

LEMMA WholeRequests ==
  /\ SubmissionsAreWhole <=> \A h \in Handlers : Whole(request[h], attempts)
  /\ SubmissionsAreWhole' <=> \A h \in Handlers : Whole(request'[h], attempts')
BY DEF SubmissionsAreWhole, Whole, Genuine, IsSubmit

(* More attempts do not make a request less whole.                         *)
LEMMA WholeStays ==
  ASSUME NEW a, NEW b, \A i \in DOMAIN a : i \in DOMAIN b /\ b[i] = a[i],
         NEW r, Whole(r, a)
  PROVE  Whole(r, b)
BY DEF Whole

(* A request that is not being served satisfies everything.                *)
LEMMA QuietFacts ==
  /\ RequestOK(Quiet) /\ Quiet.pc = "idle" /\ ~Unsealed(Quiet)
  /\ \A a : Whole(Quiet, a)
BY DEF Quiet, RequestOK, Unsealed, Whole

-----------------------------------------------------------------------------
(* The engine under the HTTP layer.                                        *)

(* A step of the engine that ends no call is a step of the engine.         *)
LEMMA EngineNextIsNext == EngineNext => Next
BY DEF EngineNext, CallStep, Next

(* Every step of the HTTP layer is a step of the engine or leaves it alone. *)
LEMMA ProxyStepIsEngineStep ==
  ASSUME RequestsOK, ProxyNext
  PROVE  [Next]_vars
<1>1. ASSUME EngineNext
      PROVE  Next
  BY <1>1, EngineNextIsNext
<1>2. ASSUME NEW h \in Handlers, Encrypt(h)
      PROVE  Next
  <2>1. NextBlob(request[h]).text \in Keys
    BY <1>2, NextBlobIsBlob DEF Encrypt, RequestsOK
  <2> QED BY <1>2, <2>1 DEF Encrypt, Next
<1>3. ASSUME NEW h \in Handlers, Encrypted(h) \/ Panicked(h)
      PROVE  Next
  BY <1>3 DEF Encrypted, Panicked, Next, HandlerStep
<1>4. ASSUME NEW h \in Handlers,
             NodeServes(h) \/ NodeFails(h) \/ outbound_handler(h) \/ Respond(h) \/ Disconnect(h)
      PROVE  UNCHANGED vars
  BY <1>4 DEF NodeServes, NodeFails, outbound_handler, Respond, Disconnect
<1>5. ASSUME NEW h \in Handlers, NEW r, Receive(h, r)
      PROVE  UNCHANGED vars
  BY <1>5 DEF Receive
<1> QED BY <1>1, <1>2, <1>3, <1>4, <1>5 DEF ProxyNext, RequestStep, NodeStep

(* A call moves on with its job, the end of the process ends all calls,    *)
(* and no other step of the engine touches a call.                         *)
LEMMA EngineKeepsCalls ==
  ASSUME TypeOK, EngineNext
  PROVE  /\ phase' = "down" => \A g \in Handlers : handler'[g] = Idle
         /\ phase' # "down" => \A g \in Handlers :
              /\ handler[g] = Idle => handler'[g] = Idle
              /\ handler[g] # Idle => handler'[g].key = handler[g].key
<1> DEFINE Kept == \A g \in Handlers : /\ handler[g] = Idle => handler'[g] = Idle
                                       /\ handler[g] # Idle => handler'[g].key = handler[g].key
<1>1. ASSUME NEW h \in Handlers, CallStep(h)
      PROVE  Kept /\ phase' # "down"
  <2>0. HandlerStep(h) /\ ~Return(h) /\ ~NewJobPanics(h)
    <3>1. Goto(h, Idle) => handler'[h] = Idle
      BY DEF Goto, TypeOK
    <3> QED BY <1>1, <3>1 DEF CallStep, Return, NewJobPanics
  <2>1. Running /\ phase' = phase
    BY <2>0 DEF HandlerStep, ReturnFinished, RetryFailed, SendRetry, NotFinished, ReturnPending,
       NewJob, InsertJob, SendJob, StoreError, HandlerOnly
  <2>2. handler[h].pc # "idle"
    BY <2>0 DEF HandlerStep, ReturnFinished, RetryFailed, SendRetry, NotFinished, ReturnPending,
       NewJob, InsertJob, SendJob, StoreError
  <2>3. \E x : Goto(h, x) /\ x.key = handler[h].key
    <3>1. ASSUME NEW a, Reply(h, a)
          PROVE  \E x : Goto(h, x) /\ x.key = handler[h].key
      BY <3>1 DEF Reply
    <3>2. CASE ReturnFinished(h) \/ ReturnPending(h) \/ SendJob(h) \/ StoreError(h)
      BY <3>1, <3>2 DEF ReturnFinished, ReturnPending, SendJob, StoreError
    <3>3. CASE RetryFailed(h) \/ SendRetry(h) \/ NotFinished(h) \/ InsertJob(h)
      BY <3>3 DEF RetryFailed, SendRetry, NotFinished, InsertJob
    <3>4. CASE NewJob(h)
      BY <3>1, <3>4 DEF NewJob
    <3> QED BY <2>0, <3>2, <3>3, <3>4 DEF HandlerStep
  <2>4. PICK x : Goto(h, x) /\ x.key = handler[h].key
    BY <2>3
  <2>5. handler \in [Handlers -> CallStates] /\ handler[h] # Idle
    BY <2>2 DEF TypeOK, Idle
  <2> QED BY <2>1, <2>4, <2>5 DEF Goto, Running
<1>2. ASSUME NEW t \in Tasks, ProveStep(t)
      PROVE  Kept /\ phase' # "down"
  <2>1. Running /\ phase' = phase /\ handler' = handler
    BY <1>2 DEF ProveStep, StartProve, RequestProof, RecordRequest, SendBack, FetchProof,
       ProveLocal, handle_zk_client_error, AbandonProve, Working, TaskOnly
  <2> QED BY <2>1 DEF Running
<1>3. ASSUME WorkerStep
      PROVE  Die \/ (Kept /\ phase' # "down")
  <2>1. CASE WorkerExit
    BY <2>1 DEF WorkerExit
  <2>2. CASE (\E t \in Tasks : SpawnProve(t)) \/ WorkerBreak \/ WorkerFlush
    <3>1. Running /\ phase' = phase /\ handler' = handler
      BY <2>2 DEF SpawnProve, WorkerBreak, WorkerFlush, TaskOnly
    <3> QED BY <3>1 DEF Running
  <2> QED BY <1>3, <2>1, <2>2 DEF WorkerStep
<1>4. ASSUME Flush \/ Shutdown \/ Start \/ StartPanics
      PROVE  Kept /\ phase' # "down"
  BY <1>4 DEF Flush, Shutdown, Start, StartPanics, Running
<1>5. ASSUME Die
      PROVE  phase' = "down" /\ \A g \in Handlers : handler'[g] = Idle
  BY <1>5 DEF Die
<1> QED BY <1>1, <1>2, <1>3, <1>4, <1>5 DEF EngineNext, Crash

-----------------------------------------------------------------------------
(* What holds of all requests between any two steps.                       *)
ProxyInv == RequestsOK /\ CallsMatch /\ SubmissionsAreWhole

(* One request changes, and nothing but its own call with it.              *)
LEMMA OneRequestChanges ==
  ASSUME ProxyInv, NEW h \in Handlers, NEW r, Become(h, r), RequestOK(r),
         Whole(r, attempts), attempts' = attempts, Matched(r, handler'[h]),
         \A g \in Handlers \ {h} : handler'[g] = handler[g]
  PROVE  ProxyInv'
<1>1. request' = [g \in Handlers |-> IF g = h THEN r ELSE request[g]]
  BY DEF Become, ProxyInv, RequestsOK
<1>2. RequestsOK'
  BY <1>1 DEF ProxyInv, RequestsOK
<1>3. CallsMatch'
  BY <1>1 DEF ProxyInv, CallsMatch
<1>4. SubmissionsAreWhole'
  BY <1>1, WholeRequests DEF ProxyInv
<1> QED BY <1>2, <1>3, <1>4 DEF ProxyInv

(* A request that moves on and records a reply or a response keeps its     *)
(* encryptions; it is forwarded only with all of them.                     *)
LEMMA MovesOn ==
  ASSUME NEW r, NEW a, RequestOK(r), r.pc # "idle", Whole(r, a),
         NEW p \in {"outbound", "respond"}, p = "outbound" => Forwardable(r), NEW x
  PROVE  /\ RequestOK([r EXCEPT !.pc = p, !.got = x])
         /\ Whole([r EXCEPT !.pc = p, !.got = x], a)
<1> DEFINE new == [r EXCEPT !.pc = p, !.got = x]
<1>1. DOMAIN new = {"pc", "asked", "out", "got"} /\ new.pc = p
  BY DEF RequestOK
<1>2. new.asked = r.asked /\ new.out = r.out
  BY DEF RequestOK
<1> HIDE DEF new
<1>3. RequestOK(new)
  BY <1>1, <1>2 DEF RequestOK, IsSubmit
<1>4. Whole(new, a)
  BY <1>1, <1>2 DEF Whole, IsSubmit, Forwardable
<1> QED BY <1>3, <1>4 DEF new

(* An encryption that comes back joins the request's others.               *)
LEMMA JoinsOthers ==
  ASSUME NEW r, NEW a, RequestOK(r), Unsealed(r), Whole(r, a), NEW s \in ProofStatus,
         s.key = NextBlob(r).text, s.nonce \in DOMAIN a, a[s.nonce] = s.key
  PROVE  LET x == [r EXCEPT !.out = Append(@, [ns |-> NextBlob(r).ns, proof |-> s])]
         IN  RequestOK(x) /\ Whole(x, a)
<1> DEFINE e == [ns |-> NextBlob(r).ns, proof |-> s]
           x == [r EXCEPT !.out = Append(@, e)]
<1>1. /\ r.asked.blobs \in Seq(Blobs) /\ r.out \in Seq(Sealed)
      /\ Len(r.out) \in Nat /\ Len(r.asked.blobs) \in Nat /\ Len(r.out) < Len(r.asked.blobs)
      /\ r.pc = "inbound" /\ r.asked.method = "blob.Submit"
  BY NextBlobIsBlob DEF RequestOK, Unsealed, IsSubmit
<1>2. e \in Sealed
  BY NextBlobIsBlob DEF Sealed
<1>3. e.ns = r.asked.blobs[Len(r.out) + 1].ns /\ e.proof = s /\ s.tag = "ZkProofFinished"
  BY DEF NextBlob, ProofStatus
<1>4. DOMAIN x = {"pc", "asked", "out", "got"} /\ x.out = Append(r.out, e)
  BY DEF RequestOK
<1>5. x.pc = "inbound" /\ x.asked = r.asked
  BY <1>1 DEF RequestOK
<1> HIDE DEF x, e
<1>6. /\ x.out \in Seq(Sealed) /\ Len(x.out) = Len(r.out) + 1
      /\ x.out[Len(r.out) + 1] = e /\ \A i \in 1 .. Len(r.out) : x.out[i] = r.out[i]
  BY <1>1, <1>2, <1>4
<1>7. RequestOK(x)
  BY <1>4, <1>5, <1>6, <1>1 DEF RequestOK, IsSubmit
<1>8. ASSUME NEW i \in 1 .. Len(x.out)
      PROVE  /\ x.out[i].ns = r.asked.blobs[i].ns
             /\ x.out[i].proof.tag = "ZkProofFinished"
             /\ x.out[i].proof.key = r.asked.blobs[i].text
             /\ x.out[i].proof.nonce \in DOMAIN a
             /\ a[x.out[i].proof.nonce] = r.asked.blobs[i].text
  <2>1. CASE i = Len(r.out) + 1
    BY <2>1, <1>3, <1>6 DEF NextBlob
  <2>2. CASE i \in 1 .. Len(r.out)
    BY <2>2, <1>1, <1>6 DEF Whole, IsSubmit
  <2> QED BY <1>1, <1>6, <2>1, <2>2
<1>9. Whole(x, a)
  BY <1>5, <1>6, <1>8, <1>1 DEF Whole
<1> QED BY <1>7, <1>9 DEF x, e

-----------------------------------------------------------------------------
(* Steps.                                                                  *)

(* A step of the engine: requests stay as they are, or end together.       *)
LEMMA EngineStepKeeps ==
  ASSUME TypeOK, ProxyInv, EngineNext, Around
  PROVE  ProxyInv'
<1>1. \A i \in DOMAIN attempts : i \in DOMAIN attempts' /\ attempts'[i] = attempts[i]
  BY AttemptsGrow, EngineNextIsNext
<1>2. CASE phase' = "down"
  <2>1. request' = [h \in Handlers |-> Quiet] /\ \A g \in Handlers : handler'[g] = Idle
    BY <1>2, EngineKeepsCalls DEF Around
  <2>2. RequestsOK'
    BY <2>1, QuietFacts DEF RequestsOK
  <2>3. CallsMatch'
    BY <2>1 DEF CallsMatch, Matched
  <2>4. SubmissionsAreWhole'
    BY <2>1, QuietFacts, WholeRequests
  <2> QED BY <2>2, <2>3, <2>4 DEF ProxyInv
<1>3. CASE phase' # "down"
  <2>1. request' = request
    BY <1>3 DEF Around
  <2>2. RequestsOK'
    BY <2>1 DEF ProxyInv, RequestsOK
  <2>3. CallsMatch'
    BY <1>3, <2>1, EngineKeepsCalls DEF ProxyInv, CallsMatch, Matched
  <2>4. SubmissionsAreWhole'
    BY <1>1, <2>1, WholeRequests, WholeStays DEF ProxyInv
  <2> QED BY <2>2, <2>3, <2>4 DEF ProxyInv
<1> QED BY <1>2, <1>3

(* A submission that clients may offer is one of Submissions.              *)
LEMMA OfferedSubmissions ==
  ASSUME NEW q \in Offered, q.method = "blob.Submit"
  PROVE  q.blobs \in Submissions
BY DEF Offered, TurnedDown

(* A new request has gathered nothing.                                     *)
LEMMA ReceiveKeeps ==
  ASSUME ProxyInv, NEW h \in Handlers, NEW q \in Offered, Receive(h, q)
  PROVE  ProxyInv'
<1> DEFINE g == CASE q.method = "no token" -> bad_auth_response
                  [] q.method \in {"no json", "bad params"} -> internal_error_response
                  [] OTHER -> None
           p == IF q.method \in TurnedDown THEN "respond" ELSE "inbound"
           r == [pc |-> p, asked |-> q, out |-> << >>, got |-> g]
<1>1. Become(h, r) /\ attempts' = attempts /\ handler' = handler /\ request[h].pc = "idle"
  BY DEF Receive, vars
<1>2. q.method = "blob.Submit" => q.blobs \in Submissions
  BY OfferedSubmissions
<1>3. p \in {"inbound", "respond"}
  OBVIOUS
<1> HIDE DEF g, p
<1>4. /\ DOMAIN r = {"pc", "asked", "out", "got"} /\ r.pc = p /\ r.asked = q
      /\ r.out = << >>
  OBVIOUS
<1> HIDE DEF r
<1>5. RequestOK(r)
  BY <1>2, <1>3, <1>4 DEF RequestOK, IsSubmit
<1>6. Whole(r, attempts)
  <2>1. q.method = "blob.Submit" => Len(q.blobs) \in Nat
    BY <1>2, ProxyAssumption
  <2> QED BY <1>3, <1>4, <2>1 DEF Whole, IsSubmit
<1>7. handler[h] = Idle
  BY <1>1 DEF ProxyInv, CallsMatch, Matched, Unsealed
<1>8. Matched(r, handler'[h])
  BY <1>1, <1>7 DEF Matched
<1> QED BY <1>1, <1>5, <1>6, <1>8, OneRequestChanges

(* The engine is called for the request's next blob.                       *)
LEMMA EncryptKeeps ==
  ASSUME TypeOK, ProxyInv, NEW h \in Handlers, Encrypt(h)
  PROVE  ProxyInv'
<1>1. request' = request /\ attempts' = attempts /\ Unsealed(request[h])
  BY DEF Encrypt, Call, proxy
<1>2. handler' = [handler EXCEPT ![h] = [pc |-> "finished", key |-> NextBlob(request[h]).text]]
  BY DEF Encrypt, Call, Goto
<1>3. handler'[h].key = NextBlob(request[h]).text /\ \A g \in Handlers \ {h} : handler'[g] = handler[g]
  BY <1>2 DEF TypeOK
<1>4. RequestsOK'
  BY <1>1 DEF ProxyInv, RequestsOK
<1>5. CallsMatch'
  BY <1>1, <1>3 DEF ProxyInv, CallsMatch, Matched
<1>6. SubmissionsAreWhole'
  BY <1>1, WholeRequests DEF ProxyInv
<1> QED BY <1>4, <1>5, <1>6 DEF ProxyInv

(* The engine's answer is a proof of that blob, or ends the request.       *)
LEMMA EncryptedKeeps ==
  ASSUME TypeOK, AnswersAreTrue, ProxyInv, NEW h \in Handlers, Encrypted(h)
  PROVE  ProxyInv'
<1> DEFINE r == request[h]
           a == handler[h].answer
<1>1. /\ handler[h].pc = "reply" /\ attempts' = attempts
      /\ handler' = [handler EXCEPT ![h] = Idle]
  BY DEF Encrypted, Return, Goto, HandlerOnly
<1>2. handler[h] # Idle /\ a \in Answers
  BY <1>1, CallFacts DEF TypeOK, Idle
<1>3. RequestOK(r) /\ Whole(r, attempts) /\ Unsealed(r) /\ handler[h].key = NextBlob(r).text
  BY <1>2, WholeRequests DEF ProxyInv, RequestsOK, CallsMatch, Matched
<1>4. handler'[h] = Idle /\ \A g \in Handlers \ {h} : handler'[g] = handler[g]
  BY <1>1 DEF TypeOK
<1>5. ASSUME NEW x, Answer(h, x)
      PROVE  ProxyInv'
  <2>1. Become(h, [r EXCEPT !.pc = "respond", !.got = x])
    BY <1>5 DEF Answer
  <2>2. r.pc # "idle"
    BY <1>3 DEF Unsealed
  <2>3. RequestOK([r EXCEPT !.pc = "respond", !.got = x])
        /\ Whole([r EXCEPT !.pc = "respond", !.got = x], attempts)
    BY <1>3, <2>2, MovesOn
  <2> QED BY <1>1, <1>4, <2>1, <2>3, OneRequestChanges DEF Matched
<1>6. ASSUME a.tag = "ZkProofFinished",
             Become(h, [r EXCEPT !.out = Append(@, [ns |-> NextBlob(r).ns, proof |-> a])])
      PROVE  ProxyInv'
  <2>1. a \in ProofStatus
    BY <1>2, <1>6 DEF Answers, None, Pending, Error
  <2>2. a.key = NextBlob(r).text /\ a.nonce \in DOMAIN attempts /\ attempts[a.nonce] = a.key
    BY <1>1, <1>3, <1>6 DEF AnswersAreTrue, Genuine
  <2> DEFINE x == [r EXCEPT !.out = Append(@, [ns |-> NextBlob(r).ns, proof |-> a])]
  <2>3. RequestOK(x) /\ Whole(x, attempts)
    BY <1>3, <2>1, <2>2, JoinsOthers
  <2>4. Become(h, x)
    BY <1>6
  <2> HIDE DEF x
  <2> QED BY <1>1, <1>4, <2>3, <2>4, OneRequestChanges DEF Matched
<1> QED BY <1>5, <1>6 DEF Encrypted

(* A request that panics with the engine leaves nothing.                   *)
LEMMA PanickedKeeps ==
  ASSUME TypeOK, ProxyInv, NEW h \in Handlers, Panicked(h)
  PROVE  ProxyInv'
<1>1. Become(h, Quiet) /\ Goto(h, Idle) /\ attempts' = attempts
  BY DEF Panicked, NewJobPanics, HandlerOnly
<1>2. handler'[h] = Idle /\ \A g \in Handlers \ {h} : handler'[g] = handler[g]
  BY <1>1 DEF Goto, TypeOK
<1> QED BY <1>1, <1>2, QuietFacts, OneRequestChanges DEF Matched

(* The node's reply and the response: no call is under way.                *)
LEMMA ForwardedKeeps ==
  ASSUME ProxyInv, NEW h \in Handlers,
         NodeServes(h) \/ NodeFails(h) \/ outbound_handler(h) \/ Respond(h) \/ Disconnect(h)
  PROVE  ProxyInv'
<1> DEFINE r == request[h]
<1>1. attempts' = attempts /\ handler' = handler
  BY DEF NodeServes, NodeFails, outbound_handler, Respond, Disconnect, vars
<1>2. RequestOK(r) /\ Whole(r, attempts) /\ Matched(r, handler[h])
  BY WholeRequests DEF ProxyInv, RequestsOK, CallsMatch
<1>3. r.pc # "idle" /\ ~Unsealed(r)
  <2>1. CASE Forwardable(r)
    <3>1. IsSubmit(r) => Len(r.out) = Len(r.asked.blobs) /\ Len(r.out) \in Nat
      BY <1>2, <2>1 DEF Forwardable, RequestOK
    <3> QED BY <2>1, <3>1 DEF Forwardable, Unsealed
  <2>2. CASE r.pc \in {"outbound", "respond"}
    BY <2>2 DEF Unsealed
  <2> QED BY <2>1, <2>2 DEF NodeServes, NodeFails, outbound_handler, Respond, Disconnect
<1>4. handler'[h] = Idle /\ \A g \in Handlers \ {h} : handler'[g] = handler[g]
  BY <1>1, <1>2, <1>3 DEF Matched
<1>5. ASSUME NEW p \in {"outbound", "respond"}, NEW x, p = "outbound" => Forwardable(r),
             Become(h, [r EXCEPT !.pc = p, !.got = x])
      PROVE  ProxyInv'
  <2>1. RequestOK([r EXCEPT !.pc = p, !.got = x])
        /\ Whole([r EXCEPT !.pc = p, !.got = x], attempts)
    BY <1>2, <1>3, <1>5, MovesOn
  <2> QED BY <1>1, <1>4, <1>5, <2>1, OneRequestChanges DEF Matched
<1>6. ASSUME NEW x, Answer(h, x)
      PROVE  ProxyInv'
  BY <1>5, <1>6 DEF Answer
<1>7. CASE NodeServes(h) \/ NodeFails(h)
  BY <1>5, <1>7 DEF NodeServes, NodeFails
<1>8. CASE outbound_handler(h)
  BY <1>6, <1>8 DEF outbound_handler
<1>9. CASE Respond(h) \/ Disconnect(h)
  <2>1. Become(h, Quiet)
    BY <1>9 DEF Respond, Disconnect
  <2> QED BY <1>1, <1>4, <2>1, QuietFacts, OneRequestChanges DEF Matched
<1> QED BY <1>7, <1>8, <1>9

-----------------------------------------------------------------------------
(* Theorems.                                                               *)

LEMMA ProxyStepKeeps ==
  ASSUME TypeOK, AnswersAreTrue, ProxyInv, [ProxyNext]_all
  PROVE  ProxyInv'
<1>1. CASE UNCHANGED all
  <2>1. request' = request /\ handler' = handler /\ attempts' = attempts
    BY <1>1 DEF all, vars, proxy
  <2> QED BY <2>1, WholeRequests DEF ProxyInv, RequestsOK, CallsMatch
<1>2. CASE EngineNext /\ Around
  BY <1>2, EngineStepKeeps
<1>3. ASSUME NEW h \in Handlers, NEW q \in Offered, Receive(h, q)
      PROVE  ProxyInv'
  BY <1>3, ReceiveKeeps
<1>4. ASSUME NEW h \in Handlers, RequestStep(h) \/ NodeStep(h) \/ Disconnect(h)
      PROVE  ProxyInv'
  BY <1>4, EncryptKeeps, EncryptedKeeps, PanickedKeeps, ForwardedKeeps DEF RequestStep, NodeStep
<1> QED BY <1>1, <1>2, <1>3, <1>4 DEF ProxyNext

(* What the engine keeps by itself, step by step.                          *)
LEMMA EngineInvariantStep ==
  ASSUME TypeOK, RecordsAreGenuine, AnswersAreTrue, [Next]_vars
  PROVE  (TypeOK /\ RecordsAreGenuine /\ AnswersAreTrue)'
<1>1. CASE Next
  BY <1>1, HandlerStepType, ProveStepType, OtherStepType, RecordsStep, AnswersStep DEF Next
<1>2. CASE UNCHANGED vars
  BY <1>2 DEF vars, trees, TypeOK, RecordsAreGenuine, Genuine, AnswersAreTrue, Known
<1> QED BY <1>1, <1>2

(* The invariant holds of the HTTP layer over the engine. The engine's own *)
(* invariants are carried along: they are needed for the step, and the     *)
(* step is an engine step only because requests ask for known jobs.        *)
LEMMA ProxyInvariant ==
  ProxySpec => [](TypeOK /\ RecordsAreGenuine /\ AnswersAreTrue /\ ProxyInv)
<1> DEFINE Inv == TypeOK /\ RecordsAreGenuine /\ AnswersAreTrue /\ ProxyInv
<1>1. ProxyInit => Inv
  <2> SUFFICES ASSUME ProxyInit
               PROVE  Inv
    OBVIOUS
  <2>1. Init /\ request = [h \in Handlers |-> Quiet]
    BY DEF ProxyInit
  <2>2. TypeOK /\ RecordsAreGenuine /\ AnswersAreTrue
    BY <2>1, InitType DEF Init, RecordsAreGenuine, Genuine, AnswersAreTrue, Empty, None, Idle
  <2>3. RequestsOK
    BY <2>1, QuietFacts DEF RequestsOK
  <2>4. CallsMatch
    BY <2>1 DEF CallsMatch, Matched, Init
  <2>5. SubmissionsAreWhole
    BY <2>1, QuietFacts, WholeRequests
  <2> QED BY <2>2, <2>3, <2>4, <2>5 DEF ProxyInv
<1>2. Inv /\ [ProxyNext]_all => Inv'
  <2> SUFFICES ASSUME Inv, [ProxyNext]_all
               PROVE  Inv'
    OBVIOUS
  <2>1. ProxyInv'
    BY ProxyStepKeeps
  <2>2. [Next]_vars
    BY ProxyStepIsEngineStep DEF all, ProxyInv
  <2>3. (TypeOK /\ RecordsAreGenuine /\ AnswersAreTrue)'
    BY <2>2, EngineInvariantStep
  <2> QED BY <2>1, <2>3
<1> QED BY <1>1, <1>2, PTL DEF ProxySpec

(* Composed with the HTTP layer, the engine runs as it does alone: every   *)
(* request task, whatever its client, the node and the process do, drives  *)
(* get_verifiable_encryption only in ways that the engine's specification  *)
(* allows. All that is proved of the engine therefore holds in the proxy.  *)
THEOREM ProxyImplementsEngine == ProxySpec => Spec
<1>1. ProxyInit => Init
  BY DEF ProxyInit
<1>2. ProxyInv /\ [ProxyNext]_all => [Next]_vars
  BY ProxyStepIsEngineStep DEF all, ProxyInv
<1> QED BY <1>1, <1>2, ProxyInvariant, PTL DEF ProxySpec, Spec

(* inbound_handler forwards a blob.Submit only when it has an encryption   *)
(* for every blob, each of the blob it stands for, in order and in its     *)
(* namespace, whatever happens while the engine works on them.             *)
THEOREM WholeSubmissions == ProxySpec => []SubmissionsAreWhole
BY ProxyInvariant, PTL DEF ProxyInv
=============================================================================
