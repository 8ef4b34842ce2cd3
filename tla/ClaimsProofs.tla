---------------------------- MODULE ClaimsProofs ----------------------------
(***************************************************************************)
(* Some of what the repository says of the program and runs refute, proved *)
(* under the condition that rules the counterexample out: nothing but that *)
(* condition is in the way of each claim.                                  *)
(***************************************************************************)
EXTENDS RunnerClaims, ProxyResponsesProofs

-----------------------------------------------------------------------------
(* Errors that are not classified.                                         *)

(* Every queued job is on its way, none is left behind.                    *)
NobodyStranded == stranded = {}
AllDriven      == Running => \A k \in Keys : queue[k] # None => Driven(k)

(* Every Err arm of prove notes that the job has been finalized. That is   *)
(* so of every error but the ones outside handle_zk_client_error: without  *)
(* them each queued job has somebody to work on it, in all interleavings.  *)
THEOREM OnlyFaultsStrand ==
  ASSUME Faults = {}
  PROVE  Spec => []AllDriven
<1>1. Init => NobodyStranded
  BY DEF Init, NobodyStranded
<1>2. NobodyStranded /\ [Next]_vars => NobodyStranded'
  <2> SUFFICES ASSUME stranded = {}, Next
               PROVE  stranded' = {}
    BY DEF vars, NobodyStranded
  <2>1. ASSUME NEW h \in Handlers, HandlerStep(h)
        PROVE  stranded' = {}
    BY <2>1 DEF HandlerStep, ReturnFinished, RetryFailed, SendRetry, NotFinished, ReturnPending,
       NewJob, NewJobPanics, InsertJob, SendJob, StoreError, Return, send_job_with_new_status
  <2>2. ASSUME NEW t \in Tasks, ProveStep(t)
        PROVE  stranded' = {}
    BY <2>2 DEF ProveStep, StartProve, RequestProof, RecordRequest, SendBack, FetchProof,
       ProveLocal, handle_zk_client_error, AbandonProve, finalize_job, send_job_with_new_status
  <2>3. CASE \/ \E h \in Handlers, k \in Keys : Call(h, k)
             \/ WorkerStep \/ Flush \/ Shutdown \/ Crash \/ Start \/ StartPanics
    BY <2>3 DEF Call, WorkerStep, SpawnProve, WorkerBreak, WorkerFlush, WorkerExit, Crash, Die,
       Flush, Shutdown, Start, StartPanics
  <2> QED BY <2>1, <2>2, <2>3 DEF Next
<1>3. NobodyStranded /\ QueuedJobsAreDriven => AllDriven
  BY DEF NobodyStranded, QueuedJobsAreDriven, AllDriven
<1> QED BY <1>1, <1>2, <1>3, DrivenJobs, PTL DEF Spec

-----------------------------------------------------------------------------
(* Jobs that leave for the network.                                        *)

(* Nothing that would send a job to the network is kept anywhere.          *)
HomeStatus(s)  == s \in {None, LocalZkProofPending}
HomeTask(a)    == a.pc # "resend" /\ (a.pc = "work" => a.status = LocalZkProofPending)
StaysHome ==
  /\ \A k \in Keys : /\ HomeStatus(queue[k]) /\ HomeStatus(disk.queue[k])
                     /\ ~Retryable(finished[k]) /\ ~Retryable(disk.finished[k])
  /\ \A h \in Handlers : handler[h].pc # "retry"
  /\ \A t \in Tasks : HomeTask(task[t])

LEMMA HomeFacts ==
  /\ HomeStatus(None) /\ HomeStatus(LocalZkProofPending) /\ ~Retryable(None)
  /\ \A k, n : ~Retryable(ZkProofFinished(k, n))
  /\ \A class : class # "retryable" => ~Retryable(FailureOf(class))
  /\ HomeTask(Idle)
  /\ LocalZkProofPending.tag = "LocalZkProofPending"
  /\ LocalZkProofPending # RemoteZkProofRequesting
BY DEF HomeStatus, Retryable, None, ZkProofFinished, FailureOf, Failed, HomeTask, Idle,
   LocalZkProofPending, RemoteZkProofRequesting

(* A call starts jobs for the local prover only.                           *)
LEMMA HomeHandlerStep ==
  ASSUME "network" \notin Provers, TypeOK, StaysHome, NEW h \in Handlers, HandlerStep(h)
  PROVE  StaysHome'
<1>1. disk' = disk /\ task' = task
  BY DEF HandlerStep, ReturnFinished, RetryFailed, SendRetry, NotFinished, ReturnPending,
     NewJob, NewJobPanics, InsertJob, SendJob, StoreError, Return, HandlerOnly
<1>2. handler[h].pc # "retry" /\ (handler[h].pc # "idle" => handler[h].key \in Keys)
  BY CallFacts DEF StaysHome, TypeOK
<1>3. /\ \E x : Goto(h, x) /\ x.pc # "retry"
      /\ finished' = finished
      /\ queue' = queue \/ \E k \in Keys : queue' = [queue EXCEPT ![k] = InitialStatus]
  <2>1. ASSUME NEW a, Reply(h, a)
        PROVE  \E x : Goto(h, x) /\ x.pc # "retry"
    BY <2>1 DEF Reply
  <2>2. CASE ReturnFinished(h) \/ ReturnPending(h) \/ SendJob(h) \/ StoreError(h)
    BY <2>1, <2>2 DEF ReturnFinished, ReturnPending, SendJob, StoreError, trees
  <2>3. CASE NewJob(h)
    BY <2>1, <2>3 DEF NewJob, trees
  <2>4. CASE NotFinished(h)
    BY <2>4 DEF NotFinished, trees
  <2>5. CASE InsertJob(h)
    <3>1. /\ Goto(h, [pc |-> "send", key |-> handler[h].key, answer |-> Pending])
          /\ handler[h].pc = "insert" /\ finished' = finished
          /\ queue' = [queue EXCEPT ![handler[h].key] = InitialStatus]
      BY <2>5 DEF InsertJob
    <3>2. [pc |-> "send", key |-> handler[h].key, answer |-> Pending].pc # "retry"
      OBVIOUS
    <3> QED BY <1>2, <3>1, <3>2
  <2>6. CASE Return(h) \/ NewJobPanics(h)
    BY <2>6 DEF Return, NewJobPanics, trees, Idle
  <2>7. CASE RetryFailed(h)
    <3>1. handler[h].pc = "finished" /\ Retryable(finished[handler[h].key])
      BY <2>7 DEF RetryFailed
    <3> QED BY <1>2, <3>1 DEF StaysHome
  <2>8. CASE SendRetry(h)
    BY <1>2, <2>8 DEF SendRetry
  <2> QED BY <2>2, <2>3, <2>4, <2>5, <2>6, <2>7, <2>8 DEF HandlerStep
<1>4. InitialStatus = LocalZkProofPending
  BY DEF InitialStatus, TypeOK
<1>5. \A g \in Handlers : handler'[g].pc # "retry"
  BY <1>3 DEF Goto, StaysHome, TypeOK
<1>6. \A k \in Keys : HomeStatus(queue'[k])
  BY <1>3, <1>4, HomeFacts DEF StaysHome, TypeOK
<1> QED BY <1>1, <1>3, <1>5, <1>6 DEF StaysHome

(* A local job ends as a proof or as failed for good.                      *)
LEMMA HomeProveStep ==
  ASSUME "retryable" \notin LocalErrors, TypeOK, StaysHome, NEW t \in Tasks, ProveStep(t)
  PROVE  StaysHome'
<1>1. disk' = disk /\ handler' = handler
  BY DEF ProveStep, StartProve, RequestProof, RecordRequest, SendBack, FetchProof,
     ProveLocal, handle_zk_client_error, AbandonProve, TaskOnly
<1>2. /\ HomeTask(task[t]) /\ task[t].pc # "resend"
      /\ task[t].pc = "work" => task[t].status = LocalZkProofPending
      /\ task[t].pc # "idle" => task[t].key \in Keys
  BY TaskFacts DEF StaysHome, TypeOK, HomeTask
<1>3. ASSUME NEW x, SetTask(t, x), HomeTask(x)
      PROVE  \A u \in Tasks : HomeTask(task'[u])
  BY <1>3 DEF SetTask, StaysHome, TypeOK
<1>4. ASSUME NEW s, finalize_job(task[t].key, s), ~Retryable(s), task[t].pc = "work", SetTask(t, Idle)
      PROVE  StaysHome'
  <2>1. \A k \in Keys : HomeStatus(queue'[k]) /\ ~Retryable(finished'[k])
    BY <1>2, <1>4, HomeFacts DEF finalize_job, StaysHome, TypeOK
  <2> QED BY <1>1, <1>3, <1>4, <2>1, HomeFacts DEF StaysHome
<1>5. ASSUME UNCHANGED trees, NEW x, SetTask(t, x), HomeTask(x)
      PROVE  StaysHome'
  BY <1>1, <1>3, <1>5 DEF StaysHome, trees
<1>6. CASE ProveLocal(t)
  BY <1>4, <1>6, HomeFacts DEF ProveLocal, Working
<1>7. ASSUME NEW class \in ErrorClasses, handle_zk_client_error(t, class)
      PROVE  StaysHome'
  <2>1. class # "retryable"
    BY <1>2, <1>7 DEF handle_zk_client_error
  <2> QED BY <1>4, <1>7, <2>1, HomeFacts DEF handle_zk_client_error
<1>8. CASE StartProve(t)
  <2> DEFINE k == task[t].key
  <2>1. k \in Keys /\ HomeStatus(queue[k]) /\ UNCHANGED trees
    BY <1>2, <1>8 DEF StartProve, StaysHome
  <2>2. SetTask(t, IF queue[k] \in QueueStatus
                     THEN [pc |-> "work", key |-> k, status |-> queue[k]] ELSE Idle)
    BY <1>8 DEF StartProve
  <2>3. CASE queue[k] \in QueueStatus
    <3>1. queue[k] = LocalZkProofPending
      BY <2>1, <2>3, QueueStatusFacts DEF HomeStatus
    <3>2. HomeTask([pc |-> "work", key |-> k, status |-> queue[k]])
      BY <3>1 DEF HomeTask
    <3> QED BY <1>5, <2>1, <2>2, <2>3, <3>2
  <2>4. CASE queue[k] \notin QueueStatus
    BY <1>5, <2>1, <2>2, <2>4, HomeFacts
  <2> QED BY <2>3, <2>4
<1>9. CASE SendBack(t) \/ AbandonProve(t)
  BY <1>5, <1>9, HomeFacts DEF SendBack, AbandonProve
<1>10. ~RequestProof(t) /\ ~RecordRequest(t) /\ ~FetchProof(t)
  BY <1>2, HomeFacts DEF RequestProof, RecordRequest, FetchProof, Working
<1> QED BY <1>6, <1>7, <1>8, <1>9, <1>10 DEF ProveStep

(* example.env says that SP1_PROVER tells where proofs are made. The retry *)
(* after a local prover's retry-able error is the only exception: with no  *)
(* such error, a proxy that was never configured for the network makes no  *)
(* request to it.                                                          *)
THEOREM OnlyRetriesLeave ==
  ASSUME "network" \notin Provers, "retryable" \notin LocalErrors
  PROVE  Spec => []RemoteOnlyWhenConfigured
<1>1. Init => StaysHome
  BY HomeFacts DEF Init, StaysHome, Empty, Idle, HomeTask
<1>2. TypeOK /\ StaysHome /\ [Next]_vars => StaysHome'
  <2> SUFFICES ASSUME TypeOK, StaysHome, [Next]_vars
               PROVE  StaysHome'
    OBVIOUS
  <2>1. CASE UNCHANGED vars
    BY <2>1 DEF vars, StaysHome
  <2>2. CASE \E h \in Handlers, k \in Keys : Call(h, k)
    BY <2>2 DEF Call, Goto, StaysHome, TypeOK, trees
  <2>3. CASE (\E u \in Tasks : SpawnProve(u)) \/ WorkerBreak \/ Shutdown \/ Start \/ StartPanics
    <3>1. UNCHANGED <<queue, finished, disk, handler>>
      BY <2>3 DEF SpawnProve, WorkerBreak, Shutdown, Start, StartPanics, TaskOnly, trees
    <3>2. \A u \in Tasks : HomeTask(task'[u])
      <4>1. ASSUME NEW u \in Tasks, SpawnProve(u)
            PROVE  \A v \in Tasks : HomeTask(task'[v])
        <5>1. task' = [task EXCEPT ![u] = [pc |-> "start", key |-> Head(chan)]]
          BY <4>1 DEF SpawnProve, SetTask
        <5>2. HomeTask([pc |-> "start", key |-> Head(chan)])
          BY DEF HomeTask
        <5> QED BY <5>1, <5>2 DEF StaysHome, TypeOK
      <4>2. CASE WorkerBreak \/ Shutdown \/ Start \/ StartPanics
        BY <4>2 DEF WorkerBreak, Shutdown, Start, StartPanics, StaysHome
      <4> QED BY <2>3, <4>1, <4>2
    <3> QED BY <3>1, <3>2 DEF StaysHome
  <2>4. CASE Flush \/ WorkerFlush
    <3>1. /\ UNCHANGED <<queue, finished, handler, task>>
          /\ disk'.queue = queue /\ disk'.finished = finished
      BY <2>4 DEF Flush, WorkerFlush, trees
    <3> QED BY <3>1 DEF StaysHome
  <2>5. CASE Die
    BY <2>5, HomeFacts DEF Die, StaysHome, Idle
  <2> QED BY <2>1, <2>2, <2>3, <2>4, <2>5, HomeHandlerStep, HomeProveStep
          DEF Next, WorkerStep, WorkerExit, Crash
<1>3. StaysHome => RemoteOnlyWhenConfigured
  BY DEF StaysHome, HomeTask, RemoteOnlyWhenConfigured
<1> QED BY <1>1, <1>2, <1>3, TypeCorrect, PTL DEF Spec

-----------------------------------------------------------------------------
(* Blobs of other keys.                                                    *)

(* No process is started with another ENCRYPTION_KEY, and no one else uses *)
(* a program of ours with another key.                                     *)
Ours(seal) ==
  \A c \in Configs : seal.program = c.program => \A d \in Configs : seal.secret = d.secret

OneKey ==
  /\ \A c, d \in Configs : c.secret = d.secret
  /\ \A e \in Elsewhere : \A i \in DOMAIN e : \A j \in DOMAIN e[i] :
       e[i][j].seal # Clear => Ours(e[i][j].seal)

(* Whatever is on the node and verifies has our key.                       *)
NodeIsOurs ==
  \A i \in DOMAIN node : \A j \in DOMAIN node[i] :
    node[i][j].seal # Clear => Ours(node[i][j].seal)

(* Only a submission adds a block, and its seals are our configurations.   *)
LEMMA OursStep ==
  ASSUME OneKey, TypeOK, ProxyInv, ResponseInv, NodeIsOurs, [ProxyNext]_all
  PROVE  NodeIsOurs'
<1>1. ASSUME node' = node
      PROVE  NodeIsOurs'
  BY <1>1 DEF NodeIsOurs
<1>2. ASSUME NEW h \in Handlers, NodeServes(h), IsSubmit(request[h])
      PROVE  NodeIsOurs'
  <2> DEFINE r == request[h]
             b == Posted(r.out)
  <2>1. node' = Append(node, b) /\ Forwardable(r)
    BY <1>2 DEF NodeServes
  <2>2. RequestOK(r) /\ Whole(r, attempts) /\ LedgerOK
    BY WholeRequests DEF ProxyInv, RequestsOK, ResponseInv
  <2>3. b \in Seq(Stored)
    BY <1>2, <2>1, <2>2, PostedIsOnNode
  <2>4. ASSUME NEW j \in DOMAIN b
        PROVE  b[j].seal \in Configs
    <3>1. j \in 1 .. Len(r.out) /\ b[j].seal = sealed[r.out[j].proof.nonce]
      BY DEF Posted
    <3>2. r.out[j].proof.nonce \in DOMAIN attempts
      BY <1>2, <2>1, <2>2, <3>1 DEF Whole, Forwardable
    <3> QED BY <2>2, <3>1, <3>2 DEF LedgerOK, TypeOK
  <2>5. \A c \in Configs : Ours(c)
    BY DEF OneKey, Ours
  <2> HIDE DEF b
  <2>6. /\ DOMAIN node' = 1 .. Len(node) + 1 /\ node'[Len(node) + 1] = b
        /\ \A i \in DOMAIN node : node'[i] = node[i]
        /\ DOMAIN node = 1 .. Len(node) /\ Len(node) \in Nat
    BY <2>1, <2>2, <2>3 DEF LedgerOK
  <2>7. ASSUME NEW i \in DOMAIN node', NEW j \in DOMAIN node'[i], node'[i][j].seal # Clear
        PROVE  Ours(node'[i][j].seal)
    <3>1. CASE i = Len(node) + 1
      BY <2>4, <2>5, <2>6, <2>7, <3>1
    <3>2. CASE i \in DOMAIN node
      BY <2>6, <2>7, <3>2 DEF NodeIsOurs
    <3> QED BY <2>6, <2>7, <3>1, <3>2
  <2> QED BY <2>7 DEF NodeIsOurs
<1>3. ASSUME NEW h \in Handlers, NodeServes(h), ~IsSubmit(request[h])
      PROVE  node' = node
  BY <1>3 DEF NodeServes
<1>4. ASSUME NEW h \in Handlers,
             Encrypt(h) \/ Encrypted(h) \/ Panicked(h) \/ NodeFails(h) \/ outbound_handler(h)
               \/ Respond(h) \/ Disconnect(h)
      PROVE  node' = node
  BY <1>4 DEF Encrypt, Encrypted, Panicked, NodeFails, outbound_handler, Respond, Disconnect, proxy
<1>5. ASSUME NEW h \in Handlers, NEW q, Receive(h, q)
      PROVE  node' = node
  BY <1>5, Zenon DEF Receive
<1>6. CASE UNCHANGED all \/ Around
  BY <1>1, <1>6 DEF all, proxy, Around
<1> QED BY <1>1, <1>2, <1>3, <1>4, <1>5, <1>6 DEF ProxyNext, RequestStep, NodeStep

(* README.md says that what is returned on success is the decrypted bytes. *)
(* That is so as long as one ENCRYPTION_KEY is in use: then every response *)
(* with decrypted blobs has the plaintexts, across restarts and changes of *)
(* the ZK program, with plain data and proofs of other programs around.    *)
THEOREM PlaintextUnderOneKey ==
  ASSUME OneKey
  PROVE  ProxySpec => []DecryptedIsPlaintext
<1>1. ProxyInit => NodeIsOurs
  BY DEF ProxyInit, OneKey, NodeIsOurs
<1>2. TypeOK /\ ProxyInv /\ ResponseInv /\ NodeIsOurs /\ [ProxyNext]_all => NodeIsOurs'
  BY OursStep
<1>3. ProxyInv /\ ResponseInv /\ NodeIsOurs => DecryptedIsPlaintext
  <2> SUFFICES ASSUME ResponseInv, NodeIsOurs, NEW h \in Handlers, request[h].pc = "respond",
                      request[h].got.tag = "decrypted", NEW i \in 1 .. Len(Found(request[h]))
               PROVE  request[h].got.blobs[i].text = Found(request[h])[i].text
    BY DEF DecryptedIsPlaintext
  <2> DEFINE r == request[h]
             b == Found(r)[i]
  <2>1. /\ HasRead(r, node) /\ Told(r.got.blobs, Found(r), config) /\ IsRead(r)
        /\ node \in Seq(Seq(Stored)) /\ config \in Configs
    BY DEF ResponseInv, Agree, Backed, LedgerOK, ReadOf, Found
  <2>2. /\ b.seal # Clear /\ b.seal.program = config.program
        /\ b.seal.secret = config.secret => r.got.blobs[i] = [ns |-> b.ns, text |-> b.text]
    BY <2>1 DEF Told
  <2>3. \E m \in DOMAIN node : \E j \in DOMAIN node[m] : b = node[m][j]
    <3>1. CASE r.asked.method = "blob.Get"
      <4>1. Found(r) = <<node[r.asked.height][r.asked.index]>>
        BY <3>1 DEF Found
      <4>2. b = node[r.asked.height][r.asked.index]
        BY <4>1
      <4> QED BY <2>1, <3>1, <4>2 DEF HasRead
    <3>2. CASE r.asked.method # "blob.Get"
      <4>1. Found(r) = node[r.asked.height] /\ r.asked.height \in DOMAIN node
        BY <2>1, <3>2 DEF Found, HasRead
      <4>2. i \in DOMAIN node[r.asked.height]
        BY <2>1, <4>1
      <4> QED BY <4>1, <4>2
    <3> QED BY <3>1, <3>2
  <2>4. b.seal.secret = config.secret
    BY <2>1, <2>2, <2>3 DEF NodeIsOurs, Ours
  <2> QED BY <2>2, <2>4
<1> QED BY <1>1, <1>2, <1>3, ProxyInvariant, ResponseInvariant, PTL DEF ProxySpec
=============================================================================
