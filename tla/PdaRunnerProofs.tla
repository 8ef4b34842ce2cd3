-------------------------- MODULE PdaRunnerProofs --------------------------
(***************************************************************************)
(* Proofs about PdaRunner, for any sets of keys, request tasks and prove   *)
(* tasks, any prover configuration and any mix of errors and faults.       *)
(***************************************************************************)
EXTENDS PdaRunner, TLAPS

-----------------------------------------------------------------------------
(* Status values and program positions.                                    *)

(* A queue status is never the absence of one.                             *)
LEMMA QueueStatusFacts ==
  /\ None \notin QueueStatus
  /\ \A s \in QueueStatus :
       s.tag \in {"LocalZkProofPending", "RemoteZkProofRequesting", "RemoteZkProofPending"}
  /\ \A s \in QueueStatus : s.tag = "RemoteZkProofPending" => s.id \in Nonces
  /\ \A n \in Nonces : RemoteZkProofPending(n) \in QueueStatus
  /\ LocalZkProofPending \in QueueStatus /\ RemoteZkProofRequesting \in QueueStatus
BY DEF QueueStatus, None, LocalZkProofPending, RemoteZkProofRequesting, RemoteZkProofPending

(* What the finished tree may hold, by tag; the only retry status is a     *)
(* request to the network.                                                 *)
LEMMA FinishedStatusFacts ==
  /\ \A s \in FinishedStatus : s.tag \in {"ZkProofFinished", "Failed"}
  /\ \A s \in FinishedStatus : s.tag = "ZkProofFinished" => s \in ProofStatus
  /\ \A s \in FinishedStatus : Retryable(s) => s.retry = RemoteZkProofRequesting
  /\ None.tag = "None" /\ None \notin FinishedStatus
  /\ \A k \in Keys, n \in Nonces : ZkProofFinished(k, n) \in FinishedStatus
  /\ \A c : FailureOf(c) \in FinishedStatus
BY DEF FinishedStatus, ProofStatus, FailureStatus, Failed, FailureOf, None, Retryable,
       RemoteZkProofRequesting, ZkProofFinished

(* The fields a call has at each position.                                 *)
LEMMA CallFacts ==
  ASSUME NEW c \in CallStates
  PROVE  /\ c.pc \in {"idle", "finished", "queue", "insert", "retry", "send", "reply"}
         /\ c.pc # "idle" => c.key \in Keys
         /\ c.pc = "retry" => c.status = RemoteZkProofRequesting
         /\ c.pc \in {"send", "reply"} => c.answer \in Answers
         /\ c.pc = "idle" => c = Idle
BY DEF CallStates, Idle

(* The fields a prove task has at each position.                           *)
LEMMA TaskFacts ==
  ASSUME NEW c \in TaskStates
  PROVE  /\ c.pc \in {"idle", "start", "send", "work", "resend"}
         /\ c.pc # "idle" => c.key \in Keys
         /\ c.pc \in {"work", "resend"} => c.status \in QueueStatus
         /\ c.pc = "idle" => c = Idle
BY DEF TaskStates, Idle

(* The states a call and a prove task are put in have their types.         *)
LEMMA CallStateTypes ==
  ASSUME NEW k \in Keys
  PROVE  /\ Idle \in CallStates
         /\ \A p \in {"finished", "queue", "insert"} : [pc |-> p, key |-> k] \in CallStates
         /\ [pc |-> "retry", key |-> k, status |-> RemoteZkProofRequesting] \in CallStates
         /\ \A p \in {"send", "reply"}, a \in Answers :
              [pc |-> p, key |-> k, answer |-> a] \in CallStates
BY DEF CallStates

LEMMA TaskStateTypes ==
  ASSUME NEW k \in Keys
  PROVE  /\ Idle \in TaskStates
         /\ \A p \in {"start", "send"} : [pc |-> p, key |-> k] \in TaskStates
         /\ \A p \in {"work", "resend"}, s \in QueueStatus :
              [pc |-> p, key |-> k, status |-> s] \in TaskStates
BY DEF TaskStates

-----------------------------------------------------------------------------
(* Type correctness.                                                       *)

LEMMA InitType == Init => TypeOK
BY ConstantsAssumption DEF Init, TypeOK, Empty, CallStates, TaskStates

(* A step of get_verifiable_encryption keeps the types.                    *)
LEMMA HandlerStepType ==
  ASSUME TypeOK, NEW h \in Handlers, HandlerStep(h)
  PROVE  TypeOK'
<1> DEFINE c == handler[h]
<1>1. c \in CallStates
  BY DEF TypeOK
<1>2. /\ c.pc # "idle" => c.key \in Keys
      /\ c.pc = "retry" => c.status = RemoteZkProofRequesting
      /\ c.pc = "send" => c.answer \in Answers
  BY <1>1, CallFacts
<1>3. {None, Pending, Error} \cup ProofStatus = Answers
  BY DEF Answers
<1>4. ASSUME NEW s \in CallStates, Goto(h, s)
      PROVE  handler' \in [Handlers -> CallStates]
  BY <1>4 DEF Goto, TypeOK
<1>5. ASSUME NEW a \in Answers, Reply(h, a), c.pc # "idle"
      PROVE  handler' \in [Handlers -> CallStates]
  BY <1>2, <1>4, <1>5, CallStateTypes DEF Reply
<1>6. CASE ReturnFinished(h)
  <2>1. finished[c.key] \in FinishedStatus
    BY <1>2, <1>6 DEF ReturnFinished, TypeOK
  <2>2. handler' \in [Handlers -> CallStates]
    BY <1>3, <1>5, <1>6, <2>1, FinishedStatusFacts DEF ReturnFinished
  <2> QED
    BY <1>6, <2>2 DEF ReturnFinished, HandlerOnly, trees, TypeOK
<1>7. CASE RetryFailed(h)
  <2>1. finished[c.key].retry = RemoteZkProofRequesting
    BY <1>2, <1>7, FinishedStatusFacts DEF RetryFailed, Retryable, TypeOK
  <2>2. handler' \in [Handlers -> CallStates]
    BY <1>2, <1>4, <1>7, <2>1, CallStateTypes DEF RetryFailed
  <2> QED
    BY <1>7, <2>2 DEF RetryFailed, HandlerOnly, trees, TypeOK
<1>8. CASE SendRetry(h)
  <2>1. handler' \in [Handlers -> CallStates]
    BY <1>2, <1>3, <1>4, <1>8, CallStateTypes DEF SendRetry
  <2> QED
    BY <1>2, <1>8, <2>1, QueueStatusFacts DEF SendRetry, send_job_with_new_status, HandlerOnly, TypeOK
<1>9. CASE NotFinished(h)
  <2>1. handler' \in [Handlers -> CallStates]
    BY <1>2, <1>4, <1>9, CallStateTypes DEF NotFinished
  <2> QED
    BY <1>9, <2>1 DEF NotFinished, HandlerOnly, trees, TypeOK
<1>10. CASE ReturnPending(h)
  <2>1. handler' \in [Handlers -> CallStates]
    BY <1>3, <1>5, <1>10 DEF ReturnPending
  <2> QED
    BY <1>10, <2>1 DEF ReturnPending, HandlerOnly, trees, TypeOK
<1>11. CASE NewJob(h)
  <2>1. handler' \in [Handlers -> CallStates]
    BY <1>2, <1>3, <1>4, <1>5, <1>11, CallStateTypes DEF NewJob
  <2> QED
    BY <1>11, <2>1 DEF NewJob, HandlerOnly, trees, TypeOK
<1>12. CASE InsertJob(h)
  <2>1. handler' \in [Handlers -> CallStates]
    BY <1>2, <1>3, <1>4, <1>12, CallStateTypes DEF InsertJob
  <2> QED
    BY <1>2, <1>12, <2>1, QueueStatusFacts DEF InsertJob, InitialStatus, HandlerOnly, TypeOK
<1>13. CASE SendJob(h)
  <2>1. handler' \in [Handlers -> CallStates]
    BY <1>2, <1>5, <1>13 DEF SendJob
  <2>2. chan' \in Seq(Keys \cup {Stop})
    BY <1>2, <1>13 DEF SendJob, TypeOK
  <2> QED
    BY <1>13, <2>1, <2>2 DEF SendJob, trees, TypeOK
<1>14. CASE StoreError(h)
  <2>1. handler' \in [Handlers -> CallStates]
    BY <1>3, <1>5, <1>14 DEF StoreError
  <2> QED
    BY <1>14, <2>1 DEF StoreError, HandlerOnly, trees, TypeOK
<1>15. CASE Return(h) \/ NewJobPanics(h)
  <2>1. handler' \in [Handlers -> CallStates]
    BY <1>4, <1>15 DEF Return, NewJobPanics, CallStates
  <2> QED
    BY <1>15, <2>1 DEF Return, NewJobPanics, HandlerOnly, trees, TypeOK
<1> QED
  BY <1>6, <1>7, <1>8, <1>9, <1>10, <1>11, <1>12, <1>13, <1>14, <1>15 DEF HandlerStep

(* A step of a prove task keeps the types. That the proof it stores names  *)
(* a job rests on the request it waited for being on record.               *)
LEMMA ProveStepType ==
  ASSUME TypeOK, RecordsAreGenuine, NEW t \in Tasks, ProveStep(t)
  PROVE  TypeOK'
<1> DEFINE c == task[t]
<1>1. c \in TaskStates
  BY DEF TypeOK
<1>2. /\ c.pc # "idle" => c.key \in Keys
      /\ c.pc \in {"work", "resend"} => c.status \in QueueStatus
  BY <1>1, TaskFacts
<1>3. ASSUME NEW s \in TaskStates, SetTask(t, s)
      PROVE  task' \in [Tasks -> TaskStates]
  BY <1>3 DEF SetTask, TypeOK
<1>4. Idle \in TaskStates
  BY DEF TaskStates
<1>5. ASSUME c.pc # "idle", attempts' = Append(attempts, c.key)
      PROVE  attempts' \in Seq(Keys)
  BY <1>2, <1>5 DEF TypeOK
<1>6. Len(attempts) + 1 \in Nonces
  BY DEF TypeOK, Nonces
<1>7. ASSUME c.pc # "idle", NEW s \in FinishedStatus, finalize_job(c.key, s)
      PROVE  /\ queue' \in [Keys -> QueueStatus \cup {None}]
             /\ finished' \in [Keys -> FinishedStatus \cup {None}]
             /\ stranded' \subseteq Keys
  BY <1>2, <1>7 DEF finalize_job, TypeOK
<1>8. CASE StartProve(t)
  <2>1. task' \in [Tasks -> TaskStates]
    BY <1>2, <1>3, <1>4, <1>8, TaskStateTypes DEF StartProve
  <2> QED
    BY <1>8, <2>1 DEF StartProve, TaskOnly, trees, TypeOK
<1>9. CASE RequestProof(t)
  <2>1. task' \in [Tasks -> TaskStates]
    BY <1>2, <1>3, <1>6, <1>9, TaskStateTypes, QueueStatusFacts DEF RequestProof, Working
  <2>2. attempts' \in Seq(Keys)
    BY <1>5, <1>9 DEF RequestProof, Working
  <2> QED
    BY <1>9, <2>1, <2>2 DEF RequestProof, TaskOnly, trees, TypeOK
<1>10. CASE RecordRequest(t)
  <2>1. task' \in [Tasks -> TaskStates]
    BY <1>2, <1>3, <1>10, TaskStateTypes DEF RecordRequest
  <2> QED
    BY <1>2, <1>10, <2>1 DEF RecordRequest, send_job_with_new_status, TaskOnly, TypeOK
<1>11. CASE SendBack(t)
  <2>1. task' \in [Tasks -> TaskStates]
    BY <1>3, <1>4, <1>11 DEF SendBack
  <2>2. chan' \in Seq(Keys \cup {Stop})
    BY <1>2, <1>11 DEF SendBack, TypeOK
  <2> QED
    BY <1>11, <2>1, <2>2 DEF SendBack, TaskOnly, trees, TypeOK
<1>12. CASE FetchProof(t)
  <2>1. ZkProofFinished(attempts[c.status.id], c.status.id) \in FinishedStatus
    <3>1. c.pc = "work" /\ c.status.tag = "RemoteZkProofPending"
      BY <1>12 DEF FetchProof, Working
    <3>2. c.status.id \in DOMAIN attempts
      BY <3>1 DEF RecordsAreGenuine, Genuine
    <3>3. c.status.id \in Nonces /\ attempts[c.status.id] \in Keys
      BY <3>2 DEF TypeOK, Nonces
    <3> QED
      BY <3>3, FinishedStatusFacts
  <2>2. c.pc # "idle"
    BY <1>12 DEF FetchProof, Working
  <2>3. task' \in [Tasks -> TaskStates]
    BY <1>3, <1>4, <1>12 DEF FetchProof
  <2> QED
    BY <1>7, <1>12, <2>1, <2>2, <2>3 DEF FetchProof, TaskOnly, TypeOK
<1>13. CASE ProveLocal(t)
  <2>1. c.pc # "idle"
    BY <1>13 DEF ProveLocal, Working
  <2>2. ZkProofFinished(c.key, Len(attempts) + 1) \in FinishedStatus
    BY <1>2, <1>6, <2>1, FinishedStatusFacts
  <2>3. task' \in [Tasks -> TaskStates] /\ attempts' \in Seq(Keys)
    BY <1>3, <1>4, <1>5, <1>13, <2>1 DEF ProveLocal
  <2> QED
    BY <1>7, <1>13, <2>1, <2>2, <2>3 DEF ProveLocal, TaskOnly, TypeOK
<1>14. ASSUME NEW class \in ErrorClasses, handle_zk_client_error(t, class)
       PROVE  TypeOK'
  <2>1. c.pc # "idle"
    BY <1>14 DEF handle_zk_client_error
  <2>2. FailureOf(class) \in FinishedStatus
    BY FinishedStatusFacts
  <2>3. task' \in [Tasks -> TaskStates] /\ attempts' \in Seq(Keys)
    BY <1>3, <1>4, <1>5, <1>14, <2>1 DEF handle_zk_client_error, RequestMayBeTaken, TypeOK
  <2> QED
    BY <1>7, <1>14, <2>1, <2>2, <2>3 DEF handle_zk_client_error, TaskOnly, TypeOK
<1>15. CASE AbandonProve(t)
  <2>1. c.pc # "idle"
    BY <1>15 DEF AbandonProve
  <2>2. task' \in [Tasks -> TaskStates] /\ attempts' \in Seq(Keys)
    BY <1>3, <1>4, <1>5, <1>15, <2>1 DEF AbandonProve, RequestMayBeTaken, TypeOK
  <2> QED
    BY <1>2, <1>15, <2>1, <2>2 DEF AbandonProve, TaskOnly, trees, TypeOK
<1> QED
  BY <1>8, <1>9, <1>10, <1>11, <1>12, <1>13, <1>14, <1>15 DEF ProveStep

(* A step of the worker loop, a call, a flush, a signal, a crash or a      *)
(* start keeps the types.                                                  *)
LEMMA OtherStepType ==
  ASSUME TypeOK,
         \/ \E h \in Handlers, k \in Keys : Call(h, k)
         \/ WorkerStep \/ Flush \/ Shutdown \/ Crash \/ Start \/ StartPanics
  PROVE  TypeOK'
<1>1. ASSUME NEW h \in Handlers, NEW k \in Keys, Call(h, k)
      PROVE  TypeOK'
  <2>1. handler' \in [Handlers -> CallStates]
    BY <1>1, CallStateTypes DEF Call, Goto, TypeOK
  <2> QED
    BY <1>1, <2>1 DEF Call, trees, TypeOK
<1>2. ASSUME NEW t \in Tasks, SpawnProve(t)
      PROVE  TypeOK'
  <2>1. Head(chan) \in Keys /\ chan' \in Seq(Keys \cup {Stop})
    BY <1>2 DEF SpawnProve, TypeOK
  <2>2. task' \in [Tasks -> TaskStates]
    BY <1>2, <2>1, TaskStateTypes DEF SpawnProve, SetTask, TypeOK
  <2> QED
    BY <1>2, <2>1, <2>2 DEF SpawnProve, TaskOnly, trees, TypeOK
<1>3. CASE WorkerBreak
  BY <1>3 DEF WorkerBreak, trees, TypeOK
<1>4. CASE WorkerFlush \/ Flush
  BY <1>4 DEF WorkerFlush, Flush, trees, TypeOK
<1>5. CASE Die
  BY <1>5 DEF Die, TypeOK, CallStates, TaskStates
<1>6. CASE Shutdown
  BY <1>6 DEF Shutdown, trees, TypeOK
<1>7. CASE Start \/ StartPanics
  BY <1>7 DEF Start, StartPanics, trees, TypeOK
<1> QED
  BY <1>1, <1>2, <1>3, <1>4, <1>5, <1>6, <1>7 DEF WorkerStep, WorkerExit, Crash

-----------------------------------------------------------------------------
(* Every recorded request and proof is of its own job.                     *)

(* A step makes one attempt, at a job that its task is on, or none.        *)
LEMMA AttemptsAdded ==
  ASSUME TypeOK, Next
  PROVE  attempts' = attempts \/ \E k \in Keys : attempts' = Append(attempts, k)
<1>1. ASSUME NEW h \in Handlers, HandlerStep(h)
      PROVE  attempts' = attempts
  BY <1>1 DEF HandlerStep, ReturnFinished, RetryFailed, SendRetry, NotFinished, ReturnPending,
     NewJob, NewJobPanics, InsertJob, SendJob, StoreError, Return, HandlerOnly
<1>2. ASSUME NEW t \in Tasks, ProveStep(t)
      PROVE  \/ attempts' = attempts
             \/ task[t].pc # "idle" /\ attempts' = Append(attempts, task[t].key)
  BY <1>2 DEF ProveStep, StartProve, RequestProof, RecordRequest, SendBack, FetchProof,
     ProveLocal, handle_zk_client_error, AbandonProve, RequestMayBeTaken, Working
<1>3. \A t \in Tasks : task[t].pc # "idle" => task[t].key \in Keys
  BY TaskFacts DEF TypeOK
<1>4. ASSUME \/ \E h \in Handlers, k \in Keys : Call(h, k)
             \/ WorkerStep \/ Flush \/ Shutdown \/ Crash \/ Start \/ StartPanics
      PROVE  attempts' = attempts
  BY <1>4 DEF Call, WorkerStep, SpawnProve, WorkerBreak, WorkerFlush, WorkerExit, Crash, Die,
     Flush, Shutdown, Start, StartPanics
<1> QED
  BY <1>1, <1>2, <1>3, <1>4 DEF Next

(* Attempts are only added: a recorded one stays what it was.              *)
LEMMA AttemptsGrow ==
  ASSUME TypeOK, Next
  PROVE  \A i \in DOMAIN attempts : i \in DOMAIN attempts' /\ attempts'[i] = attempts[i]
<1>1. ASSUME NEW k \in Keys, attempts' = Append(attempts, k)
      PROVE  \A i \in DOMAIN attempts : i \in DOMAIN attempts' /\ attempts'[i] = attempts[i]
  BY <1>1 DEF TypeOK
<1> QED
  BY <1>1, AttemptsAdded

(* No step attaches a request or a proof to another job. The actions that  *)
(* create a record (RequestProof, ProveLocal) append the attempt it names, *)
(* the others copy a record, drop it or write one that names none.         *)
LEMMA RecordsStep ==
  ASSUME TypeOK, RecordsAreGenuine, Next
  PROVE  RecordsAreGenuine'
<1> DEFINE Later(s, k) ==
      /\ s.tag = "ZkProofFinished" =>
           s.key = k /\ s.nonce \in DOMAIN attempts' /\ attempts'[s.nonce] = k
      /\ s.tag = "RemoteZkProofPending" => s.id \in DOMAIN attempts' /\ attempts'[s.id] = k
    Trees == \A k \in Keys : Later(queue'[k], k) /\ Later(finished'[k], k)
    Disk  == \A k \in Keys : Later(disk'.queue[k], k) /\ Later(disk'.finished[k], k)
    Held  == \A t \in Tasks :
               task'[t].pc \in {"work", "resend"} => Later(task'[t].status, task'[t].key)
<1>1. \A s, k : Genuine(s, k) => Later(s, k)
  BY AttemptsGrow DEF Genuine
<1>2. Trees /\ Disk /\ Held => RecordsAreGenuine'
  BY DEF RecordsAreGenuine, Genuine
<1>3. \A k : /\ Later(None, k) /\ Later(LocalZkProofPending, k)
             /\ Later(RemoteZkProofRequesting, k)
             /\ \A class : Later(FailureOf(class), k)
  BY DEF None, LocalZkProofPending, RemoteZkProofRequesting, FailureOf, Failed
<1>4. ASSUME NEW k \in Keys, attempts' = Append(attempts, k)
      PROVE  /\ Later(RemoteZkProofPending(Len(attempts) + 1), k)
             /\ Later(ZkProofFinished(k, Len(attempts) + 1), k)
  BY <1>4 DEF TypeOK, RemoteZkProofPending, ZkProofFinished
<1>5. \A k \in Keys : /\ Later(queue[k], k) /\ Later(finished[k], k)
                      /\ Later(disk.queue[k], k) /\ Later(disk.finished[k], k)
  BY <1>1 DEF RecordsAreGenuine
<1>6. \A t \in Tasks : task[t].pc \in {"work", "resend"} => Later(task[t].status, task[t].key)
  BY <1>1 DEF RecordsAreGenuine
<1>7. \A t \in Tasks : /\ task[t].pc # "idle" => task[t].key \in Keys
                       /\ task[t].pc \in {"work", "resend"} => task[t].status \in QueueStatus
  BY TaskFacts DEF TypeOK
<1>8. Idle.pc \notin {"work", "resend"}
  BY DEF Idle
<1>9. ASSUME NEW k \in Keys, NEW s, Later(s, k),
             finalize_job(k, s) \/ send_job_with_new_status(k, s)
      PROVE  Trees
  <2> HIDE DEF Later
  <2>1. CASE finalize_job(k, s)
    BY <1>3, <1>5, <1>9, <2>1 DEF finalize_job, TypeOK
  <2>2. CASE send_job_with_new_status(k, s)
    BY <1>3, <1>5, <1>9, <2>2 DEF send_job_with_new_status, TypeOK
  <2> QED
    BY <1>9, <2>1, <2>2
<1>10. ASSUME NEW t \in Tasks, NEW c, SetTask(t, c),
              c.pc \in {"work", "resend"} => Later(c.status, c.key)
       PROVE  Held
  <2> HIDE DEF Later
  <2> QED
    BY <1>6, <1>10 DEF SetTask, TypeOK
<1> HIDE DEF Later
<1>11. ASSUME NEW h \in Handlers, HandlerStep(h)
       PROVE  RecordsAreGenuine'
  <2>1. Disk /\ Held
    BY <1>5, <1>6, <1>11 DEF HandlerStep, ReturnFinished, RetryFailed, SendRetry, NotFinished,
       ReturnPending, NewJob, NewJobPanics, InsertJob, SendJob, StoreError, Return, HandlerOnly
  <2>2. /\ handler[h].pc # "idle" => handler[h].key \in Keys
        /\ handler[h].pc = "retry" => handler[h].status = RemoteZkProofRequesting
    BY CallFacts DEF TypeOK
  <2>3. CASE SendRetry(h)
    <3>1. Later(handler[h].status, handler[h].key)
      BY <1>3, <2>2, <2>3 DEF SendRetry
    <3> QED
      BY <1>2, <1>9, <2>1, <2>2, <2>3, <3>1 DEF SendRetry
  <2>4. CASE InsertJob(h)
    BY <1>2, <1>3, <1>5, <2>1, <2>2, <2>4 DEF InsertJob, InitialStatus, TypeOK
  <2>5. CASE ~SendRetry(h) /\ ~InsertJob(h)
    BY <1>2, <1>5, <1>11, <2>1, <2>5 DEF HandlerStep, ReturnFinished, RetryFailed, NotFinished,
       ReturnPending, NewJob, NewJobPanics, SendJob, StoreError, Return, trees
  <2> QED
    BY <2>3, <2>4, <2>5
<1>12. ASSUME NEW t \in Tasks, ProveStep(t)
       PROVE  RecordsAreGenuine'
  <2>1. Disk
    BY <1>5, <1>12 DEF ProveStep, StartProve, RequestProof, RecordRequest, SendBack, FetchProof,
       ProveLocal, handle_zk_client_error, AbandonProve, TaskOnly
  <2>2. ASSUME SetTask(t, Idle)
        PROVE  Held
    BY <1>8, <1>10, <2>2
  <2>3. ASSUME UNCHANGED trees
        PROVE  Trees
    BY <1>5, <2>3 DEF trees
  <2>4. CASE StartProve(t)
    <3>1. Later(queue[task[t].key], task[t].key)
      BY <1>5, <1>7, <2>4 DEF StartProve
    <3>2. Held
      BY <1>10, <2>2, <2>4, <3>1 DEF StartProve
    <3> QED
      BY <1>2, <2>1, <2>3, <2>4, <3>2 DEF StartProve, trees
  <2>5. CASE RequestProof(t)
    <3>1. Later(RemoteZkProofPending(Len(attempts) + 1), task[t].key)
      BY <1>4, <1>7, <2>5 DEF RequestProof, Working
    <3>2. Held
      BY <1>10, <2>5, <3>1 DEF RequestProof
    <3> QED
      BY <1>2, <2>1, <2>3, <2>5, <3>2 DEF RequestProof, trees
  <2>6. CASE RecordRequest(t)
    <3>1. Trees
      BY <1>6, <1>7, <1>9, <2>6 DEF RecordRequest
    <3>2. Held
      BY <1>10, <2>6 DEF RecordRequest
    <3> QED
      BY <1>2, <2>1, <3>1, <3>2
  <2>7. CASE SendBack(t)
    BY <1>2, <2>1, <2>2, <2>3, <2>7 DEF SendBack, trees
  <2>8. CASE FetchProof(t)
    <3> DEFINE id == task[t].status.id
    <3>1. id \in DOMAIN attempts /\ attempts[id] = task[t].key
      BY <2>8 DEF FetchProof, Working, RecordsAreGenuine, Genuine
    <3>2. Genuine(ZkProofFinished(attempts[id], id), task[t].key)
      BY <3>1 DEF Genuine, ZkProofFinished
    <3>3. Trees
      BY <1>1, <1>7, <1>9, <2>8, <3>2 DEF FetchProof, Working
    <3> QED
      BY <1>2, <2>1, <2>2, <2>8, <3>3 DEF FetchProof
  <2>9. CASE ProveLocal(t)
    <3>1. Trees
      BY <1>4, <1>7, <1>9, <2>9 DEF ProveLocal, Working
    <3> QED
      BY <1>2, <2>1, <2>2, <2>9, <3>1 DEF ProveLocal
  <2>10. ASSUME NEW class \in ErrorClasses, handle_zk_client_error(t, class)
         PROVE  RecordsAreGenuine'
    <3>1. Trees
      BY <1>3, <1>7, <1>9, <2>10 DEF handle_zk_client_error
    <3> QED
      BY <1>2, <2>1, <2>2, <2>10, <3>1 DEF handle_zk_client_error
  <2>11. CASE AbandonProve(t)
    BY <1>2, <2>1, <2>2, <2>3, <2>11 DEF AbandonProve, trees
  <2> QED
    BY <1>12, <2>4, <2>5, <2>6, <2>7, <2>8, <2>9, <2>10, <2>11 DEF ProveStep
<1>13. ASSUME NEW t \in Tasks, SpawnProve(t)
       PROVE  RecordsAreGenuine'
  <2>1. Held
    BY <1>10, <1>13 DEF SpawnProve
  <2> QED
    BY <1>2, <1>5, <1>13, <2>1 DEF SpawnProve, TaskOnly, trees
<1>14. CASE \/ \E h \in Handlers, k \in Keys : Call(h, k)
            \/ WorkerBreak \/ WorkerFlush \/ Flush \/ Shutdown \/ Start \/ StartPanics
  <2>1. Trees /\ Held
    BY <1>5, <1>6, <1>14
       DEF Call, WorkerBreak, WorkerFlush, Flush, Shutdown, Start, StartPanics, trees
  <2>2. CASE WorkerFlush \/ Flush
    BY <1>2, <1>5, <2>1, <2>2 DEF WorkerFlush, Flush
  <2>3. CASE ~WorkerFlush /\ ~Flush
    BY <1>2, <1>5, <1>14, <2>1, <2>3 DEF Call, WorkerBreak, Shutdown, Start, StartPanics
  <2> QED
    BY <2>2, <2>3
<1>15. CASE Die
  BY <1>2, <1>5, <1>8, <1>15 DEF Die
<1> QED
  BY <1>11, <1>12, <1>13, <1>14, <1>15 DEF Next, WorkerStep, WorkerExit, Crash

(* The inductive invariant behind type correctness: the proof a prove task *)
(* stores has its type only because the request it waited for is on        *)
(* record, as RecordsAreGenuine says.                                      *)
LEMMA TypedAndGenuine == Spec => [](TypeOK /\ RecordsAreGenuine)
<1>1. Init => TypeOK /\ RecordsAreGenuine
  <2>1. Init => RecordsAreGenuine
    BY DEF Init, RecordsAreGenuine, Genuine, Empty, None, Idle
  <2> QED
    BY <2>1, InitType
<1>2. TypeOK /\ RecordsAreGenuine /\ [Next]_vars => (TypeOK /\ RecordsAreGenuine)'
  <2>1. ASSUME TypeOK, RecordsAreGenuine, Next
        PROVE  (TypeOK /\ RecordsAreGenuine)'
    BY <2>1, HandlerStepType, ProveStepType, OtherStepType, RecordsStep DEF Next
  <2>2. ASSUME TypeOK, RecordsAreGenuine, UNCHANGED vars
        PROVE  (TypeOK /\ RecordsAreGenuine)'
    BY <2>2 DEF vars, trees, TypeOK, RecordsAreGenuine, Genuine
  <2> QED
    BY <2>1, <2>2
<1> QED
  BY <1>1, <1>2, PTL DEF Spec

(* The engine's state always has its type: the trees hold statuses that    *)
(* the readers' matches accept, so "DB is in invalid state" and "Queue has *)
(* INVALID status" never happen.                                           *)
THEOREM TypeCorrect == Spec => []TypeOK
BY TypedAndGenuine, PTL

(* A proof or a request recorded under a key is of that key's job, on      *)
(* every path through stale reads, retries, lost replies and restarts.     *)
THEOREM GenuineRecords == Spec => []RecordsAreGenuine
BY TypedAndGenuine, PTL

-----------------------------------------------------------------------------
(* No job is lost.                                                         *)

(* Of all steps only the death of the process takes a job out of both      *)
(* trees at once.                                                          *)
LEMMA KnownStep ==
  ASSUME TypeOK, Next, ~Die
  PROVE  \A k \in Keys : Known(k) => Known(k)'
<1>1. /\ \A k, n : ZkProofFinished(k, n) # None
      /\ \A class : FailureOf(class) # None
      /\ \A s \in QueueStatus : s # None
      /\ RemoteZkProofRequesting \in QueueStatus /\ LocalZkProofPending \in QueueStatus
  BY QueueStatusFacts DEF ZkProofFinished, FailureOf, Failed, None
<1>2. ASSUME NEW k \in Keys, NEW s, s # None,
             finalize_job(k, s) \/ send_job_with_new_status(k, s)
      PROVE  \A j \in Keys : Known(j) => Known(j)'
  BY <1>2 DEF finalize_job, send_job_with_new_status, Known, TypeOK
<1>3. ASSUME UNCHANGED trees
      PROVE  \A j \in Keys : Known(j) => Known(j)'
  BY <1>3 DEF Known, trees
<1>4. ASSUME NEW h \in Handlers, HandlerStep(h)
      PROVE  \A j \in Keys : Known(j) => Known(j)'
  <2>1. /\ handler[h].pc # "idle" => handler[h].key \in Keys
        /\ handler[h].pc = "retry" => handler[h].status = RemoteZkProofRequesting
    BY CallFacts DEF TypeOK
  <2>2. CASE SendRetry(h)
    BY <1>1, <1>2, <2>1, <2>2 DEF SendRetry
  <2>3. CASE InsertJob(h)
    BY <1>1, <2>1, <2>3 DEF InsertJob, InitialStatus, Known, TypeOK
  <2>4. CASE ~SendRetry(h) /\ ~InsertJob(h)
    BY <1>3, <1>4, <2>4 DEF HandlerStep, ReturnFinished, RetryFailed, NotFinished,
       ReturnPending, NewJob, NewJobPanics, SendJob, StoreError, Return, trees
  <2> QED
    BY <2>2, <2>3, <2>4
<1>5. ASSUME NEW t \in Tasks, ProveStep(t)
      PROVE  \A j \in Keys : Known(j) => Known(j)'
  <2>1. /\ task[t].pc # "idle" => task[t].key \in Keys
        /\ task[t].pc \in {"work", "resend"} => task[t].status \in QueueStatus
    BY TaskFacts DEF TypeOK
  <2>2. CASE RecordRequest(t)
    BY <1>1, <1>2, <2>1, <2>2 DEF RecordRequest
  <2>3. CASE FetchProof(t) \/ ProveLocal(t)
    BY <1>1, <1>2, <2>1, <2>3 DEF FetchProof, ProveLocal, Working
  <2>4. ASSUME NEW class \in ErrorClasses, handle_zk_client_error(t, class)
        PROVE  \A j \in Keys : Known(j) => Known(j)'
    BY <1>1, <1>2, <2>1, <2>4 DEF handle_zk_client_error
  <2>5. CASE StartProve(t) \/ RequestProof(t) \/ SendBack(t) \/ AbandonProve(t)
    BY <1>3, <2>5 DEF StartProve, RequestProof, SendBack, AbandonProve, trees
  <2> QED
    BY <1>5, <2>2, <2>3, <2>4, <2>5 DEF ProveStep
<1>6. CASE \/ \E h \in Handlers, k \in Keys : Call(h, k)
           \/ WorkerStep \/ Flush \/ Shutdown \/ Crash \/ Start \/ StartPanics
  BY <1>3, <1>6 DEF Call, WorkerStep, SpawnProve, WorkerBreak, WorkerFlush, WorkerExit, Crash,
     Flush, Shutdown, Start, StartPanics, trees
<1> QED
  BY <1>4, <1>5, <1>6 DEF Next

(* Both transactions move a job in one step: while the process runs no     *)
(* step takes a job out of both trees.                                     *)
THEOREM NoJobForgotten == Spec => JobsAreNeverForgotten
<1>1. TypeOK /\ [Next]_vars =>
        [Running /\ Running' => \A k \in Keys : Known(k) => Known(k)']_vars
  <2>1. Die => ~Running'
    BY DEF Die, Running
  <2> QED
    BY <2>1, KnownStep
<1> QED
  BY <1>1, TypeCorrect, PTL DEF Spec, JobsAreNeverForgotten

(* Only the two flushes write the disk.                                    *)
LEMMA DiskStep ==
  ASSUME Next, ~WorkerFlush, ~Flush
  PROVE  disk' = disk
<1>1. ASSUME NEW h \in Handlers, HandlerStep(h)
      PROVE  disk' = disk
  BY <1>1 DEF HandlerStep, ReturnFinished, RetryFailed, SendRetry, NotFinished,
     ReturnPending, NewJob, NewJobPanics, InsertJob, SendJob, StoreError, Return, HandlerOnly
<1>2. ASSUME NEW t \in Tasks, ProveStep(t)
      PROVE  disk' = disk
  BY <1>2 DEF ProveStep, StartProve, RequestProof, RecordRequest, SendBack, FetchProof,
     ProveLocal, handle_zk_client_error, AbandonProve, TaskOnly
<1>3. ASSUME WorkerStep, ~WorkerFlush
      PROVE  disk' = disk
  BY <1>3 DEF WorkerStep, SpawnProve, WorkerBreak, WorkerExit, Die, TaskOnly
<1> QED
  BY <1>1, <1>2, <1>3 DEF Next, Call, Crash, Die, Shutdown, Start, StartPanics

(* What is on disk is also in the trees the process works with.            *)
DiskIsBehind == \A k \in Keys : DiskKnown(k) => Known(k)

(* The invariant of durability: the disk is always behind the trees. Only  *)
(* a flush writes the disk, from the trees, and a death resets the trees   *)
(* to the disk.                                                            *)
LEMMA DiskBehind == Spec => []DiskIsBehind
<1>1. Init => DiskIsBehind
  BY DEF Init, DiskIsBehind, DiskKnown, Known, Empty
<1>2. TypeOK /\ DiskIsBehind /\ [Next]_vars => DiskIsBehind'
  <2>1. CASE Die
    BY <2>1 DEF Die, DiskIsBehind, DiskKnown, Known
  <2>2. CASE WorkerFlush \/ Flush
    BY <2>2 DEF WorkerFlush, Flush, DiskIsBehind, DiskKnown, Known, trees
  <2>3. ASSUME TypeOK, DiskIsBehind, Next, ~Die, disk' = disk
        PROVE  DiskIsBehind'
    BY <2>3, KnownStep DEF DiskIsBehind, DiskKnown
  <2>4. CASE UNCHANGED vars
    BY <2>4 DEF vars, trees, DiskIsBehind, DiskKnown, Known
  <2> QED
    BY <2>1, <2>2, <2>3, <2>4, DiskStep
<1> QED
  BY <1>1, <1>2, TypeCorrect, PTL DEF Spec

(* A job that reached the disk survives any number of crashes, shutdowns   *)
(* and restarts, as a queued job or with its outcome.                      *)
THEOREM DurableJobs == Spec => DurableJobsStay
<1>1. DiskIsBehind /\ [Next]_vars => [\A k \in Keys : DiskKnown(k) => DiskKnown(k)']_vars
  <2>1. ASSUME DiskIsBehind, WorkerFlush \/ Flush
        PROVE  \A k \in Keys : DiskKnown(k) => DiskKnown(k)'
    BY <2>1 DEF WorkerFlush, Flush, DiskIsBehind, DiskKnown, Known
  <2>2. ASSUME disk' = disk
        PROVE  \A k \in Keys : DiskKnown(k) => DiskKnown(k)'
    BY <2>2 DEF DiskKnown
  <2> QED
    BY <2>1, <2>2, DiskStep
<1> QED
  BY <1>1, DiskBehind, PTL DEF Spec, DurableJobsStay

-----------------------------------------------------------------------------
(* What callers are told.                                                  *)

(* What a call is about to return stays true: the attempt behind a proof   *)
(* stays on record, and a job said to be pending stays known. A new answer *)
(* is read from a tree whose records are genuine, or follows the insert.   *)
LEMMA AnswersStep ==
  ASSUME TypeOK, RecordsAreGenuine, AnswersAreTrue, Next
  PROVE  AnswersAreTrue'
<1> DEFINE Later(a, k) ==
      /\ a.tag = "ZkProofFinished" =>
           a.key = k /\ a.nonce \in DOMAIN attempts' /\ attempts'[a.nonce] = k
      /\ a.tag = "RemoteZkProofPending" => a.id \in DOMAIN attempts' /\ attempts'[a.id] = k
      /\ a = Pending => queue'[k] # None \/ finished'[k] # None
    Fine(c) == c.pc \in {"send", "reply"} => Later(c.answer, c.key)
<1>1. (\A h \in Handlers : Fine(handler'[h])) => AnswersAreTrue'
  BY DEF AnswersAreTrue, Genuine, Known
<1>2. \A h \in Handlers : /\ handler[h].pc # "idle" => handler[h].key \in Keys
                          /\ handler[h].pc \in {"send", "reply"} => handler[h].answer \in Answers
  BY CallFacts DEF TypeOK
<1>3. ASSUME ~Die
      PROVE  \A h \in Handlers : Fine(handler[h])
  BY <1>2, <1>3, AttemptsGrow, KnownStep DEF AnswersAreTrue, Genuine, Known
<1>4. \A k : Later(Error, k)
  BY DEF Error, Pending
<1>5. CASE Die
  BY <1>1, <1>5 DEF Die, Idle
<1>6. ASSUME NEW h \in Handlers, HandlerStep(h)
      PROVE  AnswersAreTrue'
  <2> DEFINE k == handler[h].key
  <2>0. handler[h].pc # "idle"
    BY <1>6 DEF HandlerStep, ReturnFinished, RetryFailed, SendRetry, NotFinished,
       ReturnPending, NewJob, NewJobPanics, InsertJob, SendJob, StoreError, Return
  <2>1. k \in Keys
    BY <1>2, <2>0
  <2>2. ~Die
    BY <1>6 DEF HandlerStep, ReturnFinished, RetryFailed, SendRetry, NotFinished,
       ReturnPending, NewJob, NewJobPanics, InsertJob, SendJob, StoreError, Return, HandlerOnly,
       Running, Die
  <2>3. ASSUME NEW c, Goto(h, c), Fine(c)
        PROVE  AnswersAreTrue'
    <3> HIDE DEF Fine
    <3> QED
      BY <1>1, <1>3, <2>2, <2>3 DEF Goto, TypeOK
  <2>4. ASSUME NEW a, Reply(h, a), Later(a, k)
        PROVE  AnswersAreTrue'
    <3> HIDE DEF Later
    <3>1. Fine([pc |-> "reply", key |-> k, answer |-> a])
      BY <2>4
    <3> QED
      BY <2>3, <2>4, <3>1 DEF Reply
  <2>5. CASE ReturnFinished(h)
    <3>1. Genuine(finished[k], k) /\ attempts' = attempts
      BY <2>1, <2>5 DEF ReturnFinished, RecordsAreGenuine, HandlerOnly
    <3>2. finished[k].tag = "ZkProofFinished" => Later(finished[k], k)
      BY <3>1 DEF Genuine, Pending
    <3> QED
      BY <1>4, <2>4, <2>5, <3>2 DEF ReturnFinished
  <2>6. CASE RetryFailed(h) \/ NotFinished(h) \/ NewJobPanics(h) \/ Return(h)
    BY <2>3, <2>6 DEF RetryFailed, NotFinished, NewJobPanics, Return, Idle
  <2>7. CASE SendRetry(h)
    <3>1. Fine([pc |-> "send", key |-> k, answer |-> Error])
      BY <1>4
    <3> QED
      BY <2>3, <2>7, <3>1 DEF SendRetry
  <2>8. CASE ReturnPending(h)
    <3>1. queue'[k] # None
      BY <2>8 DEF ReturnPending, trees
    <3>2. Later(Pending, k)
      BY <3>1 DEF Pending
    <3> QED
      BY <1>4, <2>4, <2>8, <3>2 DEF ReturnPending
  <2>9. CASE NewJob(h)
    BY <1>4, <2>3, <2>4, <2>9 DEF NewJob
  <2>10. CASE InsertJob(h)
    <3>1. queue'[k] # None
      BY <2>1, <2>10, QueueStatusFacts DEF InsertJob, InitialStatus, TypeOK
    <3>2. Later(Pending, k)
      BY <3>1 DEF Pending
    <3>3. Fine([pc |-> "send", key |-> k, answer |-> Pending])
      BY <3>2
    <3> QED
      BY <2>3, <2>10, <3>3 DEF InsertJob
  <2>11. CASE SendJob(h)
    <3>1. Later(handler[h].answer, k)
      BY <1>3, <2>2, <2>11 DEF SendJob
    <3> QED
      BY <2>4, <2>11, <3>1 DEF SendJob
  <2>12. CASE StoreError(h)
    BY <1>4, <2>4, <2>12 DEF StoreError
  <2> QED
    BY <1>6, <2>5, <2>6, <2>7, <2>8, <2>9, <2>10, <2>11, <2>12 DEF HandlerStep
<1>7. ASSUME NEW h \in Handlers, NEW k \in Keys, Call(h, k)
      PROVE  AnswersAreTrue'
  <2>1. ~Die
    BY <1>7 DEF Call, Die, Running
  <2> HIDE DEF Later
  <2> QED
    BY <1>1, <1>3, <1>7, <2>1 DEF Call, Goto, TypeOK
<1>8. ASSUME handler' = handler, ~Die
      PROVE  AnswersAreTrue'
  <2> HIDE DEF Later
  <2> QED
    BY <1>1, <1>3, <1>8
<1>9. ASSUME NEW t \in Tasks, ProveStep(t)
      PROVE  handler' = handler
  BY <1>9 DEF ProveStep, StartProve, RequestProof, RecordRequest, SendBack, FetchProof,
     ProveLocal, handle_zk_client_error, AbandonProve, TaskOnly
<1>10. CASE WorkerStep \/ Flush \/ Shutdown \/ Crash \/ Start \/ StartPanics
  <2>1. Die \/ handler' = handler
    BY <1>10 DEF WorkerStep, SpawnProve, WorkerBreak, WorkerFlush, WorkerExit, Crash, Flush,
       Shutdown, Start, StartPanics, TaskOnly
  <2> QED
    BY <1>5, <1>8, <2>1
<1> QED
  BY <1>5, <1>6, <1>7, <1>8, <1>9, <1>10 DEF Next

(* What get_verifiable_encryption returns is true when it returns: a proof *)
(* is of the job that was asked for, and a job said to be pending is in    *)
(* one of the trees, whatever ran since the answer was read.               *)
THEOREM TrueAnswers == Spec => []AnswersAreTrue
<1>1. Init => AnswersAreTrue
  BY DEF Init, AnswersAreTrue, Idle
<1>2. TypeOK /\ RecordsAreGenuine /\ AnswersAreTrue /\ [Next]_vars => AnswersAreTrue'
  <2>1. ASSUME AnswersAreTrue, UNCHANGED vars
        PROVE  AnswersAreTrue'
    BY <2>1 DEF vars, trees, AnswersAreTrue, Genuine, Known
  <2> QED
    BY <2>1, AnswersStep
<1> QED
  BY <1>1, <1>2, TypedAndGenuine, PTL DEF Spec

-----------------------------------------------------------------------------
(* Somebody works on every queued job.                                     *)

(* Sending keeps what is on the channel and adds the new entry; receiving  *)
(* removes the first entry only.                                           *)
LEMMA Sent ==
  ASSUME TypeOK, NEW x \in Keys \cup {Stop}, chan' = Append(chan, x), NEW k \in Keys
  PROVE  InChan(k) \/ x = k => InChan(k)'
<1>1. /\ Len(chan') = Len(chan) + 1 /\ chan'[Len(chan) + 1] = x
      /\ \A i \in 1 .. Len(chan) : chan'[i] = chan[i]
      /\ Len(chan) \in Nat
  BY DEF TypeOK
<1> QED
  BY <1>1 DEF InChan

LEMMA Received ==
  ASSUME TypeOK, chan # << >>, chan' = Tail(chan), NEW k \in Keys, InChan(k)
  PROVE  Head(chan) = k \/ InChan(k)'
<1>1. PICK i \in 1 .. Len(chan) : chan[i] = k
  BY DEF InChan
<1>2. CASE i = 1
  BY <1>1, <1>2 DEF TypeOK
<1>3. CASE i # 1
  <2>1. i - 1 \in 1 .. Len(chan') /\ chan'[i - 1] = chan[i]
    BY <1>1, <1>3 DEF TypeOK
  <2> QED
    BY <1>1, <2>1 DEF InChan
<1> QED
  BY <1>2, <1>3

(* No step leaves a queued job without a driver: whoever gives a job up    *)
(* settles it, passes it on, or marks it stranded.                         *)
LEMMA DrivenStep ==
  ASSUME TypeOK, QueuedJobsAreDriven, Next
  PROVE  QueuedJobsAreDriven'
<1> SUFFICES ASSUME Running', NEW k \in Keys, queue'[k] # None
             PROVE  Driven(k)' \/ k \in stranded'
  BY DEF QueuedJobsAreDriven
<1>1. ~Die
  BY DEF Die, Running
<1>2. ASSUME Running, queue[k] # None
      PROVE  Driven(k) \/ k \in stranded
  BY <1>2 DEF QueuedJobsAreDriven
<1>3. ASSUME NEW h \in Handlers, HandlerStep(h)
      PROVE  Driven(k)' \/ k \in stranded'
  <2> DEFINE j == handler[h].key
  <2>1. Running /\ handler[h].pc # "idle" /\ task' = task
    BY <1>3 DEF HandlerStep, ReturnFinished, RetryFailed, SendRetry, NotFinished,
       ReturnPending, NewJob, NewJobPanics, InsertJob, SendJob, StoreError, Return, HandlerOnly
  <2>2. j \in Keys
    BY <2>1, CallFacts DEF TypeOK
  <2>3. \A i \in Handlers : i # h => handler'[i] = handler[i]
    BY <1>3 DEF HandlerStep, ReturnFinished, RetryFailed, SendRetry, NotFinished,
       ReturnPending, NewJob, NewJobPanics, InsertJob, SendJob, StoreError, Return, Reply, Goto, TypeOK
  <2>4. CASE SendRetry(h) \/ InsertJob(h)
    <3>1. handler'[h].pc = "send" /\ handler'[h].key = j /\ chan' = chan
      BY <2>4 DEF SendRetry, InsertJob, Goto, HandlerOnly, TypeOK
    <3>2. CASE k = j
      BY <3>1, <3>2 DEF Driven
    <3>3. CASE k # j
      <4>1. queue[k] # None /\ (k \in stranded => k \in stranded')
        BY <2>2, <2>4, <3>3 DEF SendRetry, InsertJob, send_job_with_new_status, TypeOK
      <4> QED
        BY <1>2, <2>1, <2>3, <3>1, <3>3, <4>1 DEF Driven, InChan
    <3> QED
      BY <3>2, <3>3
  <2>5. CASE SendJob(h)
    <3>1. queue[k] # None /\ stranded' = stranded /\ chan' = Append(chan, j)
      BY <2>5 DEF SendJob, trees
    <3>2. InChan(k) \/ k = j => InChan(k)'
      BY <2>2, <3>1, Sent
    <3> QED
      BY <1>2, <2>1, <2>3, <3>1, <3>2 DEF Driven
  <2>6. CASE ~SendRetry(h) /\ ~InsertJob(h) /\ ~SendJob(h)
    <3>1. /\ queue[k] # None /\ stranded' = stranded /\ chan' = chan
          /\ handler[h].pc # "send"
      BY <1>3, <2>6 DEF HandlerStep, ReturnFinished, RetryFailed, NotFinished,
         ReturnPending, NewJob, NewJobPanics, StoreError, Return, HandlerOnly, trees
    <3> QED
      BY <1>2, <2>1, <2>3, <3>1 DEF Driven, InChan
  <2> QED
    BY <2>4, <2>5, <2>6
<1>4. ASSUME NEW t \in Tasks, ProveStep(t)
      PROVE  Driven(k)' \/ k \in stranded'
  <2> DEFINE j == task[t].key
  <2>1. Running /\ task[t].pc # "idle" /\ handler' = handler
    BY <1>4 DEF ProveStep, StartProve, RequestProof, RecordRequest, SendBack, FetchProof,
       ProveLocal, handle_zk_client_error, AbandonProve, TaskOnly, Working
  <2>2. j \in Keys
    BY <2>1, TaskFacts DEF TypeOK
  <2>3. \A i \in Tasks : i # t => task'[i] = task[i]
    BY <1>4 DEF ProveStep, StartProve, RequestProof, RecordRequest, SendBack, FetchProof,
       ProveLocal, handle_zk_client_error, AbandonProve, SetTask, TypeOK
  <2>4. CASE StartProve(t)
    <3>1. queue' = queue /\ stranded' = stranded /\ chan' = chan
      BY <2>4 DEF StartProve, trees
    <3>2. k = j => task'[t].pc = "work" /\ task'[t].key = j
      BY <2>2, <2>4, <3>1 DEF StartProve, SetTask, TypeOK
    <3> QED
      BY <1>2, <2>1, <2>3, <3>1, <3>2 DEF Driven, Drives, InChan
  <2>5. CASE RequestProof(t)
    <3>1. /\ queue' = queue /\ stranded' = stranded /\ chan' = chan
          /\ task'[t].pc = "resend" /\ task'[t].key = j
      BY <2>5 DEF RequestProof, SetTask, trees, TypeOK
    <3> QED
      BY <1>2, <2>1, <2>3, <3>1 DEF Driven, Drives, InChan
  <2>6. CASE RecordRequest(t)
    <3>1. /\ chan' = chan /\ task'[t].pc = "send" /\ task'[t].key = j
          /\ k # j => queue[k] # None /\ (k \in stranded => k \in stranded')
      BY <2>2, <2>6 DEF RecordRequest, send_job_with_new_status, SetTask, TypeOK
    <3> QED
      BY <1>2, <2>1, <2>3, <3>1 DEF Driven, Drives, InChan
  <2>7. CASE SendBack(t)
    <3>1. queue' = queue /\ stranded' = stranded /\ chan' = Append(chan, j)
      BY <2>7 DEF SendBack, trees
    <3>2. InChan(k) \/ k = j => InChan(k)'
      BY <2>2, <3>1, Sent
    <3> QED
      BY <1>2, <2>1, <2>3, <3>1, <3>2 DEF Driven, Drives
  <2>8. ASSUME NEW s, finalize_job(j, s), chan' = chan
        PROVE  Driven(k)' \/ k \in stranded'
    <3>1. k # j /\ queue[k] # None /\ (k \in stranded => k \in stranded')
      BY <2>2, <2>8 DEF finalize_job, TypeOK
    <3> QED
      BY <1>2, <2>1, <2>3, <2>8, <3>1 DEF Driven, Drives, InChan
  <2>9. CASE AbandonProve(t)
    <3>1. queue' = queue /\ stranded' = stranded \cup {j} /\ chan' = chan
      BY <2>9 DEF AbandonProve, trees
    <3> QED
      BY <1>2, <2>1, <2>3, <3>1 DEF Driven, Drives, InChan
  <2>10. CASE FetchProof(t) \/ ProveLocal(t)
    BY <2>8, <2>10 DEF FetchProof, ProveLocal
  <2>11. ASSUME NEW class \in ErrorClasses, handle_zk_client_error(t, class)
         PROVE  Driven(k)' \/ k \in stranded'
    BY <2>8, <2>11 DEF handle_zk_client_error
  <2> QED
    BY <1>4, <2>4, <2>5, <2>6, <2>7, <2>9, <2>10, <2>11 DEF ProveStep
<1>5. ASSUME NEW t \in Tasks, SpawnProve(t)
      PROVE  Driven(k)' \/ k \in stranded'
  <2>1. /\ Running /\ queue' = queue /\ stranded' = stranded /\ handler' = handler
        /\ chan # << >> /\ chan' = Tail(chan) /\ task[t] = Idle
        /\ task'[t].pc = "start" /\ task'[t].key = Head(chan)
        /\ \A i \in Tasks : i # t => task'[i] = task[i]
    BY <1>5 DEF SpawnProve, SetTask, TaskOnly, trees, TypeOK
  <2>2. InChan(k) => Head(chan) = k \/ InChan(k)'
    BY <2>1, Received
  <2> QED
    BY <1>2, <2>1, <2>2 DEF Driven, Drives, Idle
<1>6. CASE WorkerBreak
  <2>1. /\ Running /\ queue' = queue /\ stranded' = stranded /\ handler' = handler /\ task' = task
        /\ chan # << >> /\ chan' = Tail(chan) /\ Head(chan) # k
    BY <1>6, ConstantsAssumption DEF WorkerBreak, trees
  <2>2. InChan(k) => InChan(k)'
    BY <2>1, Received
  <2> QED
    BY <1>2, <2>1, <2>2 DEF Driven
<1>7. CASE Shutdown
  <2>1. /\ Running /\ queue' = queue /\ stranded' = stranded /\ handler' = handler /\ task' = task
        /\ chan' = Append(chan, Stop)
    BY <1>7 DEF Shutdown, Running, trees
  <2>2. InChan(k) => InChan(k)'
    BY <2>1, Sent
  <2> QED
    BY <1>2, <2>1, <2>2 DEF Driven
<1>8. CASE Flush \/ WorkerFlush
  BY <1>2, <1>8 DEF Flush, WorkerFlush, trees, Driven, InChan
<1>9. ASSUME NEW h \in Handlers, NEW j \in Keys, Call(h, j)
      PROVE  Driven(k)' \/ k \in stranded'
  <2>1. /\ Running /\ queue' = queue /\ stranded' = stranded /\ chan' = chan /\ task' = task
        /\ handler[h] = Idle /\ \A i \in Handlers : i # h => handler'[i] = handler[i]
    BY <1>9 DEF Call, Goto, trees, TypeOK
  <2> QED
    BY <1>2, <2>1 DEF Driven, InChan, Idle
<1>10. CASE Start \/ StartPanics
  <2>1. Start /\ queue'[k] = None
    BY <1>10 DEF Start, StartPanics, Running, Empty, trees
  <2> QED
    BY <2>1
<1> QED
  BY <1>1, <1>3, <1>4, <1>5, <1>6, <1>7, <1>8, <1>9, <1>10 DEF Next, WorkerStep, WorkerExit, Crash

(* However requests, retries and prove tasks interleave, every queued job  *)
(* of a running process is on the channel, in a prove task or about to be  *)
(* sent, or was left behind by a prove task that ended without finalizing. *)
THEOREM DrivenJobs == Spec => []QueuedJobsAreDriven
<1>1. Init => QueuedJobsAreDriven
  BY DEF Init, QueuedJobsAreDriven, Running
<1>2. TypeOK /\ QueuedJobsAreDriven /\ [Next]_vars => QueuedJobsAreDriven'
  <2>1. ASSUME QueuedJobsAreDriven, UNCHANGED vars
        PROVE  QueuedJobsAreDriven'
    BY <2>1 DEF vars, trees, QueuedJobsAreDriven, Running, Driven, InChan
  <2> QED
    BY <2>1, DrivenStep
<1> QED
  BY <1>1, <1>2, TypeCorrect, PTL DEF Spec
=============================================================================
