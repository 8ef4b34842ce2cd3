----------------------------- MODULE PdaRunner -----------------------------
(***************************************************************************)
(* The job engine of the proxy (service/src/internal/runner.rs, job.rs and *)
(* the process life cycle in main.rs).                                     *)
(*                                                                         *)
(* A job is one blob to encrypt verifiably; its database key is the        *)
(* SHA-256 of the data, so a job and its key are the same thing here.      *)
(* HTTP request tasks (Handlers) call get_verifiable_encryption, which     *)
(* reads and writes two sled trees and pushes the job on an unbounded      *)
(* channel. The worker loop pops the channel and spawns one `prove` task   *)
(* per message; a prove task drives the job one status further and either  *)
(* moves it to the finished tree or sends it back on the channel.          *)
(*                                                                         *)
(* Each sled call (get, insert, transaction) is one atomic step, and so is *)
(* each channel operation. Everything between two of them interleaves.     *)
(***************************************************************************)
EXTENDS Naturals, Sequences, FiniteSets

CONSTANTS
  Keys,          \* database keys: the anchors of the jobs clients submit
  Handlers,      \* HTTP request tasks that call the runner
  Tasks,         \* slots for spawned prove tasks (tokio sets no limit)
  Provers,       \* the values SP1_PROVER may have when the process starts
  LocalErrors,   \* classes of error the local prover may return
  RemoteErrors,  \* classes of error the prover network client may return
  Faults,        \* failures the code does not classify: "prover" (any error that
                 \* is not an SP1NetworkError, setup, environment), "store" (sled)
  Stop,          \* the None that `shutdown` sends on the channel
  MaxCalls       \* bound on the calls clients make (TLC only)

(* What SP1NetworkError variants are told apart by handle_zk_client_error. *)
ErrorClasses == {"fatal", "retryable"}

ASSUME ConstantsAssumption ==
  /\ Stop \notin Keys
  /\ Provers \subseteq {"network", "local", "unknown", "unset"} /\ Provers # {}
  /\ LocalErrors \subseteq ErrorClasses
  /\ RemoteErrors \subseteq ErrorClasses
  /\ Faults \subseteq {"prover", "store"}
  /\ MaxCalls \in Nat

VARIABLES
  queue,     \* queue_db: key -> status, None when absent
  finished,  \* finished_db: key -> status, None when absent
  disk,      \* what sled has made durable of the two trees
  chan,      \* the unbounded mpsc channel of jobs
  handler,   \* the call each HTTP task is making
  task,      \* the prove task in each slot
  worker,    \* where the job_worker loop is
  phase,     \* the process: down, up, stopping (signalled), panicked at start
  prover,    \* SP1_PROVER of the running process
  attempts,  \* attempts[n]: the job that was encrypted under the nth nonce
  stranded,  \* history: jobs a prove task left in the queue without finalizing
  calls      \* number of calls made so far

trees   == <<queue, finished>>
vars    == <<queue, finished, disk, chan, handler, task, worker, phase, prover,
             attempts, stranded, calls>>

-----------------------------------------------------------------------------
(* JobStatus (job.rs). A proof is told apart by the job it encrypts and by *)
(* the nonce it used; the request ID of a remote proof is its nonce too,   *)
(* as every request draws a fresh one.                                     *)

None                    == [tag |-> "None"]
LocalZkProofPending     == [tag |-> "LocalZkProofPending"]
RemoteZkProofRequesting == [tag |-> "RemoteZkProofRequesting"]
RemoteZkProofPending(n) == [tag |-> "RemoteZkProofPending", id |-> n]
ZkProofFinished(k, n)   == [tag |-> "ZkProofFinished", key |-> k, nonce |-> n]
Failed(retry)           == [tag |-> "Failed", retry |-> retry]

Nonces         == Nat \ {0}
QueueStatus    == {LocalZkProofPending, RemoteZkProofRequesting}
                    \cup [tag : {"RemoteZkProofPending"}, id : Nonces]
ProofStatus    == [tag : {"ZkProofFinished"}, key : Keys, nonce : Nonces]
FailureStatus  == {Failed(None), Failed(RemoteZkProofRequesting)}
FinishedStatus == ProofStatus \cup FailureStatus

(* Result<Option<Proof>, Error> of get_verifiable_encryption.              *)
Pending == [tag |-> "Pending"]
Error   == [tag |-> "Error"]
Answers == {None, Pending, Error} \cup ProofStatus

(* The call an HTTP task is making, by the database step it is about to    *)
(* take, and the prove task in a slot.                                     *)
Idle       == [pc |-> "idle"]
CallStates == {Idle}
                \cup [pc : {"finished", "queue", "insert"}, key : Keys]
                \cup [pc : {"retry"}, key : Keys, status : {RemoteZkProofRequesting}]
                \cup [pc : {"send", "reply"}, key : Keys, answer : Answers]
TaskStates == {Idle}
                \cup [pc : {"start", "send"}, key : Keys]
                \cup [pc : {"work", "resend"}, key : Keys, status : QueueStatus]

Running == phase \in {"up", "stopping"}

TypeOK ==
  /\ queue    \in [Keys -> QueueStatus \cup {None}]
  /\ finished \in [Keys -> FinishedStatus \cup {None}]
  /\ disk     \in [queue    : [Keys -> QueueStatus \cup {None}],
                   finished : [Keys -> FinishedStatus \cup {None}]]
  /\ chan     \in Seq(Keys \cup {Stop})
  /\ handler  \in [Handlers -> CallStates]
  /\ task     \in [Tasks -> TaskStates]
  /\ worker   \in {"recv", "flush", "exit"}
  /\ phase    \in {"down", "panicked", "up", "stopping"}
  /\ prover   \in Provers
  /\ attempts \in Seq(Keys)
  /\ stranded \subseteq Keys
  /\ calls    \in Nat

Empty == [k \in Keys |-> None]

(* A fresh installation: empty database, process not started.              *)
Init ==
  /\ queue = Empty /\ finished = Empty
  /\ disk = [queue |-> Empty, finished |-> Empty]
  /\ chan = << >>
  /\ handler = [h \in Handlers |-> Idle]
  /\ task = [t \in Tasks |-> Idle]
  /\ worker = "recv"
  /\ phase = "down"
  /\ prover \in Provers
  /\ attempts = << >>
  /\ stranded = {}
  /\ calls = 0

-----------------------------------------------------------------------------
(* The two transactions over both trees.                                   *)

(* Mutant: the outcome is not written.                                     *)
finalize_job_unwritten(k, s) ==
  /\ queue' = [queue EXCEPT ![k] = None]
  /\ stranded' = stranded \ {k}
  /\ UNCHANGED finished

(* Move job k from the queue to the finished tree with outcome s.          *)
finalize_job(k, s) ==
  /\ queue' = [queue EXCEPT ![k] = None]
  /\ finished' = [finished EXCEPT ![k] = s]
  /\ stranded' = stranded \ {k}

(* The database half of send_job_with_new_status: drop k's outcome and put *)
(* it in the queue with status s. The caller sends on the channel next.    *)
send_job_with_new_status(k, s) ==
  /\ finished' = [finished EXCEPT ![k] = None]
  /\ queue' = [queue EXCEPT ![k] = s]
  /\ stranded' = stranded \ {k}

-----------------------------------------------------------------------------
(* get_verifiable_encryption, one action per database or channel step.     *)

HandlerOnly == <<disk, chan, task, worker, phase, prover, attempts, calls>>

Goto(h, state)   == handler' = [handler EXCEPT ![h] = state]
Reply(h, answer) == Goto(h, [pc |-> "reply", key |-> handler[h].key, answer |-> answer])

Retryable(s) == s.tag = "Failed" /\ s.retry # None

(* A client submits job k.                                                 *)
Call(h, k) ==
  /\ Running /\ handler[h] = Idle
  /\ calls < MaxCalls
  /\ calls' = calls + 1
  /\ Goto(h, [pc |-> "finished", key |-> k])
  /\ UNCHANGED <<trees, disk, chan, task, worker, phase, prover, attempts, stranded>>

(* finished_db holds a proof, which is the answer, or a failure that is    *)
(* permanent, or something it should not hold: both are errors.            *)
ReturnFinished(h) ==
  LET s == finished[handler[h].key] IN
  /\ Running /\ handler[h].pc = "finished"
  /\ s # None /\ ~Retryable(s)
  /\ Reply(h, IF s.tag = "ZkProofFinished" THEN s ELSE Error)
  /\ UNCHANGED <<trees, stranded, HandlerOnly>>

(* Mutant: the failure itself is queued, not the status it wraps.          *)
RetryFailedBoxed(h) ==
  LET s == finished[handler[h].key] IN
  /\ Running /\ handler[h].pc = "finished"
  /\ Retryable(s)
  /\ Goto(h, [pc |-> "retry", key |-> handler[h].key, status |-> s])
  /\ UNCHANGED <<trees, stranded, HandlerOnly>>

(* Mutant: a permanent failure is retried as well.                         *)
RetryFailedAlways(h) ==
  /\ Running /\ handler[h].pc = "finished"
  /\ finished[handler[h].key] \in FailureStatus
  /\ Goto(h, [pc |-> "retry", key |-> handler[h].key, status |-> RemoteZkProofRequesting])
  /\ UNCHANGED <<trees, stranded, HandlerOnly>>

(* finished_db holds a retry-able failure: take its retry status.          *)
RetryFailed(h) ==
  LET s == finished[handler[h].key] IN
  /\ Running /\ handler[h].pc = "finished"
  /\ Retryable(s)
  /\ Goto(h, [pc |-> "retry", key |-> handler[h].key, status |-> s.retry])
  /\ UNCHANGED <<trees, stranded, HandlerOnly>>

(* The retry's transaction; the answer will be the previous error.         *)
SendRetry(h) ==
  /\ Running /\ handler[h].pc = "retry"
  /\ send_job_with_new_status(handler[h].key, handler[h].status)
  /\ Goto(h, [pc |-> "send", key |-> handler[h].key, answer |-> Error])
  /\ UNCHANGED HandlerOnly

(* Mutant: the finished tree is not looked at.                             *)
NotFinishedUnchecked(h) ==
  /\ Running /\ handler[h].pc = "finished"
  /\ Goto(h, [pc |-> "queue", key |-> handler[h].key])
  /\ UNCHANGED <<trees, stranded, HandlerOnly>>

(* finished_db does not hold the job: the queue is read next.              *)
NotFinished(h) ==
  /\ Running /\ handler[h].pc = "finished"
  /\ finished[handler[h].key] = None
  /\ Goto(h, [pc |-> "queue", key |-> handler[h].key])
  /\ UNCHANGED <<trees, stranded, HandlerOnly>>

(* queue_db holds the job: it is pending.                                  *)
ReturnPending(h) ==
  /\ Running /\ handler[h].pc = "queue"
  /\ queue[handler[h].key] # None
  /\ Reply(h, IF queue[handler[h].key] \in QueueStatus THEN Pending ELSE Error)
  /\ UNCHANGED <<trees, stranded, HandlerOnly>>

(* Neither tree holds it: a new job, unless SP1_PROVER is not known.       *)
NewJob(h) ==
  /\ Running /\ handler[h].pc = "queue"
  /\ queue[handler[h].key] = None /\ prover # "unset"
  /\ IF prover = "unknown"
       THEN Reply(h, Error)
       ELSE Goto(h, [pc |-> "insert", key |-> handler[h].key])
  /\ UNCHANGED <<trees, stranded, HandlerOnly>>

(* SP1_PROVER is not set at all: the task that serves the request panics   *)
(* and the call ends without an answer.                                    *)
NewJobPanics(h) ==
  /\ Running /\ handler[h].pc = "queue"
  /\ queue[handler[h].key] = None /\ prover = "unset"
  /\ Goto(h, Idle)
  /\ UNCHANGED <<trees, stranded, HandlerOnly>>

InitialStatus == IF prover = "network" THEN RemoteZkProofRequesting ELSE LocalZkProofPending

(* Mutant: the job is inserted and not sent.                               *)
InsertJobUnsent(h) ==
  /\ Running /\ handler[h].pc = "insert"
  /\ queue' = [queue EXCEPT ![handler[h].key] = InitialStatus]
  /\ Reply(h, Pending)
  /\ UNCHANGED <<finished, stranded, HandlerOnly>>

(* Mutant: the job is sent and not inserted.                               *)
InsertJobUnwritten(h) ==
  /\ Running /\ handler[h].pc = "insert"
  /\ Goto(h, [pc |-> "send", key |-> handler[h].key, answer |-> Pending])
  /\ UNCHANGED <<trees, stranded, HandlerOnly>>

(* The new job's first status is written, ...                              *)
InsertJob(h) ==
  /\ Running /\ handler[h].pc = "insert"
  /\ queue' = [queue EXCEPT ![handler[h].key] = InitialStatus]
  /\ stranded' = stranded \ {handler[h].key}
  /\ Goto(h, [pc |-> "send", key |-> handler[h].key, answer |-> Pending])
  /\ UNCHANGED <<finished, HandlerOnly>>

(* ... and it is sent: the receiver lives as long as the process.          *)
SendJob(h) ==
  /\ Running /\ handler[h].pc = "send"
  /\ chan' = Append(chan, handler[h].key)
  /\ Reply(h, handler[h].answer)
  /\ UNCHANGED <<trees, stranded, disk, task, worker, phase, prover, attempts, calls>>

(* A sled call of the handler fails: it returns the error, nothing written. *)
StoreError(h) ==
  /\ Running /\ "store" \in Faults
  /\ handler[h].pc \in {"finished", "retry", "queue", "insert"}
  /\ Reply(h, Error)
  /\ UNCHANGED <<trees, stranded, HandlerOnly>>

(* The answer goes back to the HTTP layer.                                 *)
Return(h) ==
  /\ Running /\ handler[h].pc = "reply"
  /\ Goto(h, Idle)
  /\ UNCHANGED <<trees, stranded, HandlerOnly>>

-----------------------------------------------------------------------------
(* job_worker and the prove tasks it spawns.                               *)

TaskOnly == <<disk, handler, worker, phase, prover, calls>>

SetTask(t, state) == task' = [task EXCEPT ![t] = state]

(* The loop receives a job and spawns its prove task.                      *)
SpawnProve(t) ==
  /\ Running /\ worker = "recv" /\ task[t] = Idle
  /\ chan # << >> /\ Head(chan) # Stop
  /\ chan' = Tail(chan)
  /\ SetTask(t, [pc |-> "start", key |-> Head(chan)])
  /\ UNCHANGED <<trees, stranded, attempts, TaskOnly>>

(* prove reads the job's status from the queue. A job that is no longer    *)
(* queued is left alone.                                                   *)
StartProve(t) ==
  LET k == task[t].key
      s == queue[k]
  IN
  /\ Running /\ task[t].pc = "start"
  /\ SetTask(t, IF s \in QueueStatus THEN [pc |-> "work", key |-> k, status |-> s] ELSE Idle)
  /\ UNCHANGED <<trees, stranded, chan, attempts, TaskOnly>>

Working(t, tag) == Running /\ task[t].pc = "work" /\ task[t].status.tag = tag

(* zk_proof_remote draws a nonce and the network accepts the request.      *)
RequestProof(t) ==
  /\ Working(t, "RemoteZkProofRequesting")
  /\ attempts' = Append(attempts, task[t].key)
  /\ SetTask(t, [pc |-> "resend", key |-> task[t].key,
                 status |-> RemoteZkProofPending(Len(attempts) + 1)])
  /\ UNCHANGED <<trees, stranded, chan, TaskOnly>>

(* The request ID is recorded in the queue ...                             *)
RecordRequest(t) ==
  /\ Running /\ task[t].pc = "resend"
  /\ send_job_with_new_status(task[t].key, task[t].status)
  /\ SetTask(t, [pc |-> "send", key |-> task[t].key])
  /\ UNCHANGED <<chan, attempts, TaskOnly>>

(* Mutant: the job does not reach the channel.                             *)
SendBackLost(t) ==
  /\ Running /\ task[t].pc = "send"
  /\ SetTask(t, Idle)
  /\ UNCHANGED <<trees, stranded, chan, attempts, TaskOnly>>

(* ... and the job goes back on the channel.                               *)
SendBack(t) ==
  /\ Running /\ task[t].pc = "send"
  /\ chan' = Append(chan, task[t].key)
  /\ SetTask(t, Idle)
  /\ UNCHANGED <<trees, stranded, attempts, TaskOnly>>

(* Mutant: the proof is that of the latest request.                        *)
FetchLatestProof(t) ==
  LET id == Len(attempts) IN
  /\ Working(t, "RemoteZkProofPending")
  /\ finalize_job(task[t].key, ZkProofFinished(attempts[id], id))
  /\ SetTask(t, Idle)
  /\ UNCHANGED <<chan, attempts, TaskOnly>>

(* wait_for_zk_proof returns the proof of the request it waited for.       *)
FetchProof(t) ==
  LET id == task[t].status.id IN
  /\ Working(t, "RemoteZkProofPending")
  /\ finalize_job(task[t].key, ZkProofFinished(attempts[id], id))
  /\ SetTask(t, Idle)
  /\ UNCHANGED <<chan, attempts, TaskOnly>>

(* zk_proof_local draws a nonce and proves in process.                     *)
ProveLocal(t) ==
  /\ Working(t, "LocalZkProofPending")
  /\ attempts' = Append(attempts, task[t].key)
  /\ finalize_job(task[t].key, ZkProofFinished(task[t].key, Len(attempts) + 1))
  /\ SetTask(t, Idle)
  /\ UNCHANGED <<chan, TaskOnly>>

(* What a classified error makes of the job. Whichever prover failed, the  *)
(* retry starts with a request to the network.                             *)
FailureOf(class) == Failed(IF class = "retryable" THEN RemoteZkProofRequesting ELSE None)

(* When a request fails the network may still have taken it (a lost reply). *)
RequestMayBeTaken(t) ==
  \/ UNCHANGED attempts
  \/ /\ task[t].pc = "work" /\ task[t].status = RemoteZkProofRequesting
     /\ attempts' = Append(attempts, task[t].key)

(* An SP1NetworkError: the job is finalized as failed.                     *)
handle_zk_client_error(t, class) ==
  /\ Running /\ task[t].pc = "work"
  /\ class \in (IF task[t].status = LocalZkProofPending THEN LocalErrors ELSE RemoteErrors)
  /\ finalize_job(task[t].key, FailureOf(class))
  /\ RequestMayBeTaken(t)
  /\ SetTask(t, Idle)
  /\ UNCHANGED <<chan, TaskOnly>>

(* Every other way a prove task ends: an error that is not an              *)
(* SP1NetworkError, a failed setup, a malformed SP1_FULFILLMENT_STRATEGY,  *)
(* a panic, a failed sled call. Nothing is finalized.                      *)
AbandonProve(t) ==
  /\ Running
  /\ \/ "prover" \in Faults /\ task[t].pc = "work"
     \/ "store" \in Faults /\ task[t].pc \in {"start", "work", "resend"}
  /\ stranded' = stranded \cup {task[t].key}
  /\ RequestMayBeTaken(t)
  /\ SetTask(t, Idle)
  /\ UNCHANGED <<trees, chan, TaskOnly>>

-----------------------------------------------------------------------------
(* The process.                                                            *)

(* sled flushes both trees in the background.                              *)
Flush ==
  /\ Running
  /\ disk' = [queue |-> queue, finished |-> finished]
  /\ UNCHANGED <<trees, chan, handler, task, worker, phase, prover, attempts, stranded, calls>>

(* A signal: shutdown sends None on the channel.                           *)
Shutdown ==
  /\ phase = "up"
  /\ phase' = "stopping"
  /\ chan' = Append(chan, Stop)
  /\ UNCHANGED <<trees, disk, handler, task, worker, prover, attempts, stranded, calls>>

(* The loop receives None and breaks, ...                                  *)
WorkerBreak ==
  /\ Running /\ worker = "recv"
  /\ chan # << >> /\ Head(chan) = Stop
  /\ chan' = Tail(chan)
  /\ worker' = "flush"
  /\ UNCHANGED <<trees, disk, handler, task, phase, prover, attempts, stranded, calls>>

(* Mutant: only the queue is flushed.                                      *)
WorkerFlushQueue ==
  /\ Running /\ worker = "flush"
  /\ disk' = [disk EXCEPT !.queue = queue]
  /\ worker' = "exit"
  /\ UNCHANGED <<trees, chan, handler, task, phase, prover, attempts, stranded, calls>>

(* ... flushes both trees, ...                                             *)
WorkerFlush ==
  /\ Running /\ worker = "flush"
  /\ disk' = [queue |-> queue, finished |-> finished]
  /\ worker' = "exit"
  /\ UNCHANGED <<trees, chan, handler, task, phase, prover, attempts, stranded, calls>>

(* All that is in memory is gone; the trees are what the disk holds.       *)
Die ==
  /\ queue' = disk.queue /\ finished' = disk.finished
  /\ chan' = << >>
  /\ handler' = [h \in Handlers |-> Idle]
  /\ task' = [t \in Tasks |-> Idle]
  /\ worker' = "recv"
  /\ phase' = "down"
  /\ stranded' = {}
  /\ UNCHANGED <<disk, prover, attempts, calls>>

(* ... and exits the process, whatever the other tasks are doing.          *)
WorkerExit == Running /\ worker = "exit" /\ Die

Crash == Running /\ Die

(* main with nothing in the queue.                                         *)
Start ==
  /\ phase = "down" /\ queue = Empty
  /\ phase' = "up"
  /\ prover' \in Provers
  /\ UNCHANGED <<trees, disk, chan, handler, task, worker, attempts, stranded, calls>>

(* main with a job in the queue: the loop that restarts unfinished jobs    *)
(* decodes the first database key as a Job and unwraps. The key encodes    *)
(* the anchor only, so the decoding always fails and the process panics    *)
(* before it looks at the status or sends anything. The container's        *)
(* restart policy only repeats this.                                       *)
StartPanics ==
  /\ phase \in {"down", "panicked"} /\ queue # Empty
  /\ phase' = "panicked"
  /\ UNCHANGED <<trees, disk, chan, handler, task, worker, prover, attempts, stranded, calls>>

-----------------------------------------------------------------------------
HandlerStep(h) ==
  \/ ReturnFinished(h) \/ RetryFailed(h) \/ SendRetry(h) \/ NotFinished(h)
  \/ ReturnPending(h) \/ NewJob(h) \/ NewJobPanics(h) \/ InsertJob(h) \/ SendJob(h)
  \/ StoreError(h) \/ Return(h)

ProveStep(t) ==
  \/ StartProve(t) \/ RequestProof(t) \/ RecordRequest(t) \/ SendBack(t)
  \/ FetchProof(t) \/ ProveLocal(t)
  \/ \E class \in ErrorClasses : handle_zk_client_error(t, class)
  \/ AbandonProve(t)

WorkerStep == (\E t \in Tasks : SpawnProve(t)) \/ WorkerBreak \/ WorkerFlush \/ WorkerExit

Next ==
  \/ \E h \in Handlers, k \in Keys : Call(h, k)
  \/ \E h \in Handlers : HandlerStep(h)
  \/ \E t \in Tasks : ProveStep(t)
  \/ WorkerStep
  \/ Flush \/ Shutdown \/ Crash
  \/ Start \/ StartPanics

Spec == Init /\ [][Next]_vars

(* tokio polls every ready task, and a prover or the network answers every *)
(* request in the end, if only with an error. Nothing makes a client call, *)
(* the disk flush at a given moment or the process crash or stop. The      *)
(* container restarts a process that is down.                              *)
Fairness ==
  /\ \A h \in Handlers : WF_vars(HandlerStep(h))
  /\ \A t \in Tasks : WF_vars(ProveStep(t))
  /\ WF_vars(WorkerStep)
  /\ WF_vars(Start \/ StartPanics)

FairSpec == Spec /\ Fairness

-----------------------------------------------------------------------------
(* Properties.                                                             *)

Known(k)     == queue[k] # None \/ finished[k] # None
DiskKnown(k) == disk.queue[k] # None \/ disk.finished[k] # None

InChan(k)    == \E i \in 1 .. Len(chan) : chan[i] = k
Drives(k, a) == a.pc \in {"start", "work", "resend", "send"} /\ a.key = k
Driven(k)    == \/ InChan(k)
                \/ \E h \in Handlers : handler[h].pc = "send" /\ handler[h].key = k
                \/ \E t \in Tasks : Drives(k, task[t])

(* No interleaving of requests and prove tasks leaves a job in the queue   *)
(* with nobody to work on it: every queued job is on the channel, in a     *)
(* prove task, or about to be sent by the handler that inserted it, unless *)
(* a prove task ended on a path that does not finalize.                    *)
QueuedJobsAreDriven ==
  Running => \A k \in Keys : queue[k] # None => Driven(k) \/ k \in stranded

(* Both transactions move a job between the trees in one step, so while    *)
(* the process runs no step makes a job it knows unknown.                  *)
JobsAreNeverForgotten ==
  [][Running /\ Running' => \A k \in Keys : Known(k) => Known(k)']_vars

(* A job that reached the disk is never lost, through any number of        *)
(* crashes and shutdowns: no flush drops what an earlier one saved.        *)
DurableJobsStay ==
  [][\A k \in Keys : DiskKnown(k) => DiskKnown(k)']_vars

(* A proof or a request recorded under a key is of that key's job, in      *)
(* either tree, on disk and in the hands of a task: s, recorded for k, was *)
(* made by an attempt at k.                                                *)
Genuine(s, k) ==
  /\ s.tag = "ZkProofFinished" =>
       s.key = k /\ s.nonce \in DOMAIN attempts /\ attempts[s.nonce] = k
  /\ s.tag = "RemoteZkProofPending" => s.id \in DOMAIN attempts /\ attempts[s.id] = k

(* No stale read, restart or lost reply attaches the proof or request of   *)
(* one job to another: wherever a status is kept, it is its own job's.     *)
RecordsAreGenuine ==
  /\ \A k \in Keys : /\ Genuine(queue[k], k) /\ Genuine(finished[k], k)
                     /\ Genuine(disk.queue[k], k) /\ Genuine(disk.finished[k], k)
  /\ \A t \in Tasks :
       task[t].pc \in {"work", "resend"} => Genuine(task[t].status, task[t].key)

(* What a call returns is true when it returns: a proof is of the job that *)
(* was asked for, under the nonce of an attempt at that job, and a job     *)
(* said to be pending is in one of the trees.                              *)
AnswersAreTrue ==
  \A h \in Handlers : handler[h].pc \in {"send", "reply"} =>
    /\ Genuine(handler[h].answer, handler[h].key)
    /\ handler[h].answer = Pending => Known(handler[h].key)

(* A queued job is settled in the end, or was stranded, or the process     *)
(* stopped.                                                                *)
QueuedJobsSettle ==
  \A k \in Keys : queue[k] # None ~> (queue[k] = None \/ k \in stranded \/ phase # "up")
=============================================================================
