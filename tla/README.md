# TLA+ verification of pda-proxy

pda-proxy sits between a JSON-RPC client and a Celestia node. It replaces the
blobs of `blob.Submit` by verifiable encryptions of them (a ChaCha20 encryption
inside a zkVM, with its proof) and decrypts what `blob.Get` and `blob.GetAll`
return. A proof takes minutes, so a submission starts a job, is told to call
back, and is forwarded on the call that finds the proof ready.

This directory models the parts of the service that carry state, checks them
with TLC on small instances, and proves the main safety properties with TLAPS
for every instance.

## Inventory

| Component | State | Operations | Interacts with | What is hard |
|---|---|---|---|---|
| Job engine (`internal/runner.rs`, `job.rs`) | sled trees `queue_db`, `finished_db`; unbounded channel | `get_verifiable_encryption`, `job_worker`, `prove`, `zk_proof_local`, `zk_proof_remote`, `wait_for_zk_proof`, `handle_zk_client_error`, `finalize_job`, `send_job_with_new_status`, `shutdown` | request tasks call it; prover network; proof setup | two reads and a write without a transaction; a job driven by messages to itself; errors on many paths |
| Process (`main.rs`, `util.rs`) | what sled made durable; `SP1_PROVER` | start, resume the queue, signal, flush and exit | everything in memory ends with it | crash between flushes; exit with tasks in flight; restart with another configuration |
| Proof setup (`runner.rs`) | OnceCell `CHACHA_SETUP`, tree `config_db`, two client cells | `get_proof_setup_local`, `get_proof_setup_remote`, `get_zk_client_*` | prove tasks, prewarming task, decrypting requests | shared initialization that fails, panics or is cancelled; upgrade of the program on the same database |
| HTTP proxy (`main.rs`) | the requests being served; none across them | auth check, `inbound_handler`, forward, `outbound_handler`, `verify_decrypt_blob` | job engine, proof setup, Celestia node | several blobs in one call; replies that are lost; blobs of other authors, programs and keys |
| zkVM program and output (`zkVM/`), developer command (`cli.rs`) | none | write and read three slices; commit key hash, nonce, plaintext hash, ciphertext; `ZkvmOutput::from_bytes`; decrypt | prover, decryption | order, lengths and offsets agreed between programs of four crates |
| Database keys (`job.rs`) | none | bincode of an anchor; decoding as `Job` | trees, restart | one type written, another read |
| TLS, RPC stubs, build scripts, deployment | none of interest | | | |

What makes each correct:

- Job engine: no job is lost or left in the queue with nobody to work on it;
  a proof is only ever given out for the job it was made for; what a caller is
  told is true; a job with a final outcome draws no new work; a queued job is
  settled in the end.
- Process: what reached the disk survives; the process comes back.
- Proof setup: one initializer at a time; the setup is that of the running
  program; everyone who asks is answered.
- HTTP proxy: what is forwarded for a submission is one proof per blob, in
  order; what a client is told is true; a read is decrypted as a whole or passed
  through; every request is answered.
- zkVM: what the hosts write is what the program expects, what it commits is
  what `from_bytes` reads, and decryption returns what was encrypted.
- Database keys: a key stands for one anchor.

## Modules

`PdaRunner` is the job engine and the process around it. A job and its database
key are the same value, since the key is the hash of the data.

| Model | Code |
|---|---|
| `queue`, `finished` | the trees, key to status, `None` when absent |
| `disk` | what sled has made durable of both; sled recovers a prefix of one log, so both trees come from the same moment |
| `chan`, `Stop` | the unbounded channel of `Option<Job>` and its `None` |
| `handler[h]` | the call a request task is making: the database step it takes next, with what it read so far |
| `task[t]` | a spawned prove task: not started, at work with the status it read, about to record or to send |
| `worker`, `phase` | the loop of `job_worker`, the process |
| `attempts` | one entry for each nonce drawn: the job encrypted under it. A remote request's ID is its nonce |
| `stranded` | history: jobs a prove task left in the queue without finalizing them |

Each sled call and each channel operation is one action; everything between
interleaves, as `#[tokio::main]` runs tasks on several threads.

`get_verifiable_encryption` is `Call`, then `ReturnFinished`, `RetryFailed`
(and `SendRetry`) or `NotFinished` after the first read; `ReturnPending` or
`NewJob` after the second, or `NewJobPanics` when `SP1_PROVER` is not set;
`InsertJob`, `SendJob`, `Return`; `StoreError` for a sled error at any of them. `prove` is `StartProve`, then by status
`RequestProof`, `RecordRequest`, `SendBack`; `FetchProof`; `ProveLocal`; or
`handle_zk_client_error`, or `AbandonProve` for the endings that do not
finalize. The process is `Shutdown`, `WorkerBreak`, `WorkerFlush`,
`WorkerExit`, `Crash`, `Start`, `StartPanics`, and sled's own `Flush`.

Errors are the two classes `handle_zk_client_error` tells apart, "fatal" and
"retryable"; which of them a local or a remote prover returns is a constant.
`Faults` adds the failures the code does not classify.

`JobLifecycle` is the abstract specification: one small state machine per job,
which is unknown, pending or settled, and worked on by somebody or nobody. It
does not promise that an outcome never changes, as the engine does not keep that
(see `claim_stored_proof`), but that nobody starts to work on a job with a proof or
a permanent failure, so that such an outcome stays once the last of those who
started before has left; that the last of them does not leave the job pending,
unless it was abandoned; and that a crash returns to one past state of all jobs.
`RunnerLifecycle` extends `PdaRunner` and maps it to `JobLifecycle`: where a job
is, is read from the two trees (`Whereabouts`), and it is worked on when a
message, a call past its first read or a prove task is on its way for it (`Busy`).

`RunnerClaims` states what comments, log messages and `example.env` say and the
code does not do.

`ProofSetup` is the setup cell with its three kinds of callers: prove tasks, the
prewarming task (which builds both clients and asks twice, ignoring the first
result) and HTTP requests that verify a proof before decrypting, which hyper
drops when the client disconnects. The two `get_proof_setup_*` functions differ
in the client only, so one set of actions stands for both.

`PdaProxy` is the HTTP layer, composed with the engine: it extends `PdaRunner`,
and a request task is one of its `Handlers`. Each step is a step of the engine
(`EngineNext`, with `Around` for what it means to the requests), of the request
around it, or of both (`Encrypt` makes the engine's `Call`, `Encrypted` its
`Return`, `Panicked` ends the request with the call that panics).

| Model | Code |
|---|---|
| `request[h]` | the request a hyper task is serving: what was asked, the encryptions gathered so far (`encrypted_blobs`), the node's reply or the response |
| `node` | the Celestia node (external): the blocks, each a sequence of blobs |
| `config` | `ENCRYPTION_KEY` and the ZK program of the running process |
| `sealed` | history: the configuration each attempt was made with, so that a proof made before a restart keeps its key |

A request is `Receive`, then for `blob.Submit` an `Encrypt` and an `Encrypted`
for each blob, which may end the request as pending or failed; `NodeServes` or
`NodeFails`; `outbound_handler`, which for reads is `TryDecrypt` over
`verify_decrypt_blob`; `Respond`. `Disconnect` is hyper dropping the request of a
client that left. A blob on the node has a seal, the key and program it was
encrypted with, or `Clear` when it is no proof; decryption with another key
yields `Noise`.

`VerifiableEncryption` is the ZK program with those who run it (the service, the
command with `--execute` and with `--prove`, and anyone else, as the program is
public) and those who read what it commits. Bytes, lengths and offsets are
those of the code, with `KEY_LEN`, `NONCE_LEN` and `HASH_LEN` as parameters;
SHA-256, the keystream and exclusive or are operator parameters. It extends
`JobKey`, bincode's encoding of an anchor and its decoding as a `Job`. What
`PdaProxy` and `PdaRunner` take from it: a proof read with its own key is the
plaintext, and a database key never decodes (`StartPanics`).

The theorems are in `PdaRunnerProofs`, `RunnerLifecycleProofs` (the
refinement), `ProofSetupProofs`, `PdaProxyProofs` (what is forwarded),
`ProxyResponsesProofs` (what clients are told), `VerifiableEncryptionProofs`, and
`ClaimsProofs` (under which condition a refuted claim holds). The `MC` modules only add
symmetry sets, the submissions and blocks of an instance, and stand-ins for the
cryptography. Definitions marked "Mutant" are plausible bugs; each
shows that a property notices when it takes the place of the definition after
it. They are not part of any specification.

## Runs

| Run | Instance | Shows |
|---|---|---|
| `runner_safety` | 2 jobs, 2 request tasks, 2 prove tasks, all provers, errors and faults, 2 calls | types, `QueuedJobsAreDriven`, `AnswersAreTrue`, `RecordsAreGenuine`, `JobsAreNeverForgotten`, `DurableJobsStay` |
| `runner_lifecycle` | 1 job, 3 calls of 2 request tasks, 2 prove tasks, network and local, all errors and faults | `ImplementsLifecycle`, `FinishedJobsDrawNoWork` |
| `proof_setup` | 2 prove tasks, 1 request, prewarming, 2 programs, all faults, fairness | `OneInitializer`, `SetupIsOfTheProgram`, `FilledCellIsStored`, `EveryoneIsAnswered` |
| `proxy_safety` | 2 request tasks, 3 requests, submissions of one or two blobs and reads of a block, over the engine with 2 jobs, the local prover, crashes and restarts; all failures of node, client and setup | `ProxyTypeOK`, `SubmissionsAreWhole`, `ResponsesAreTrue`, `ReadsAreComplete` |
| `proxy_live` | 2 racing submissions of one job, 2 prove tasks, network and local, retry-able and unclassified errors, fairness | `RequestsAreAnswered`, `QueuedJobsSettle` |
| `encryption` | binary bytes, keys and nonces up to 3 long, texts up to 2, all hosts | `OwnRunsSucceed`, `OutputIsReadBack`, `DecryptionInverts` |
| `claim_stored_proof` | violated | a call reads `finished_db` before its job is finalized and `queue_db` after it, finds the job in neither and inserts it again; it is proved again and its stored proof replaced |
| `claim_finalized` | violated | an error that is not an `SP1NetworkError` leaves the job pending for ever |
| `claim_shutdown` | violated | the process exits while a prove task is at work |
| `claim_restart` | violated | with a job in the queue the process panics at every start |
| `claim_config` | violated | a retry goes to the network although the process is configured to prove locally |
| `claim_decrypt` | violated | after a restart with another `ENCRYPTION_KEY` noise is returned as decrypted |

Bounds. `MaxCalls` bounds the calls clients make; everything else is finite
because of it (a call adds at most one message and one attempt of each kind, and
a retry needs a call). Two calls are enough for two jobs to cross or for one
retry; three calls on one job let a stale insert, a finished job and a retry
meet (`runner_lifecycle`, where one job is enough, as every part of the life cycle
speaks of one). In
`proxy_safety` three requests are what it takes to submit two new blobs and see
them forwarded: the first call starts the first job, the second gets its proof
and starts the other, the third has both. One prove slot is enough there, as
the HTTP layer sees of the engine only its answers, and all answers but a
retry-able error (which it treats as any other) occur. `MaxRequests * Len(s) <=
MaxCalls` (`ProxyAssumption`) keeps the engine's bound from cutting a request
off. In `encryption` the lengths are small and pairwise different from what they
could be mistaken for; slices shorter, equal and longer than a key and a nonce
and empty texts all occur. `Tasks` are slots for prove tasks, which tokio does not limit: with fewer
slots than messages the channel holds the rest, so a slot count only limits how
many run at the same time. The theorems have no such bounds.

Fairness. Weak fairness of every request task, every prove task and the worker
loop: tokio polls every ready task, and a prover or the network answers in the
end, if only with an error (a request carries a timeout). This assumes a free
worker thread; the local prover blocks one while it runs. Weak fairness of
start: the container is configured with `restart: unless-stopped`. No fairness
of calls, flushes, signals and crashes. In `PdaProxy` a request task is fair where
it waits for nobody (`RequestStep`) or for the engine (`CallStep`); the node is
not (`NodeStep`), as the HTTP client has no timeout, so `RequestsAreAnswered` lets a
forwarded request wait for ever. In `ProofSetup`, strong fairness of entering the
cell: waiters of a OnceCell queue in order.

Deadlock is checked in every run. A process that cannot start is not a
deadlock in the model, as the container keeps restarting it (`StartPanics`).

## Proofs

For any constants that satisfy the named assumptions (`ConstantsAssumption`:
keys, request tasks, prove tasks and the stop value have different names, the
configuration sets are what they say; `SetupAssumption`: the callers are distinct
from the null value), TLAPS checks:

- `TypeCorrect`, `GenuineRecords`. `TypeOK` is not inductive: `FetchProof`
  stores the proof of the request it waited for, which has its type only if
  that request is on record. The inductive invariant is
  `TypeOK /\ RecordsAreGenuine`, and its second half is the stronger fact: no
  interleaving attaches a request or proof to another job. `AttemptsGrow` says
  that attempts are only added.
- `NoJobForgotten`. `KnownStep`: of all steps only the end of the process takes a
  job out of both trees.
- `DurableJobs`. The inductive invariant is `DiskIsBehind`: what is on disk is in
  the trees. Only flushes write the disk, from the trees.
- `TrueAnswers`, inductive together with `RecordsAreGenuine`: an answer about to
  be returned stays true because attempts are kept and jobs stay known.
- `DrivenJobs`, inductive with the types: whoever gives a job up settles it,
  passes it on or marks it stranded. `Sent` and `Received` say what the channel
  operations keep.
- `ProxyImplementsEngine`: `ProxySpec => Spec`. The composed proxy behaves, in the
  engine's variables, as the engine alone, so the theorems above hold in it. A
  step that calls the engine is an engine step only if the blob it asks for is
  a job, which needs an invariant of the requests.
- `WholeSubmissions`. The inductive invariant is `ProxyInv`: requests hold what
  clients submitted (`RequestsOK`), the engine works for a request exactly on
  its next blob (`CallsMatch`), and `SubmissionsAreWhole` itself; with `TypeOK`,
  `RecordsAreGenuine` and `AnswersAreTrue` of the engine, since what joins a
  request's encryptions is an answer of the engine. One lemma per kind of step
  (`EngineStepKeeps`, `ReceiveKeeps`, `EncryptKeeps`, `EncryptedKeeps`,
  `ForwardedKeeps`). Further assumption: `ProxyAssumption`.
- `ProxyTypes`, `TrueResponses`, `CompleteReads`. What a response says was found
  out some steps earlier, so the inductive invariant `ResponseInv` says what a
  request may rely on from the moment the node or the engine replies until the
  client is told (`Agree`): an accepted submission is in some block, a read has
  its blobs, decrypted blobs are those of the read under the running
  configuration, a pending job is in one of the trees. It lasts because blocks,
  attempts and seals are only added (`BackedStays`), jobs stay known
  (`KnownStep`), and no request outlives its process, so a configuration changes
  only when there is none (`EndTogether`, `PhaseStep`). `PostedIsOnNode` connects
  `SubmissionsAreWhole` with the block that is written.
- `EngineImplementsLifecycle`: `Spec => ImplementsLifecycle`, for any number of
  threads, requests and prove tasks. It rests on the types, `RecordsAreGenuine`
  (an outcome is the job's own) and `QueuedJobsAreDriven` (the last to leave does
  not leave the job pending). `NotFinished` and `RetryFailed` map to `Begin` or a
  stutter; `InsertJob`, `SendRetry` and `RecordRequest` to `Reopen`, but an
  `InsertJob` of a job that has an outcome to a `Settle` that keeps it (such a job
  is in both trees, and the finished one is what clients are told); `FetchProof`,
  `ProveLocal` and `handle_zk_client_error` to `Settle`; `AbandonProve` to
  `Abandon`; both flushes to `Save`; the end of the process to `Crash`. What ends a
  call or a prove task otherwise is `Leave`, or a stutter while others are on
  their way. The lemmas `JoinOrLeave`, `Settles`, `Reopens` and `Abandons` say
  what a step must do to one job to be one of these, and one lemma per kind of
  process shows that its steps do.
- `NoWorkForFinishedJobs`, for finite sets of request tasks and prove tasks: the
  number of parties on their way for a job with a final outcome does not grow.
  `QuietOutcomesStay`: once there is none, its outcome stays while the process runs,
  which is what remains of the refuted `StoredProofsStay`.
- `OutputReadsBack`, `OwnRunsAlwaysSucceed`, `DecryptionAlwaysInverts`, for
  every length of key, nonce, digest and text. The
  inductive invariant `EncryptionInv` says what the program has committed at
  each step, as a concatenation, and what its inputs are. The assumptions are
  `CipherAssumption` (digests have their length, exclusive or is its own
  inverse) and `PrefixAssumption` (an encoded length has 8 bytes and determines
  the length). `KeyNeverDecodes` and `KeysTellAnchorsApart` are about the
  encoding alone: a stored key does not decode as a job (`StartPanics`), and
  different anchors have different keys.
- `SingleInitializer`, `RightSetup`, `StoredSetup`, `SetupTypes`, from the
  invariant `SetupInv`, which adds what `config_db` holds in memory and on disk
  (`StoresAreRight`).
- For three claims that runs refute, that nothing but the cause named there is
  in the way. `OnlyFaultsStrand`: without unclassified errors (`Faults = {}`) every
  queued job is driven. `OnlyRetriesLeave`: without `"network"` in `Provers` and
  retry-able local errors, `RemoteOnlyWhenConfigured` (invariant `StaysHome`).
  `PlaintextUnderOneKey`: if all configurations have one key, and what others
  posted under the same programs has it too (`OneKey`), `DecryptedIsPlaintext`
  (invariant `NodeIsOurs`). `QuietOutcomesStay` is the fourth of this kind.

Every inductive invariant was checked with TLC on a small instance before it was
proved. All invariants and action properties of the passing runs are theorems.

Only model-checked: `QueuedJobsSettle`, `RequestsAreAnswered` and
`EveryoneIsAnswered`, as liveness under fairness is out of the prover's reach;
and the claims that are refuted. `ShutdownFinishesJobs` and `ProcessComesBack` can
fail as soon as there is a job, so no condition is stated for them.

## Abstractions

- Data, hashes, keys, nonces and proofs are names. Two nonces never collide
  (12 random bytes).
- A sled transaction is one step; a failed sled call writes nothing.
- `handler` and `task` lose nothing between steps that the code keeps; the
  job's data travels with its key.
- A local prover may return an `SP1NetworkError` in the model, as the code
  provides for it; whether the installed SDK ever does is not known here.
- `Die` forgets `stranded`: it is a history of the running process.
- The node takes a submission as one block, all of it or nothing, and never
  loses a block; a read returns what is there. Reads that race a submission are
  in the model, blocks of other authors are there from the start.
- A request that does not parse and one without a token are answered at once;
  which of the parse steps failed is not told apart.
- A client that leaves while the engine works on its blob does not interrupt
  it: between its awaits `get_verifiable_encryption` runs to its end, so hyper
  drops a request only where it waits for the node or for the proof setup.
- In `PdaProxy` verification and decryption are what `VerifiableEncryption` shows
  of them; in `VerifiableEncryption` a proof that verifies is output that the
  program committed in full.
- Verifying the blobs of a read, an await for each in the code, is one step:
  the blobs and the configuration it works on do not change meanwhile, and only
  the whole result is used. The client leaving and the setup failing are
  alternatives to it.
- When a request's client disconnects during a setup generation, the blocking
  thread goes on and its result is dropped. The model has the cancellation and
  not the thread, so `OneInitializer` bounds initializers, not threads.

## Not modelled

- `service/src/rpc`: not compiled into the service (`main.rs` does not declare
  it) and made of `todo!()` bodies.
- TLS and certificates, logging, the texts of responses, `vkey.rs` and build
  scripts: no state and nothing to interleave.
- The cryptography and the proof system: parameters of `VerifiableEncryption`.
- Thread starvation by the blocking prover, memory and GPU limits: the
  repository sets no bound that could be checked.

## Plan

1. Done: `PdaRunner` with its runs, claims and proofs; `JobLifecycle` and
   `RunnerLifecycle` with the refinement proof; `ProofSetup` with its run and
   proofs; `PdaProxy` with its runs, claim and proofs; `JobKey` and
   `VerifiableEncryption` with their run and proofs; the conditions of the
   refuted claims.
2. A variant of `PdaRunner` with a bounded number of worker threads that the
   local prover blocks.
3. Which of the steps that replace a stored proof a transaction over both trees
   would rule out.
