---------------------------- MODULE RunnerClaims ----------------------------
(***************************************************************************)
(* What comments, log messages and documents of the repository say of the  *)
(* job engine and the code does not do. Each is refuted by a run.          *)
(***************************************************************************)
EXTENDS PdaRunner

(* finalize_job: "This removes the job from any further processing by      *)
(* workers", and a job with a ZkProofFinished status "is complete": while  *)
(* the process runs, a stored proof is not replaced.                       *)
StoredProofsStay ==
  [][Running /\ Running' => \A k \in Keys :
       finished[k] \in ProofStatus => finished'[k] = finished[k]]_vars

(* "NOTE: we internally finalize the job in `handle_zk_client_error`" on   *)
(* every Err arm of prove: while the process is up, each queued job leaves *)
(* the queue in the end.                                                   *)
EveryJobIsFinalized ==
  \A k \in Keys : queue[k] # None ~> (queue[k] = None \/ phase # "up")

(* shutdown: "Terminating worker,finishing preexisting jobs": the process  *)
(* does not exit while a prove task is at work.                            *)
ShutdownFinishesJobs ==
  worker = "exit" => \A t \in Tasks : task[t] = Idle

(* main: "Restarting unfinished jobs": a process that went down, with or   *)
(* without unfinished jobs, comes up again.                                *)
ProcessComesBack == phase = "down" ~> phase = "up"

(* example.env: SP1_PROVER says whether proofs are made locally or on the  *)
(* network: nothing is sent to the network in a local configuration.       *)
RemoteOnlyWhenConfigured ==
  \A t \in Tasks :
    task[t].pc = "work" /\ task[t].status # LocalZkProofPending => prover = "network"
=============================================================================
