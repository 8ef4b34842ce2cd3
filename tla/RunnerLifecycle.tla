-------------------------- MODULE RunnerLifecycle ---------------------------
(***************************************************************************)
(* The job engine implements JobLifecycle, with any number of threads.     *)
(*                                                                         *)
(* Requests that race for one job may work on it several times over: both  *)
(* of get_verifiable_encryption's reads may be stale when it inserts, and  *)
(* a stored proof may be replaced (RunnerClaims!StoredProofsStay). What    *)
(* limits this is that all of them were on their way before the job was    *)
(* finished: a finished job draws no new work.                             *)
(***************************************************************************)
EXTENDS PdaRunner

(* A call works on its job from the moment it has found no final outcome   *)
(* until it has read the job as queued or sent it.                         *)
Calls(k, a) == a.pc \in {"retry", "queue", "insert", "send"} /\ a.key = k

(* The messages, calls and prove tasks that are on their way for job k.    *)
Messages(k)   == {i \in 1 .. Len(chan) : chan[i] = k}
Callers(k)    == {h \in Handlers : Calls(k, handler[h])}
ProveTasks(k) == {t \in Tasks : Drives(k, task[t])}

Busy(k)  == Messages(k) # {} \/ Callers(k) # {} \/ ProveTasks(k) # {}

(* How many parties are on their way for job k.                            *)
Effort(k) == Cardinality(Messages(k)) + Cardinality(Callers(k)) + Cardinality(ProveTasks(k))

(* Where jobs are, read from the two trees.                                *)
Whereabouts(q, f) ==
  [k \in Keys |-> IF f[k] # None THEN f[k] ELSE IF q[k] # None THEN Pending ELSE None]

ProofsOf == [k \in Keys |-> [tag : {"ZkProofFinished"}, key : {k}, nonce : Nonces]]

Lifecycle == INSTANCE JobLifecycle WITH
  Jobs <- Keys, Proofs <- ProofsOf, GivenUp <- Failed(None),
  TryAgain <- Failed(RemoteZkProofRequesting), Unknown <- None, Pending <- Pending,
  job <- Whereabouts(queue, finished), busy <- {k \in Keys : Busy(k)},
  abandoned <- stranded, saved <- Whereabouts(disk.queue, disk.finished)

(* The engine implements the life cycle, whatever the threads, errors,     *)
(* signals and crashes do: nobody starts to work on a job with a proof or  *)
(* a permanent failure; such an outcome changes only while somebody who    *)
(* started before is on its way; the last of them never leaves the job     *)
(* pending; and a crash returns all jobs to one past state.                *)
ImplementsLifecycle == Lifecycle!Spec

FinalOutcome(k) == finished[k] \in ProofStatus \cup {Failed(None)}

(* A job is worked on again only by those who were on their way when its   *)
(* outcome became final: from then on no step adds a message, a call past  *)
(* its first read or a prove task without taking one away, so proofs made  *)
(* and paid for twice are as many as the requests that raced, not more.    *)
FinishedJobsDrawNoWork ==
  [][Running /\ Running' => \A k \in Keys : FinalOutcome(k) => Effort(k)' <= Effort(k)]_vars
=============================================================================
