---------------------------- MODULE JobLifecycle ----------------------------
(***************************************************************************)
(* What the job engine promises its clients, as one small state machine    *)
(* per job. A job is worked on by any number of parties at once; all that  *)
(* counts is whether there is one. A proof and a permanent failure draw no *)
(* new work, so they stay once the last party has left; as long as one is  *)
(* there the outcome may still be replaced, and the job reopened. A job    *)
(* nobody works on is not pending, unless it was abandoned. Storage keeps  *)
(* a past state of all jobs, which a crash returns to.                     *)
(***************************************************************************)
CONSTANTS
  Jobs,       \* the jobs
  Proofs,     \* Proofs[j]: the proofs job j may be settled with
  GivenUp,    \* the outcome of a job that failed for good
  TryAgain,   \* the outcome of a job that may be tried again
  Unknown,    \* never submitted
  Pending     \* submitted, not settled

VARIABLES
  job,        \* job[j]: where job j is
  busy,       \* the jobs that somebody works on
  abandoned,  \* the jobs that somebody gave up without settling them
  saved       \* the state storage would return to

lifecycle == <<job, busy, abandoned, saved>>

Final(j) == job[j] \in Proofs[j] \cup {GivenUp}

Init ==
  /\ job = [j \in Jobs |-> Unknown]
  /\ busy = {} /\ abandoned = {}
  /\ saved = job

(* Somebody starts to work on j.                                           *)
Begin(j) ==
  /\ ~Final(j)
  /\ busy' = busy \cup {j}
  /\ UNCHANGED <<job, abandoned, saved>>

(* Somebody who works on j makes it pending, whatever it was, and goes on. *)
Reopen(j) ==
  /\ j \in busy
  /\ job' = [job EXCEPT ![j] = Pending]
  /\ abandoned' = abandoned \ {j}
  /\ UNCHANGED <<busy, saved>>

(* j gets an outcome, its own; others may or may not still work on it.     *)
Settle(j) ==
  /\ j \in busy
  /\ job'[j] \in Proofs[j] \cup {GivenUp, TryAgain}
  /\ job' = [job EXCEPT ![j] = job'[j]]
  /\ abandoned' = abandoned \ {j}
  /\ busy' \in {busy, busy \ {j}}
  /\ UNCHANGED saved

(* Somebody gives j up and leaves it as it is.                             *)
Abandon(j) ==
  /\ j \in busy
  /\ abandoned' = abandoned \cup {j}
  /\ busy' \in {busy, busy \ {j}}
  /\ UNCHANGED <<job, saved>>

(* The last party leaves j, which is not pending.                          *)
Leave(j) ==
  /\ j \in busy
  /\ job[j] # Pending \/ j \in abandoned
  /\ busy' = busy \ {j}
  /\ UNCHANGED <<job, abandoned, saved>>

Save == saved' = job /\ UNCHANGED <<job, busy, abandoned>>

Crash == job' = saved /\ busy' = {} /\ abandoned' = {} /\ UNCHANGED saved

Next ==
  \/ \E j \in Jobs : Begin(j) \/ Reopen(j) \/ Settle(j) \/ Abandon(j) \/ Leave(j)
  \/ Save \/ Crash

Spec == Init /\ [][Next]_lifecycle
=============================================================================
