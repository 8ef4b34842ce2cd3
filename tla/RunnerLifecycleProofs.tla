----------------------- MODULE RunnerLifecycleProofs ------------------------
(***************************************************************************)
(* Proofs that the engine implements JobLifecycle and that finished jobs   *)
(* draw no work, for any number of jobs, requests, prove tasks, failures   *)
(* and restarts, in all interleavings.                                     *)
(***************************************************************************)
EXTENDS RunnerLifecycle, PdaRunnerProofs, FiniteSetTheorems, FunctionTheorems

-----------------------------------------------------------------------------
(* Who is on the way for a job, given a channel c, calls hs and tasks ts.  *)

On(c, k) == \E i \in 1 .. Len(c) : c[i] = k

InFlight(c, hs, ts, k) ==
  On(c, k) \/ (\E h \in Handlers : Calls(k, hs[h])) \/ (\E t \in Tasks : Drives(k, ts[t]))

LEMMA BusyIsInFlight ==
  ASSUME NEW k
  PROVE  /\ Busy(k) <=> InFlight(chan, handler, task, k)
         /\ Busy(k)' <=> InFlight(chan', handler', task', k)
BY DEF Busy, Messages, Callers, ProveTasks, InFlight, On

LEMMA OnAppend ==
  ASSUME NEW S, NEW c \in Seq(S), NEW x \in S, NEW k
  PROVE  On(Append(c, x), k) <=> On(c, k) \/ x = k
<1> DEFINE d == Append(c, x)
<1>1. /\ Len(d) = Len(c) + 1 /\ d[Len(c) + 1] = x /\ Len(c) \in Nat
      /\ \A i \in 1 .. Len(c) : d[i] = c[i]
  OBVIOUS
<1>2. \A i \in 1 .. Len(d) : i = Len(c) + 1 \/ i \in 1 .. Len(c)
  BY <1>1
<1> HIDE DEF d
<1>3. On(d, k) <=> On(c, k) \/ x = k
  BY <1>1, <1>2 DEF On
<1> QED BY <1>3 DEF d

LEMMA OnTail ==
  ASSUME NEW S, NEW c \in Seq(S), c # << >>, NEW k
  PROVE  On(c, k) <=> On(Tail(c), k) \/ Head(c) = k
<1> DEFINE d == Tail(c)
<1>1. /\ Len(d) = Len(c) - 1 /\ Len(c) \in Nat \ {0} /\ Head(c) = c[1]
      /\ \A i \in 1 .. Len(d) : i + 1 \in 1 .. Len(c) /\ d[i] = c[i + 1]
  OBVIOUS
<1> HIDE DEF d
<1>2. /\ 1 \in 1 .. Len(c)
      /\ \A i \in 1 .. Len(c) : i = 1 \/ (i - 1 \in 1 .. Len(d) /\ d[i - 1] = c[i])
  BY <1>1
<1>3. On(c, k) <=> On(d, k) \/ Head(c) = k
  BY <1>1, <1>2 DEF On
<1> QED BY <1>3 DEF d

-----------------------------------------------------------------------------
(* Steps of the life cycle.                                                *)

Now  == {j \in Keys : InFlight(chan, handler, task, j)}
Then == {j \in Keys : InFlight(chan', handler', task', j)}

LEMMA BusySets ==
  /\ {j \in Keys : Busy(j)} = Now
  /\ {j \in Keys : Busy(j)'} = Then
BY BusyIsInFlight DEF Now, Then

(* No other job than k is touched.                                         *)
OnlyJob(k) ==
  /\ \A j \in Keys \ {k} : /\ queue'[j] = queue[j] /\ finished'[j] = finished[j]
                           /\ InFlight(chan', handler', task', j) <=>
                                InFlight(chan, handler, task, j)
  /\ disk' = disk

LEMMA OneJobMoves ==
  ASSUME NEW k \in Keys, OnlyJob(k)
  PROVE  /\ Whereabouts(queue', finished') =
              [Whereabouts(queue, finished) EXCEPT ![k] = Whereabouts(queue', finished')[k]]
         /\ k \in Now /\ k \in Then => Then = Now
         /\ k \notin Now /\ k \notin Then => Then = Now
         /\ k \in Now /\ k \notin Then => Then = Now \ {k}
         /\ k \notin Now /\ k \in Then => Then = Now \cup {k}
<1>1. Whereabouts(queue', finished') =
        [Whereabouts(queue, finished) EXCEPT ![k] = Whereabouts(queue', finished')[k]]
  BY DEF OnlyJob, Whereabouts
<1>2. \A j \in Keys \ {k} : j \in Now <=> j \in Then
  BY DEF OnlyJob, Now, Then
<1>3. Now \subseteq Keys /\ Then \subseteq Keys
  BY DEF Now, Then
<1> QED BY <1>1, <1>2, <1>3

(* Outcomes are not taken for other states of a job.                       *)
LEMMA StateFacts ==
  /\ None # Pending /\ \A s \in FinishedStatus : s # Pending /\ s # None
  /\ \A k \in Keys : ProofsOf[k] \subseteq ProofStatus
  /\ Failed(None) # None /\ Failed(RemoteZkProofRequesting) # None
BY FinishedStatusFacts DEF None, Pending, ProofsOf, ProofStatus, Failed, Nonces

(* Somebody joins or leaves, and no tree changes. Nobody joins a job with  *)
(* a final outcome, and nobody leaves a pending job alone.                 *)
LEMMA JoinOrLeave ==
  ASSUME TypeOK, NEW k \in Keys, OnlyJob(k), UNCHANGED <<queue, finished, stranded>>,
         k \in Then => k \in Now \/ finished[k] \notin ProofsOf[k] \cup {Failed(None)},
         queue[k] # None => k \in Then \/ k \in stranded
  PROVE  Lifecycle!Next \/ UNCHANGED Lifecycle!lifecycle
<1>1. CASE Then = Now
  BY <1>1, BusySets DEF Lifecycle!lifecycle, OnlyJob
<1>2. CASE k \notin Now /\ k \in Then
  <2>1. Then = Now \cup {k} /\ finished[k] \notin ProofsOf[k] \cup {Failed(None)}
    BY <1>2, OneJobMoves
  <2>2. Whereabouts(queue, finished)[k] \notin ProofsOf[k] \cup {Failed(None)}
    BY <2>1, StateFacts DEF Whereabouts, ProofsOf, None, Pending, Failed
  <2>3. Lifecycle!Begin(k)
    BY <2>1, <2>2, BusySets DEF Lifecycle!Begin, Lifecycle!Final, OnlyJob
  <2> QED BY <2>3 DEF Lifecycle!Next
<1>3. CASE k \in Now /\ k \notin Then
  <2>1. Then = Now \ {k} /\ (queue[k] = None \/ k \in stranded)
    BY <1>3, OneJobMoves
  <2>2. Whereabouts(queue, finished)[k] # Pending \/ k \in stranded
    BY <2>1, StateFacts DEF Whereabouts, TypeOK
  <2>3. Lifecycle!Leave(k)
    BY <1>3, <2>1, <2>2, BusySets DEF Lifecycle!Leave, OnlyJob
  <2> QED BY <2>3 DEF Lifecycle!Next
<1> QED BY <1>1, <1>2, <1>3, OneJobMoves

(* A job gets an outcome, possibly the one it has.                         *)
LEMMA Settles ==
  ASSUME NEW k \in Keys, OnlyJob(k), k \in Now, stranded' = stranded \ {k},
         finished'[k] \in ProofsOf[k] \cup FailureStatus
  PROVE  Lifecycle!Next
<1>1. finished'[k] # None
  BY StateFacts DEF FailureStatus, ProofsOf, None
<1>2. Whereabouts(queue', finished')[k] = finished'[k]
  BY <1>1 DEF Whereabouts
<1>3. finished'[k] \in ProofsOf[k] \cup {Failed(None), Failed(RemoteZkProofRequesting)}
  BY DEF FailureStatus
<1>4. Then \in {Now, Now \ {k}}
  BY OneJobMoves
<1>5. Whereabouts(queue', finished')
        = [Whereabouts(queue, finished) EXCEPT ![k] = Whereabouts(queue', finished')[k]]
  BY OneJobMoves
<1>6. Lifecycle!Settle(k)
  BY <1>2, <1>3, <1>4, <1>5, BusySets DEF Lifecycle!Settle, OnlyJob
<1> QED BY <1>6 DEF Lifecycle!Next

(* A job becomes pending.                                                  *)
LEMMA Reopens ==
  ASSUME NEW k \in Keys, OnlyJob(k), k \in Now, k \in Then, stranded' = stranded \ {k},
         finished'[k] = None, queue'[k] # None
  PROVE  Lifecycle!Next
<1>1. Whereabouts(queue', finished')[k] = Pending
  BY DEF Whereabouts
<1>2. Whereabouts(queue', finished') = [Whereabouts(queue, finished) EXCEPT ![k] = Pending]
  BY <1>1, OneJobMoves
<1>3. Lifecycle!Reopen(k)
  BY <1>2, OneJobMoves, BusySets DEF Lifecycle!Reopen, OnlyJob
<1> QED BY <1>3 DEF Lifecycle!Next

(* A job is given up.                                                      *)
LEMMA Abandons ==
  ASSUME NEW k \in Keys, OnlyJob(k), k \in Now, stranded' = stranded \cup {k},
         UNCHANGED <<queue, finished>>
  PROVE  Lifecycle!Next
<1>1. Then \in {Now, Now \ {k}}
  BY OneJobMoves
<1>2. Lifecycle!Abandon(k)
  BY <1>1, BusySets DEF Lifecycle!Abandon, OnlyJob
<1> QED BY <1>2 DEF Lifecycle!Next

-----------------------------------------------------------------------------
(* Every step of the engine is a step of the life cycle, or none.          *)

(* Whoever is left alone with a queued job is on its way or stranded it.   *)
LEMMA DrivenIsInFlight ==
  ASSUME QueuedJobsAreDriven', Running', NEW k \in Keys, queue'[k] # None
  PROVE  k \in Then \/ k \in stranded'
<1>1. Driven(k)' \/ k \in stranded'
  BY DEF QueuedJobsAreDriven
<1>2. Driven(k)' => InFlight(chan', handler', task', k)
  BY DEF Driven, InChan, InFlight, On, Calls
<1> QED BY <1>1, <1>2 DEF Then

(* A stored outcome is one the job may be settled with.                    *)
LEMMA OwnProof ==
  ASSUME NEW k \in Keys, NEW s \in FinishedStatus, s.tag = "ZkProofFinished" => s.key = k
  PROVE  s \in ProofsOf[k] \cup FailureStatus
<1>1. s \in FailureStatus \/ s \in ProofStatus
  BY DEF FinishedStatus
<1>2. ASSUME s \in ProofStatus
      PROVE  s \in ProofsOf[k]
  <2>1. s.tag = "ZkProofFinished" /\ s.key = k
    BY <1>2 DEF ProofStatus
  <2> QED BY <1>2, <2>1 DEF ProofStatus, ProofsOf
<1> QED BY <1>1, <1>2

LEMMA OwnOutcome ==
  ASSUME NEW k \in Keys
  PROVE  /\ TypeOK /\ RecordsAreGenuine /\ finished[k] # None =>
              finished[k] \in ProofsOf[k] \cup FailureStatus
         /\ TypeOK' /\ RecordsAreGenuine' /\ finished'[k] # None =>
              finished'[k] \in ProofsOf[k] \cup FailureStatus
BY OwnProof DEF TypeOK, RecordsAreGenuine, Genuine

(* get_verifiable_encryption.                                              *)
LEMMA CallIsLifecycleStep ==
  ASSUME TypeOK, RecordsAreGenuine, QueuedJobsAreDriven', NEW h \in Handlers, HandlerStep(h)
  PROVE  Lifecycle!Next \/ UNCHANGED Lifecycle!lifecycle
<1> DEFINE k == handler[h].key
<1>1. Running /\ Running' /\ handler[h].pc # "idle" /\ task' = task /\ disk' = disk
  BY DEF HandlerStep, ReturnFinished, RetryFailed, SendRetry, NotFinished, ReturnPending, NewJob,
     NewJobPanics, InsertJob, SendJob, StoreError, Return, HandlerOnly, Running
<1>2. k \in Keys /\ handler[h] \in CallStates /\ chan \in Seq(Keys \cup {Stop})
  BY <1>1, CallFacts DEF TypeOK
<1>3. ASSUME NEW a, Goto(h, a), a.pc # "idle" => a.key = k,
             chan' = chan \/ chan' = Append(chan, k),
             \A j \in Keys \ {k} : queue'[j] = queue[j] /\ finished'[j] = finished[j]
      PROVE  /\ OnlyJob(k) /\ handler'[h] = a
             /\ Calls(k, handler[h]) => k \in Now
             /\ Calls(k, a) => k \in Then
  <2>1. handler'[h] = a /\ \A g \in Handlers \ {h} : handler'[g] = handler[g]
    BY <1>3 DEF Goto, TypeOK
  <2>2. ASSUME NEW j \in Keys \ {k}
        PROVE  InFlight(chan', handler', task', j) <=> InFlight(chan, handler, task, j)
    <3>1. On(chan', j) <=> On(chan, j)
      <4>1. CASE chan' = chan
        BY <4>1
      <4>2. CASE chan' = Append(chan, k)
        <5>1. On(Append(chan, k), j) <=> On(chan, j) \/ k = j
          BY <1>2, OnAppend
        <5> QED BY <4>2, <5>1
      <4> QED BY <1>3, <4>1, <4>2
    <3>2. \A g \in Handlers : Calls(j, handler'[g]) <=> Calls(j, handler[g])
      BY <1>3, <2>1 DEF Calls
    <3> QED BY <1>1, <3>1, <3>2 DEF InFlight
  <2> QED BY <1>1, <1>2, <1>3, <2>1, <2>2 DEF OnlyJob, InFlight, Now, Then
<1>4. ASSUME NEW a, Goto(h, a), a.pc # "idle" => a.key = k, chan' = chan,
             UNCHANGED <<queue, finished, stranded>>,
             Calls(k, a) => Calls(k, handler[h]) \/ finished[k] \notin ProofsOf[k] \cup {Failed(None)}
      PROVE  Lifecycle!Next \/ UNCHANGED Lifecycle!lifecycle
  <2>1. OnlyJob(k) /\ handler'[h] = a /\ (Calls(k, handler[h]) => k \in Now)
    BY <1>3, <1>4
  <2>2. k \in Then => k \in Now \/ Calls(k, a)
    <3>1. \A g \in Handlers \ {h} : handler'[g] = handler[g]
      BY <1>4 DEF Goto, TypeOK
    <3> QED BY <1>1, <1>2, <1>4, <2>1, <3>1 DEF Now, Then, InFlight
  <2>3. queue[k] # None => k \in Then \/ k \in stranded
    BY <1>1, <1>2, <1>4, DrivenIsInFlight
  <2> QED BY <1>2, <1>4, <2>1, <2>2, <2>3, JoinOrLeave
<1>5. ASSUME NEW x, Reply(h, x), chan' = chan, UNCHANGED <<queue, finished, stranded>>
      PROVE  Lifecycle!Next \/ UNCHANGED Lifecycle!lifecycle
  <2> DEFINE a == [pc |-> "reply", key |-> k, answer |-> x]
  <2>1. Goto(h, a) /\ a.pc = "reply" /\ a.key = k
    BY <1>5 DEF Reply
  <2> HIDE DEF a
  <2>2. ~Calls(k, a)
    BY <2>1 DEF Calls
  <2> QED BY <1>4, <1>5, <2>1, <2>2
<1>6. CASE ReturnFinished(h) \/ ReturnPending(h) \/ StoreError(h)
  BY <1>5, <1>6 DEF ReturnFinished, ReturnPending, StoreError, HandlerOnly, trees
<1>7. CASE RetryFailed(h)
  <2> DEFINE a == [pc |-> "retry", key |-> k, status |-> finished[k].retry]
  <2>1. /\ Goto(h, a) /\ chan' = chan /\ UNCHANGED <<queue, finished, stranded>>
        /\ Retryable(finished[k])
    BY <1>7 DEF RetryFailed, HandlerOnly, trees
  <2>2. a.pc = "retry" /\ a.key = k
    OBVIOUS
  <2>3. finished[k] \notin ProofsOf[k] \cup {Failed(None)}
    <3>1. Failed(None).retry = None /\ \A s \in ProofsOf[k] : s.tag = "ZkProofFinished"
      BY <1>2 DEF Failed, ProofsOf
    <3> QED BY <2>1, <3>1 DEF Retryable
  <2> HIDE DEF a
  <2> QED BY <1>4, <2>1, <2>2, <2>3
<1>8. CASE NotFinished(h)
  <2> DEFINE a == [pc |-> "queue", key |-> k]
  <2>1. Goto(h, a) /\ chan' = chan /\ UNCHANGED <<queue, finished, stranded>> /\ finished[k] = None
    BY <1>8 DEF NotFinished, HandlerOnly, trees
  <2>2. a.pc = "queue" /\ a.key = k
    OBVIOUS
  <2>3. finished[k] \notin ProofsOf[k] \cup {Failed(None)}
    BY <1>2, <2>1, StateFacts DEF ProofsOf, None
  <2> HIDE DEF a
  <2> QED BY <1>4, <2>1, <2>2, <2>3
<1>9. CASE NewJob(h)
  <2> DEFINE a == [pc |-> "insert", key |-> k]
  <2>1. /\ chan' = chan /\ UNCHANGED <<queue, finished, stranded>>
        /\ Reply(h, Error) \/ Goto(h, a)
        /\ Calls(k, handler[h])
    BY <1>9 DEF NewJob, HandlerOnly, trees, Calls
  <2>2. a.pc = "insert" /\ a.key = k
    OBVIOUS
  <2> HIDE DEF a
  <2> QED BY <1>4, <1>5, <2>1, <2>2
<1>10. CASE NewJobPanics(h) \/ Return(h)
  <2>1. Goto(h, Idle) /\ chan' = chan /\ UNCHANGED <<queue, finished, stranded>>
    BY <1>10 DEF NewJobPanics, Return, HandlerOnly, trees
  <2>2. Idle.pc = "idle" /\ ~Calls(k, Idle)
    BY DEF Idle, Calls
  <2> QED BY <1>4, <2>1, <2>2
<1>11. CASE SendRetry(h)
  <2> DEFINE a == [pc |-> "send", key |-> k, answer |-> Error]
  <2>1. /\ handler[h].pc = "retry" /\ Goto(h, a) /\ chan' = chan
        /\ send_job_with_new_status(k, handler[h].status)
    BY <1>11 DEF SendRetry, HandlerOnly
  <2>2. a.pc = "send" /\ a.key = k /\ Calls(k, a) /\ Calls(k, handler[h])
    BY <2>1 DEF Calls
  <2> HIDE DEF a
  <2>3. handler[h].status # None
    BY <1>2, <2>1, CallFacts, QueueStatusFacts
  <2>4. /\ \A j \in Keys \ {k} : queue'[j] = queue[j] /\ finished'[j] = finished[j]
        /\ queue'[k] # None /\ finished'[k] = None /\ stranded' = stranded \ {k}
    BY <1>2, <2>1, <2>3 DEF send_job_with_new_status, TypeOK
  <2>5. OnlyJob(k) /\ k \in Now /\ k \in Then
    BY <1>3, <2>1, <2>2, <2>4
  <2> QED BY <1>2, <2>4, <2>5, Reopens
<1>12. CASE InsertJob(h)
  <2> DEFINE a == [pc |-> "send", key |-> k, answer |-> Pending]
  <2>1. /\ handler[h].pc = "insert" /\ Goto(h, a) /\ chan' = chan /\ finished' = finished
        /\ queue' = [queue EXCEPT ![k] = InitialStatus] /\ stranded' = stranded \ {k}
    BY <1>12 DEF InsertJob, HandlerOnly
  <2>2. a.pc = "send" /\ a.key = k /\ Calls(k, a) /\ Calls(k, handler[h])
    BY <2>1 DEF Calls
  <2> HIDE DEF a
  <2>3. queue'[k] # None /\ \A j \in Keys \ {k} : queue'[j] = queue[j]
    BY <1>2, <2>1, QueueStatusFacts DEF InitialStatus, TypeOK
  <2>4. OnlyJob(k) /\ k \in Now /\ k \in Then
    BY <1>3, <2>1, <2>2, <2>3
  <2>5. CASE finished[k] = None
    BY <1>2, <2>1, <2>3, <2>4, <2>5, Reopens
  <2>6. CASE finished[k] # None
    <3>1. finished'[k] \in ProofsOf[k] \cup FailureStatus
      BY <1>2, <2>1, <2>6, OwnOutcome
    <3> QED BY <1>2, <2>1, <2>4, <3>1, Settles
  <2> QED BY <2>5, <2>6
<1>13. CASE SendJob(h)
  <2>1. /\ handler[h].pc = "send" /\ chan' = Append(chan, k)
        /\ UNCHANGED <<queue, finished, stranded>>
        /\ Reply(h, handler[h].answer)
    BY <1>13 DEF SendJob, trees
  <2>2. On(chan', k) /\ Calls(k, handler[h])
    BY <1>2, <2>1, OnAppend DEF Calls
  <2>3. k \in Then /\ k \in Now
    BY <1>2, <2>2 DEF Now, Then, InFlight
  <2>4. OnlyJob(k)
    BY <1>3, <2>1 DEF Reply
  <2> QED BY <1>2, <2>1, <2>3, <2>4, JoinOrLeave
<1> QED BY <1>6, <1>7, <1>8, <1>9, <1>10, <1>11, <1>12, <1>13 DEF HandlerStep

(* prove.                                                                  *)
LEMMA ProveIsLifecycleStep ==
  ASSUME TypeOK, RecordsAreGenuine, TypeOK', RecordsAreGenuine', QueuedJobsAreDriven',
         NEW t \in Tasks, ProveStep(t)
  PROVE  Lifecycle!Next \/ UNCHANGED Lifecycle!lifecycle
<1> DEFINE k == task[t].key
<1>1. Running /\ Running' /\ task[t].pc # "idle" /\ handler' = handler /\ disk' = disk
  BY DEF ProveStep, StartProve, RequestProof, RecordRequest, SendBack, FetchProof, ProveLocal,
     handle_zk_client_error, AbandonProve, Working, TaskOnly, Running
<1>2. k \in Keys /\ Drives(k, task[t]) /\ chan \in Seq(Keys \cup {Stop}) /\ k \in Now
  <2>1. k \in Keys /\ Drives(k, task[t]) /\ chan \in Seq(Keys \cup {Stop})
    BY <1>1, TaskFacts DEF TypeOK, Drives
  <2> QED BY <2>1 DEF Now, InFlight
<1>3. ASSUME NEW a, SetTask(t, a), a.pc # "idle" => a.key = k,
             chan' = chan \/ chan' = Append(chan, k),
             \A j \in Keys \ {k} : queue'[j] = queue[j] /\ finished'[j] = finished[j]
      PROVE  OnlyJob(k) /\ (Drives(k, a) => k \in Then)
  <2>1. task'[t] = a /\ \A u \in Tasks \ {t} : task'[u] = task[u]
    BY <1>3 DEF SetTask, TypeOK
  <2>2. ASSUME NEW j \in Keys \ {k}
        PROVE  InFlight(chan', handler', task', j) <=> InFlight(chan, handler, task, j)
    <3>1. On(chan', j) <=> On(chan, j)
      <4>1. CASE chan' = chan
        BY <4>1
      <4>2. CASE chan' = Append(chan, k)
        <5>1. On(Append(chan, k), j) <=> On(chan, j) \/ k = j
          BY <1>2, OnAppend
        <5> QED BY <4>2, <5>1
      <4> QED BY <1>3, <4>1, <4>2
    <3>2. \A u \in Tasks : Drives(j, task'[u]) <=> Drives(j, task[u])
      BY <1>3, <2>1 DEF Drives
    <3> QED BY <1>1, <3>1, <3>2 DEF InFlight
  <2> QED BY <1>1, <1>2, <1>3, <2>1, <2>2 DEF OnlyJob, InFlight, Then
<1>4. ASSUME NEW a, SetTask(t, a), a.pc # "idle" => a.key = k,
             chan' = chan \/ chan' = Append(chan, k), UNCHANGED <<queue, finished, stranded>>
      PROVE  Lifecycle!Next \/ UNCHANGED Lifecycle!lifecycle
  <2>1. OnlyJob(k)
    BY <1>3, <1>4
  <2>2. queue[k] # None => k \in Then \/ k \in stranded
    BY <1>1, <1>2, <1>4, DrivenIsInFlight
  <2> QED BY <1>2, <1>4, <2>1, <2>2, JoinOrLeave
<1>5. Idle.pc = "idle"
  BY DEF Idle
<1>6. CASE StartProve(t)
  <2>1. PICK a : SetTask(t, a) /\ (a.pc # "idle" => a.key = k)
    <3>1. CASE queue[k] \in QueueStatus
      BY <1>6, <3>1 DEF StartProve
    <3>2. CASE queue[k] \notin QueueStatus
      BY <1>5, <1>6, <3>2 DEF StartProve
    <3> QED BY <3>1, <3>2
  <2>2. chan' = chan /\ UNCHANGED <<queue, finished, stranded>>
    BY <1>6 DEF StartProve, trees
  <2> QED BY <1>4, <2>1, <2>2
<1>7. CASE RequestProof(t)
  <2>1. PICK a : SetTask(t, a) /\ a.key = k
    BY <1>7 DEF RequestProof
  <2>2. chan' = chan /\ UNCHANGED <<queue, finished, stranded>>
    BY <1>7 DEF RequestProof, trees
  <2> QED BY <1>4, <2>1, <2>2
<1>8. CASE SendBack(t)
  <2>1. SetTask(t, Idle) /\ chan' = Append(chan, k) /\ UNCHANGED <<queue, finished, stranded>>
    BY <1>8 DEF SendBack, trees
  <2> QED BY <1>4, <1>5, <2>1
<1>9. CASE RecordRequest(t)
  <2> DEFINE a == [pc |-> "send", key |-> k]
  <2>1. /\ task[t].pc = "resend" /\ SetTask(t, a) /\ chan' = chan
        /\ send_job_with_new_status(k, task[t].status)
    BY <1>9 DEF RecordRequest
  <2>2. a.key = k /\ Drives(k, a)
    BY DEF Drives
  <2> HIDE DEF a
  <2>3. task[t].status # None
    BY <2>1, TaskFacts, QueueStatusFacts DEF TypeOK
  <2>4. /\ \A j \in Keys \ {k} : queue'[j] = queue[j] /\ finished'[j] = finished[j]
        /\ queue'[k] # None /\ finished'[k] = None /\ stranded' = stranded \ {k}
    BY <1>2, <2>1, <2>3 DEF send_job_with_new_status, TypeOK
  <2>5. OnlyJob(k) /\ k \in Then
    BY <1>3, <2>1, <2>2, <2>4
  <2> QED BY <1>2, <2>4, <2>5, Reopens
<1>10. CASE AbandonProve(t)
  <2>1. /\ SetTask(t, Idle) /\ chan' = chan /\ UNCHANGED <<queue, finished>>
        /\ stranded' = stranded \cup {k}
    BY <1>10 DEF AbandonProve, trees
  <2>2. OnlyJob(k)
    BY <1>3, <1>5, <2>1
  <2> QED BY <1>2, <2>1, <2>2, Abandons
<1>11. ASSUME NEW s, s # None, finalize_job(k, s), SetTask(t, Idle), chan' = chan
       PROVE  Lifecycle!Next
  <2>1. /\ \A j \in Keys \ {k} : queue'[j] = queue[j] /\ finished'[j] = finished[j]
        /\ finished'[k] # None /\ stranded' = stranded \ {k}
    BY <1>2, <1>11 DEF finalize_job, TypeOK
  <2>2. OnlyJob(k)
    BY <1>3, <1>5, <1>11, <2>1
  <2>3. finished'[k] \in ProofsOf[k] \cup FailureStatus
    BY <1>2, <2>1, OwnOutcome
  <2> QED BY <1>2, <2>1, <2>2, <2>3, Settles
<1>12. CASE FetchProof(t) \/ ProveLocal(t) \/ \E class \in ErrorClasses : handle_zk_client_error(t, class)
  <2>1. /\ \A j, n : ZkProofFinished(j, n) # None
        /\ \A class : FailureOf(class) # None
    BY DEF ZkProofFinished, FailureOf, Failed, None
  <2> QED BY <1>11, <1>12, <2>1 DEF FetchProof, ProveLocal, handle_zk_client_error
<1> QED BY <1>6, <1>7, <1>8, <1>9, <1>10, <1>12 DEF ProveStep

(* The worker, clients and the process.                                    *)
LEMMA OtherIsLifecycleStep ==
  ASSUME TypeOK, QueuedJobsAreDriven',
         \/ \E h \in Handlers, k \in Keys : Call(h, k)
         \/ WorkerStep \/ Flush \/ Shutdown \/ Crash \/ Start \/ StartPanics
  PROVE  Lifecycle!Next \/ UNCHANGED Lifecycle!lifecycle
<1>1. ASSUME Then = Now, UNCHANGED <<queue, finished, stranded, disk>>
      PROVE  UNCHANGED Lifecycle!lifecycle
  BY <1>1, BusySets DEF Lifecycle!lifecycle
<1>2. chan \in Seq(Keys \cup {Stop}) /\ Stop \notin Keys
  BY ConstantsAssumption DEF TypeOK
<1>3. ASSUME NEW h \in Handlers, NEW k \in Keys, Call(h, k)
      PROVE  UNCHANGED Lifecycle!lifecycle
  <2> DEFINE a == [pc |-> "finished", key |-> k]
  <2>1. /\ Goto(h, a) /\ handler[h] = Idle
        /\ UNCHANGED <<queue, finished, stranded, disk, chan, task>>
    BY <1>3 DEF Call, trees
  <2>2. handler'[h] = a /\ \A g \in Handlers \ {h} : handler'[g] = handler[g]
    BY <2>1 DEF Goto, TypeOK
  <2>3. \A j \in Keys : \A g \in Handlers : Calls(j, handler'[g]) <=> Calls(j, handler[g])
    BY <2>1, <2>2 DEF Calls, Idle
  <2>4. Then = Now
    BY <2>1, <2>3 DEF Now, Then, InFlight
  <2> QED BY <1>1, <2>1, <2>4
<1>4. ASSUME NEW t \in Tasks, SpawnProve(t)
      PROVE  UNCHANGED Lifecycle!lifecycle
  <2> DEFINE a == [pc |-> "start", key |-> Head(chan)]
  <2>1. /\ SetTask(t, a) /\ task[t] = Idle /\ chan # << >> /\ chan' = Tail(chan)
        /\ UNCHANGED <<queue, finished, stranded, disk, handler>>
    BY <1>4 DEF SpawnProve, TaskOnly, trees
  <2>2. task'[t] = a /\ \A u \in Tasks \ {t} : task'[u] = task[u]
    BY <2>1 DEF SetTask, TypeOK
  <2>3. \A j \in Keys : On(chan, j) <=> On(chan', j) \/ Head(chan) = j
    BY <1>2, <2>1, OnTail
  <2>4. \A j \in Keys : /\ \A u \in Tasks \ {t} : Drives(j, task'[u]) <=> Drives(j, task[u])
                        /\ ~Drives(j, task[t]) /\ (Drives(j, task'[t]) <=> Head(chan) = j)
    BY <2>1, <2>2 DEF Drives, Idle
  <2>5. \A j \in Keys : InFlight(chan', handler', task', j) <=> InFlight(chan, handler, task, j)
    BY <2>1, <2>3, <2>4 DEF InFlight
  <2> QED BY <1>1, <2>1, <2>5 DEF Now, Then
<1>5. CASE WorkerBreak \/ Shutdown
  <2>1. UNCHANGED <<queue, finished, stranded, disk, handler, task>>
    BY <1>5 DEF WorkerBreak, Shutdown, trees
  <2>2. ASSUME NEW j \in Keys
        PROVE  On(chan', j) <=> On(chan, j)
    <3>1. CASE WorkerBreak
      <4>1. chan # << >> /\ Head(chan) = Stop /\ chan' = Tail(chan)
        BY <3>1 DEF WorkerBreak
      <4> QED BY <1>2, <4>1, OnTail
    <3>2. CASE Shutdown
      <4>1. chan' = Append(chan, Stop)
        BY <3>2 DEF Shutdown
      <4>2. On(Append(chan, Stop), j) <=> On(chan, j) \/ Stop = j
        BY <1>2, OnAppend
      <4> QED BY <1>2, <4>1, <4>2
    <3> QED BY <1>5, <3>1, <3>2
  <2>3. Then = Now
    BY <2>1, <2>2 DEF Now, Then, InFlight
  <2> QED BY <1>1, <2>1, <2>3
<1>6. CASE Flush \/ WorkerFlush
  <2>1. /\ UNCHANGED <<queue, finished, stranded, chan, handler, task>>
        /\ disk' = [queue |-> queue, finished |-> finished]
    BY <1>6 DEF Flush, WorkerFlush, trees
  <2>2. disk'.queue = queue /\ disk'.finished = finished /\ Then = Now
    BY <2>1 DEF Now, Then
  <2>3. Lifecycle!Save
    BY <2>1, <2>2, BusySets DEF Lifecycle!Save
  <2> QED BY <2>3 DEF Lifecycle!Next
<1>7. CASE Die
  <2>1. /\ queue' = disk.queue /\ finished' = disk.finished /\ disk' = disk /\ stranded' = {}
        /\ chan' = << >> /\ \A h \in Handlers : handler'[h] = Idle
        /\ \A t \in Tasks : task'[t] = Idle
    BY <1>7 DEF Die
  <2>2. Then = {}
    BY <2>1 DEF Then, InFlight, On, Calls, Drives, Idle
  <2>3. Lifecycle!Crash
    BY <2>1, <2>2, BusySets DEF Lifecycle!Crash
  <2> QED BY <2>3 DEF Lifecycle!Next
<1>8. CASE Start \/ StartPanics
  <2>1. UNCHANGED <<queue, finished, stranded, disk, chan, handler, task>>
    BY <1>8 DEF Start, StartPanics, trees
  <2> QED BY <1>1, <2>1 DEF Now, Then
<1> QED BY <1>3, <1>4, <1>5, <1>6, <1>7, <1>8 DEF WorkerStep, WorkerExit, Crash

(* Whatever the threads of the runtime, provers, signals and crashes do,   *)
(* the engine keeps the promise of JobLifecycle: nobody starts to work on  *)
(* a job with a proof or a permanent failure; such an outcome is replaced  *)
(* only by those who were at work when it was written; the last of them    *)
(* leaves the job settled or known as abandoned; outcomes are the job's    *)
(* own; and a crash returns to one past state of all jobs.                 *)
THEOREM EngineImplementsLifecycle == Spec => ImplementsLifecycle
<1>1. Init => Lifecycle!Init
  <2> SUFFICES ASSUME Init
               PROVE  Lifecycle!Init
    OBVIOUS
  <2>1. Now = {}
    BY DEF Init, Now, InFlight, On, Calls, Drives, Idle
  <2>2. Whereabouts(queue, finished) = [k \in Keys |-> None]
    BY DEF Init, Empty, Whereabouts
  <2>3. disk.queue = queue /\ disk.finished = finished /\ stranded = {}
    BY DEF Init
  <2> QED BY <2>1, <2>2, <2>3, BusySets DEF Lifecycle!Init
<1>2. TypeOK /\ RecordsAreGenuine /\ (TypeOK /\ RecordsAreGenuine /\ QueuedJobsAreDriven)'
        /\ [Next]_vars => [Lifecycle!Next]_(Lifecycle!lifecycle)
  <2>1. ASSUME UNCHANGED vars
        PROVE  UNCHANGED Lifecycle!lifecycle
    <3>1. UNCHANGED <<queue, finished, stranded, disk, chan, handler, task>>
      BY <2>1 DEF vars
    <3>2. Then = Now
      BY <3>1 DEF Now, Then
    <3> QED BY <3>1, <3>2, BusySets DEF Lifecycle!lifecycle
  <2>2. ASSUME TypeOK, RecordsAreGenuine, Next,
               (TypeOK /\ RecordsAreGenuine /\ QueuedJobsAreDriven)'
        PROVE  Lifecycle!Next \/ UNCHANGED Lifecycle!lifecycle
    BY <2>2, CallIsLifecycleStep, ProveIsLifecycleStep, OtherIsLifecycleStep DEF Next
  <2> QED BY <2>1, <2>2
<1> QED BY <1>1, <1>2, TypedAndGenuine, DrivenJobs, PTL
        DEF Spec, ImplementsLifecycle, Lifecycle!Spec

-----------------------------------------------------------------------------
(* How many are on the way for a job.                                      *)

At(c, k)        == {i \in 1 .. Len(c) : c[i] = k}
CallsOf(hs, k)  == {h \in Handlers : Calls(k, hs[h])}
TasksOf(ts, k)  == {t \in Tasks : Drives(k, ts[t])}
Count(c, hs, ts, k) ==
  Cardinality(At(c, k)) + Cardinality(CallsOf(hs, k)) + Cardinality(TasksOf(ts, k))

LEMMA EffortIsCount ==
  ASSUME NEW k
  PROVE  Effort(k) = Count(chan, handler, task, k) /\ Effort(k)' = Count(chan', handler', task', k)
BY DEF Effort, Count, Messages, Callers, ProveTasks, At, CallsOf, TasksOf

LEMMA AtIsFinite ==
  ASSUME NEW S, NEW c \in Seq(S), NEW k
  PROVE  IsFiniteSet(At(c, k)) /\ Cardinality(At(c, k)) \in Nat
<1>1. IsFiniteSet(1 .. Len(c))
  BY FS_Interval
<1>2. At(c, k) \in SUBSET (1 .. Len(c))
  BY DEF At
<1> QED BY <1>1, <1>2, FS_Subset, FS_CardinalityType

LEMMA AtAppend ==
  ASSUME NEW S, NEW c \in Seq(S), NEW x \in S, NEW k
  PROVE  Cardinality(At(Append(c, x), k)) = Cardinality(At(c, k)) + (IF x = k THEN 1 ELSE 0)
<1> DEFINE d == Append(c, x)
<1>1. /\ Len(d) = Len(c) + 1 /\ d[Len(c) + 1] = x /\ Len(c) \in Nat
      /\ \A i \in 1 .. Len(c) : d[i] = c[i]
  OBVIOUS
<1>2. 1 .. Len(d) = (1 .. Len(c)) \cup {Len(c) + 1} /\ Len(c) + 1 \notin 1 .. Len(c)
  BY <1>1
<1> HIDE DEF d
<1>3. CASE x = k
  <2>1. At(d, k) = At(c, k) \cup {Len(c) + 1} /\ Len(c) + 1 \notin At(c, k)
    BY <1>1, <1>2, <1>3 DEF At
  <2> QED BY <1>3, <2>1, AtIsFinite, FS_AddElement DEF d
<1>4. CASE x # k
  <2>1. At(d, k) = At(c, k)
    BY <1>1, <1>2, <1>4 DEF At
  <2> QED BY <1>4, <2>1, AtIsFinite DEF d
<1> QED BY <1>3, <1>4

LEMMA AtTail ==
  ASSUME NEW S, NEW c \in Seq(S), c # << >>, NEW k
  PROVE  Cardinality(At(c, k)) = Cardinality(At(Tail(c), k)) + (IF Head(c) = k THEN 1 ELSE 0)
<1> DEFINE d == Tail(c)
           f == [i \in At(d, k) |-> i + 1]
<1>1. /\ d \in Seq(S) /\ Len(d) = Len(c) - 1 /\ Len(c) \in Nat \ {0} /\ Head(c) = c[1]
      /\ \A i \in 1 .. Len(d) : i + 1 \in 1 .. Len(c) /\ d[i] = c[i + 1]
  OBVIOUS
<1> HIDE DEF d
<1>2. /\ 1 \in 1 .. Len(c)
      /\ \A i \in 1 .. Len(c) : i = 1 \/ (i - 1 \in 1 .. Len(d) /\ d[i - 1] = c[i])
  BY <1>1
<1>3. f \in Bijection(At(d, k), At(c, k) \ {1})
  <2>1. \A i \in At(d, k) : i \in Nat /\ i # 0 /\ i + 1 \in At(c, k) \ {1}
    BY <1>1 DEF At
  <2>2. f \in [At(d, k) -> At(c, k) \ {1}]
    BY <2>1
  <2>3. \A i, j \in At(d, k) : f[i] = f[j] => i = j
    BY <2>1
  <2>4. ASSUME NEW j \in At(c, k) \ {1}
        PROVE  \E i \in At(d, k) : f[i] = j
    <3>1. j - 1 \in At(d, k) /\ f[j - 1] = j
      BY <1>2, <2>4 DEF At
    <3> QED BY <3>1
  <2> QED BY <2>2, <2>3, <2>4, Fun_IsBij
<1>4. Cardinality(At(c, k) \ {1}) = Cardinality(At(d, k))
  <2>1. ExistsBijection(At(d, k), At(c, k) \ {1})
    BY <1>3 DEF ExistsBijection
  <2> QED BY <1>1, <2>1, AtIsFinite, FS_Bijection
<1>5. 1 \in At(c, k) <=> Head(c) = k
  BY <1>1, <1>2 DEF At
<1>6. /\ IsFiniteSet(At(c, k)) /\ Cardinality(At(c, k)) \in Nat
      /\ Cardinality(At(d, k)) \in Nat
  BY <1>1, AtIsFinite
<1>7. Cardinality(At(c, k) \ {1}) = IF 1 \in At(c, k) THEN Cardinality(At(c, k)) - 1
                                                        ELSE Cardinality(At(c, k))
  BY <1>6, FS_RemoveElement
<1>8. Cardinality(At(c, k)) = Cardinality(At(d, k)) + (IF Head(c) = k THEN 1 ELSE 0)
  BY <1>4, <1>5, <1>6, <1>7
<1> QED BY <1>8 DEF d

(* Nobody joins, somebody may leave.                                       *)
LEMMA FewerOrSame ==
  ASSUME NEW S, IsFiniteSet(S), NEW T \in SUBSET S, NEW U \in SUBSET T
  PROVE  /\ IsFiniteSet(T) /\ IsFiniteSet(U) /\ Cardinality(T) \in Nat /\ Cardinality(U) \in Nat
         /\ Cardinality(U) <= Cardinality(T)
         /\ \A x \in T \ U : Cardinality(U) + 1 <= Cardinality(T)
<1>1. IsFiniteSet(T)
  BY FS_Subset
<1>2. IsFiniteSet(U) /\ Cardinality(U) <= Cardinality(T)
  BY <1>1, FS_Subset
<1>3. Cardinality(T) \in Nat /\ Cardinality(U) \in Nat
  BY <1>1, <1>2, FS_CardinalityType
<1>4. ASSUME NEW x \in T \ U
      PROVE  Cardinality(U) + 1 <= Cardinality(T)
  <2>1. Cardinality(U) # Cardinality(T)
    BY <1>1, FS_Subset
  <2> QED BY <1>2, <1>3, <2>1
<1> QED BY <1>1, <1>2, <1>3, <1>4

(* An outcome that is final is neither absent nor worth a retry.           *)
LEMMA FinalFacts ==
  ASSUME NEW k, FinalOutcome(k)
  PROVE  finished[k] # None /\ ~Retryable(finished[k])
<1>1. CASE finished[k] \in ProofStatus
  BY <1>1 DEF ProofStatus, None, Retryable
<1>2. CASE finished[k] = Failed(None)
  BY <1>2 DEF Failed, None, Retryable
<1> QED BY <1>1, <1>2 DEF FinalOutcome

(* No step adds somebody to those who are on the way for a finished job.   *)
LEMMA EffortStep ==
  ASSUME IsFiniteSet(Handlers), IsFiniteSet(Tasks), TypeOK, Next, Running, Running',
         NEW k \in Keys, FinalOutcome(k)
  PROVE  Effort(k)' <= Effort(k)
<1> DEFINE H  == CallsOf(handler, k)
           H2 == CallsOf(handler', k)
           T  == TasksOf(task, k)
           T2 == TasksOf(task', k)
<1>1. /\ chan \in Seq(Keys \cup {Stop}) /\ H \in SUBSET Handlers /\ T \in SUBSET Tasks
      /\ Stop # k
  BY ConstantsAssumption DEF TypeOK, CallsOf, TasksOf
<1>2. /\ IsFiniteSet(H) /\ IsFiniteSet(T) /\ Cardinality(At(chan, k)) \in Nat
      /\ Cardinality(H) \in Nat /\ Cardinality(T) \in Nat
  BY <1>1, AtIsFinite, FewerOrSame
<1> HIDE DEF H, H2, T, T2
<1>3. SUFFICES Cardinality(At(chan', k)) + Cardinality(H2) + Cardinality(T2)
                 <= Cardinality(At(chan, k)) + Cardinality(H) + Cardinality(T)
  BY EffortIsCount DEF Count, H, H2, T, T2
<1>4. ASSUME NEW h \in Handlers, HandlerStep(h)
      PROVE  Cardinality(At(chan', k)) + Cardinality(H2) + Cardinality(T2)
               <= Cardinality(At(chan, k)) + Cardinality(H) + Cardinality(T)
  <2>1. /\ task' = task /\ \E a : Goto(h, a) /\ (a.pc # "idle" => a.key = handler[h].key)
    <3>1. ASSUME NEW x, Reply(h, x)
          PROVE  \E a : Goto(h, a) /\ (a.pc # "idle" => a.key = handler[h].key)
      BY <3>1 DEF Reply
    <3>2. Idle.pc = "idle"
      BY DEF Idle
    <3>3. CASE ReturnFinished(h) \/ ReturnPending(h) \/ StoreError(h) \/ SendJob(h)
      BY <3>1, <3>3 DEF ReturnFinished, ReturnPending, StoreError, SendJob, HandlerOnly
    <3>4. CASE NewJob(h)
      BY <3>1, <3>4 DEF NewJob, HandlerOnly
    <3>5. CASE RetryFailed(h) \/ SendRetry(h) \/ NotFinished(h) \/ InsertJob(h)
      BY <3>5 DEF RetryFailed, SendRetry, NotFinished, InsertJob, HandlerOnly
    <3>6. CASE NewJobPanics(h) \/ Return(h)
      BY <3>2, <3>6 DEF NewJobPanics, Return, HandlerOnly
    <3> QED BY <1>4, <3>3, <3>4, <3>5, <3>6 DEF HandlerStep
  <2>2. PICK a : Goto(h, a) /\ (a.pc # "idle" => a.key = handler[h].key)
    BY <2>1
  <2>3. handler'[h] = a /\ \A g \in Handlers \ {h} : handler'[g] = handler[g]
    BY <2>2 DEF Goto, TypeOK
  <2>4. T2 = T
    BY <2>1 DEF T, T2
  <2>5. Calls(k, a) => Calls(k, handler[h])
    <3>1. CASE handler[h].key # k \/ handler[h].pc = "idle"
      <4>1. handler[h].pc # "idle"
        BY <1>4 DEF HandlerStep, ReturnFinished, RetryFailed, SendRetry, NotFinished,
           ReturnPending, NewJob, NewJobPanics, InsertJob, SendJob, StoreError, Return
      <4> QED BY <2>2, <3>1, <4>1 DEF Calls
    <3>2. CASE handler[h].key = k /\ handler[h].pc = "finished"
      <4>1. ReturnFinished(h) \/ StoreError(h)
        BY <1>4, <3>2, FinalFacts DEF HandlerStep, RetryFailed, SendRetry, NotFinished,
           ReturnPending, NewJob, NewJobPanics, InsertJob, SendJob, Return
      <4>2. \E x : Reply(h, x)
        BY <4>1 DEF ReturnFinished, StoreError
      <4>3. handler'[h].pc = "reply"
        BY <4>2 DEF Reply, Goto, TypeOK
      <4> QED BY <2>3, <4>3 DEF Calls
    <3>3. CASE handler[h].pc = "reply"
      <4>1. Return(h)
        BY <1>4, <3>3 DEF HandlerStep, ReturnFinished, RetryFailed, SendRetry, NotFinished,
           ReturnPending, NewJob, NewJobPanics, InsertJob, SendJob, StoreError
      <4>2. handler'[h] = Idle
        BY <4>1 DEF Return, Goto, TypeOK
      <4> QED BY <2>3, <4>2 DEF Calls, Idle
    <3>4. handler[h].pc \in {"idle", "finished", "queue", "insert", "retry", "send", "reply"}
      BY CallFacts DEF TypeOK
    <3> QED BY <3>1, <3>2, <3>3, <3>4 DEF Calls
  <2>6. H2 \in SUBSET H
    BY <2>3, <2>5 DEF H, H2, CallsOf
  <2>7. /\ Cardinality(H2) \in Nat /\ Cardinality(H2) <= Cardinality(H)
        /\ \A x \in H \ H2 : Cardinality(H2) + 1 <= Cardinality(H)
    BY <1>1, <2>6, FewerOrSame
  <2>8. CASE SendJob(h)
    <3>1. handler[h].pc = "send" /\ chan' = Append(chan, handler[h].key)
      BY <2>8 DEF SendJob
    <3>2. handler[h].key \in Keys
      BY <3>1, CallFacts DEF TypeOK
    <3>3. Cardinality(At(chan', k)) = Cardinality(At(chan, k)) + (IF handler[h].key = k THEN 1 ELSE 0)
      BY <1>1, <3>1, <3>2, AtAppend
    <3>4. handler[h].key = k => h \in H \ H2
      <4>1. handler'[h].pc = "reply"
        BY <2>8 DEF SendJob, Reply, Goto, TypeOK
      <4> QED BY <3>1, <4>1 DEF H, H2, CallsOf, Calls
    <3> QED BY <1>2, <2>4, <2>7, <3>3, <3>4
  <2>9. CASE ~SendJob(h)
    <3>1. chan' = chan
      BY <1>4, <2>9 DEF HandlerStep, ReturnFinished, RetryFailed, SendRetry, NotFinished,
         ReturnPending, NewJob, NewJobPanics, InsertJob, StoreError, Return, HandlerOnly
    <3> QED BY <1>2, <2>4, <2>7, <3>1
  <2> QED BY <2>8, <2>9
<1>5. ASSUME NEW t \in Tasks, ProveStep(t)
      PROVE  Cardinality(At(chan', k)) + Cardinality(H2) + Cardinality(T2)
               <= Cardinality(At(chan, k)) + Cardinality(H) + Cardinality(T)
  <2>1. task[t].pc # "idle" /\ handler' = handler
    BY <1>5 DEF ProveStep, StartProve, RequestProof, RecordRequest, SendBack, FetchProof,
       ProveLocal, handle_zk_client_error, AbandonProve, Working, TaskOnly
  <2>2. task[t].key \in Keys /\ Drives(task[t].key, task[t])
    BY <2>1, TaskFacts DEF TypeOK, Drives
  <2>3. \E a : SetTask(t, a) /\ (a.pc # "idle" => a.key = task[t].key)
    <3>1. Idle.pc = "idle"
      BY DEF Idle
    <3>2. CASE StartProve(t)
      <4>1. CASE queue[task[t].key] \in QueueStatus
        BY <3>2, <4>1 DEF StartProve
      <4>2. CASE queue[task[t].key] \notin QueueStatus
        BY <3>1, <3>2, <4>2 DEF StartProve
      <4> QED BY <4>1, <4>2
    <3>3. CASE RequestProof(t) \/ RecordRequest(t)
      BY <3>3 DEF RequestProof, RecordRequest
    <3>4. CASE \/ SendBack(t) \/ FetchProof(t) \/ ProveLocal(t) \/ AbandonProve(t)
               \/ \E class \in ErrorClasses : handle_zk_client_error(t, class)
      BY <3>1, <3>4 DEF SendBack, FetchProof, ProveLocal, AbandonProve, handle_zk_client_error
    <3> QED BY <1>5, <3>2, <3>3, <3>4 DEF ProveStep
  <2>4. PICK a : SetTask(t, a) /\ (a.pc # "idle" => a.key = task[t].key)
    BY <2>3
  <2>5. task'[t] = a /\ \A u \in Tasks \ {t} : task'[u] = task[u]
    BY <2>4 DEF SetTask, TypeOK
  <2>6. H2 = H
    BY <2>1 DEF H, H2
  <2>7. T2 \in SUBSET T
    BY <2>2, <2>4, <2>5 DEF T, T2, TasksOf, Drives
  <2>8. /\ Cardinality(T2) \in Nat /\ Cardinality(T2) <= Cardinality(T)
        /\ \A x \in T \ T2 : Cardinality(T2) + 1 <= Cardinality(T)
    BY <1>1, <2>7, FewerOrSame
  <2>9. CASE SendBack(t)
    <3>1. chan' = Append(chan, task[t].key)
      BY <2>9 DEF SendBack
    <3>2. Cardinality(At(chan', k)) = Cardinality(At(chan, k)) + (IF task[t].key = k THEN 1 ELSE 0)
      BY <1>1, <2>2, <3>1, AtAppend
    <3>3. task[t].key = k => t \in T \ T2
      <4>1. task'[t] = Idle
        BY <2>9 DEF SendBack, SetTask, TypeOK
      <4> QED BY <2>2, <4>1 DEF T, T2, TasksOf, Drives, Idle
    <3> QED BY <1>2, <2>6, <2>8, <3>2, <3>3
  <2>10. CASE ~SendBack(t)
    <3>1. chan' = chan
      BY <1>5, <2>10 DEF ProveStep, StartProve, RequestProof, RecordRequest, FetchProof,
         ProveLocal, handle_zk_client_error, AbandonProve
    <3> QED BY <1>2, <2>6, <2>8, <3>1
  <2> QED BY <2>9, <2>10
<1>6. ASSUME NEW h \in Handlers, NEW j \in Keys, Call(h, j)
      PROVE  Cardinality(At(chan', k)) + Cardinality(H2) + Cardinality(T2)
               <= Cardinality(At(chan, k)) + Cardinality(H) + Cardinality(T)
  <2>1. /\ chan' = chan /\ task' = task /\ handler[h] = Idle
        /\ handler' = [handler EXCEPT ![h] = [pc |-> "finished", key |-> j]]
    BY <1>6 DEF Call, Goto
  <2>2. H2 = H
    BY <2>1 DEF H, H2, CallsOf, Calls, Idle, TypeOK
  <2>3. T2 = T
    BY <2>1 DEF T, T2
  <2> QED BY <1>2, <2>1, <2>2, <2>3
<1>7. ASSUME NEW t \in Tasks, SpawnProve(t)
      PROVE  Cardinality(At(chan', k)) + Cardinality(H2) + Cardinality(T2)
               <= Cardinality(At(chan, k)) + Cardinality(H) + Cardinality(T)
  <2>1. /\ handler' = handler /\ chan # << >> /\ chan' = Tail(chan) /\ task[t] = Idle
        /\ task' = [task EXCEPT ![t] = [pc |-> "start", key |-> Head(chan)]]
    BY <1>7 DEF SpawnProve, SetTask, TaskOnly
  <2>2. H2 = H
    BY <2>1 DEF H, H2
  <2>3. /\ Cardinality(At(chan, k)) = Cardinality(At(chan', k)) + (IF Head(chan) = k THEN 1 ELSE 0)
        /\ Cardinality(At(chan', k)) \in Nat
    <3>1. chan' \in Seq(Keys \cup {Stop})
      BY <1>1, <2>1
    <3> QED BY <1>1, <2>1, <3>1, AtTail, AtIsFinite
  <2>4. t \notin T /\ T2 = IF Head(chan) = k THEN T \cup {t} ELSE T
    BY <2>1 DEF T, T2, TasksOf, Drives, Idle, TypeOK
  <2>5. Cardinality(T2) = Cardinality(T) + (IF Head(chan) = k THEN 1 ELSE 0)
    <3>1. Cardinality(T \cup {t}) = Cardinality(T) + 1
      BY <1>2, <2>4, FS_AddElement
    <3> QED BY <1>2, <2>4, <3>1
  <2> QED BY <1>2, <2>2, <2>3, <2>5
<1>8. CASE WorkerBreak
  <2>1. /\ handler' = handler /\ task' = task /\ chan # << >> /\ chan' = Tail(chan)
        /\ Head(chan) # k
    BY <1>1, <1>8 DEF WorkerBreak
  <2>2. Cardinality(At(chan, k)) = Cardinality(At(chan', k)) + 0
    BY <1>1, <2>1, AtTail
  <2>3. Cardinality(At(chan', k)) \in Nat
    <3>1. chan' \in Seq(Keys \cup {Stop})
      BY <1>1, <2>1
    <3> QED BY <3>1, AtIsFinite
  <2> QED BY <1>2, <2>1, <2>2, <2>3 DEF H, H2, T, T2
<1>9. CASE Shutdown
  <2>1. handler' = handler /\ task' = task /\ chan' = Append(chan, Stop)
    BY <1>9 DEF Shutdown
  <2>2. Cardinality(At(chan', k)) = Cardinality(At(chan, k)) + 0
    BY <1>1, <2>1, AtAppend
  <2> QED BY <1>2, <2>1, <2>2 DEF H, H2, T, T2
<1>10. CASE Flush \/ WorkerFlush \/ StartPanics \/ Start
  <2>1. handler' = handler /\ task' = task /\ chan' = chan
    BY <1>10 DEF Flush, WorkerFlush, StartPanics, Start
  <2> QED BY <1>2, <2>1 DEF H, H2, T, T2
<1>11. ~Die
  BY DEF Die, Running
<1> QED BY <1>4, <1>5, <1>6, <1>7, <1>8, <1>9, <1>10, <1>11 DEF Next, WorkerStep, WorkerExit, Crash

(* However many requests race for a job, those who work on it after it is  *)
(* finished were on their way before: no step adds a message, a call past  *)
(* its first read or a prove task for a job with a proof or a permanent    *)
(* failure without taking one away.                                        *)
THEOREM NoWorkForFinishedJobs ==
  ASSUME IsFiniteSet(Handlers), IsFiniteSet(Tasks)
  PROVE  Spec => FinishedJobsDrawNoWork
<1>1. TypeOK /\ [Next]_vars =>
        [Running /\ Running' => \A k \in Keys : FinalOutcome(k) => Effort(k)' <= Effort(k)]_vars
  BY EffortStep
<1> QED BY <1>1, TypeCorrect, PTL DEF Spec, FinishedJobsDrawNoWork

-----------------------------------------------------------------------------
(* Outcomes that nobody works on.                                          *)

LEMMA QuietStep ==
  ASSUME TypeOK, Next, Running, Running', NEW k \in Keys, ~Busy(k)
  PROVE  finished'[k] = finished[k]
<1>1. ~InFlight(chan, handler, task, k)
  BY BusyIsInFlight
<1>2. ASSUME NEW h \in Handlers, HandlerStep(h)
      PROVE  finished'[k] = finished[k]
  <2>1. CASE SendRetry(h)
    <3>1. handler[h].pc = "retry" /\ finished' = [finished EXCEPT ![handler[h].key] = None]
      BY <2>1 DEF SendRetry, send_job_with_new_status
    <3>2. handler[h].key # k
      BY <1>1, <3>1 DEF InFlight, Calls
    <3> QED BY <3>1, <3>2 DEF TypeOK
  <2>2. CASE ~SendRetry(h)
    BY <1>2, <2>2 DEF HandlerStep, ReturnFinished, RetryFailed, NotFinished, ReturnPending,
       NewJob, NewJobPanics, InsertJob, SendJob, StoreError, Return, HandlerOnly, trees
  <2> QED BY <2>1, <2>2
<1>3. ASSUME NEW t \in Tasks, ProveStep(t)
      PROVE  finished'[k] = finished[k]
  <2>1. CASE FetchProof(t) \/ ProveLocal(t) \/ RecordRequest(t)
             \/ \E class \in ErrorClasses : handle_zk_client_error(t, class)
    <3>1. /\ task[t].pc \in {"work", "resend"}
          /\ \E s : finished' = [finished EXCEPT ![task[t].key] = s]
      BY <2>1 DEF FetchProof, ProveLocal, RecordRequest, handle_zk_client_error, Working,
         finalize_job, send_job_with_new_status
    <3>2. task[t].key # k
      BY <1>1, <3>1 DEF InFlight, Drives
    <3> QED BY <3>1, <3>2 DEF TypeOK
  <2>2. CASE StartProve(t) \/ RequestProof(t) \/ SendBack(t) \/ AbandonProve(t)
    BY <2>2 DEF StartProve, RequestProof, SendBack, AbandonProve, trees
  <2> QED BY <1>3, <2>1, <2>2 DEF ProveStep
<1>4. CASE \/ \E h \in Handlers, j \in Keys : Call(h, j)
           \/ WorkerStep \/ Flush \/ Shutdown \/ Crash \/ Start \/ StartPanics
  <2>1. ~Die
    BY DEF Die, Running
  <2> QED BY <1>4, <2>1 DEF Call, WorkerStep, SpawnProve, WorkerBreak, WorkerFlush, WorkerExit,
       Crash, Flush, Shutdown, Start, StartPanics, trees
<1> QED BY <1>2, <1>3, <1>4 DEF Next

(* finalize_job is said to remove the job from any further processing, and *)
(* a run shows a stored proof replaced. What is left of the claim: while   *)
(* the process runs, an outcome is not replaced or dropped once nobody who *)
(* read the trees before it was written is still on the way for its job.   *)
THEOREM QuietOutcomesStay ==
  Spec => [][Running /\ Running' => \A k \in Keys : ~Busy(k) => finished'[k] = finished[k]]_vars
<1>1. TypeOK /\ [Next]_vars =>
        [Running /\ Running' => \A k \in Keys : ~Busy(k) => finished'[k] = finished[k]]_vars
  BY QuietStep
<1> QED BY <1>1, TypeCorrect, PTL DEF Spec
=============================================================================
