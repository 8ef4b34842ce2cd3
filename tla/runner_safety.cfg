SPECIFICATION Spec
CONSTANTS
  Keys = {k1, k2}
  Handlers = {h1, h2}
  Tasks = {t1, t2}
  Provers = {"network", "local", "unknown", "unset"}
  LocalErrors = {"fatal", "retryable"}
  RemoteErrors = {"fatal", "retryable"}
  Faults = {"prover", "store"}
  Stop = Stop
  MaxCalls = 2
SYMMETRY Symmetry
INVARIANTS TypeOK QueuedJobsAreDriven AnswersAreTrue RecordsAreGenuine
PROPERTIES JobsAreNeverForgotten DurableJobsStay
