SPECIFICATION Spec
CONSTANTS
  Keys = {k1}
  Handlers = {h1, h2}
  Tasks = {t1, t2}
  Provers = {"network", "local"}
  LocalErrors = {"fatal", "retryable"}
  RemoteErrors = {"fatal", "retryable"}
  Faults = {"prover", "store"}
  Stop = Stop
  MaxCalls = 3
SYMMETRY Symmetry
PROPERTIES ImplementsLifecycle FinishedJobsDrawNoWork
