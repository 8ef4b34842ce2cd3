SPECIFICATION Spec
CONSTANTS
  Keys = {k1}
  Handlers = {h1}
  Tasks = {t1, t2}
  Provers = {"local", "network"}
  LocalErrors = {}
  RemoteErrors = {"retryable"}
  Faults = {}
  Stop = Stop
  MaxCalls = 2
INVARIANT RemoteOnlyWhenConfigured
