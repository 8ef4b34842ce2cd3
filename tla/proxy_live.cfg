SPECIFICATION ProxyFairSpec
CONSTANTS
  k1 = k1  k2 = k2  n1 = n1  n2 = n2  ours = ours  theirs = theirs  now = now  old = old
  Keys = {k1}
  Handlers = {h1, h2}
  Tasks = {t1, t2}
  Provers = {"network", "local", "unset"}
  LocalErrors = {}
  RemoteErrors = {"retryable"}
  Faults = {"prover"}
  Stop = Stop
  MaxCalls = 2
  Namespaces = {n1, n2}
  Methods = {"blob.Submit"}
  Submissions <- OneBlob
  Secrets = {ours, theirs}
  Programs = {now, old}
  Configs <- Ours
  Elsewhere <- Nobody
  Outages = {"node"}
  Clear = Clear
  Noise = Noise
  MaxRequests = 2
PROPERTIES RequestsAreAnswered QueuedJobsSettle
