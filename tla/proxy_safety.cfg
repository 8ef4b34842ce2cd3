SPECIFICATION ProxySpec
CONSTANTS
  k1 = k1  k2 = k2  n1 = n1  n2 = n2  ours = ours  theirs = theirs  now = now  old = old
  Keys = {k1, k2}
  Handlers = {h1, h2}
  Tasks = {t1}
  Provers = {"local"}
  LocalErrors = {}
  RemoteErrors = {}
  Faults = {}
  Stop = Stop
  MaxCalls = 6
  Namespaces = {n1, n2}
  Methods = {"blob.Submit", "blob.GetAll"}
  Submissions <- TwoJobs
  Secrets = {ours, theirs}
  Programs = {now, old}
  Configs <- Ours
  Elsewhere <- Others
  Outages = {"node", "client", "setup", "encode"}
  Clear = Clear
  Noise = Noise
  MaxRequests = 3
SYMMETRY Symmetry
INVARIANTS ProxyTypeOK SubmissionsAreWhole ResponsesAreTrue ReadsAreComplete
