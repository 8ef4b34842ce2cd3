SPECIFICATION ProxySpec
CONSTANTS
  k1 = k1  k2 = k2  n1 = n1  n2 = n2  ours = ours  theirs = theirs  now = now  old = old
  Keys = {k1}
  Handlers = {h1}
  Tasks = {t1, t2}
  Provers = {"local"}
  LocalErrors = {}
  RemoteErrors = {}
  Faults = {}
  Stop = Stop
  MaxCalls = 6
  Namespaces = {n1, n2}
  Methods = {"blob.Submit", "blob.Get", "other", "no token", "no json", "bad params"}
  Submissions <- OneJob
  Secrets = {ours, theirs}
  Programs = {now, old}
  Configs <- Rotated
  Elsewhere <- Nobody
  Outages = {}
  Clear = Clear
  Noise = Noise
  MaxRequests = 3
INVARIANT DecryptedIsPlaintext
