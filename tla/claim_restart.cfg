SPECIFICATION FairSpec
CONSTANTS
  Keys = {k1}
  Handlers = {h1}
  Tasks = {t1, t2}
  Provers = {"local"}
  LocalErrors = {}
  RemoteErrors = {}
  Faults = {}
  Stop = Stop
  MaxCalls = 2
PROPERTY ProcessComesBack
