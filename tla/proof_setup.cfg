SPECIFICATION FairSpec
CONSTANTS
  Provers = {t1, t2}
  Requests = {r1}
  Prewarm = prewarm
  Programs = {p1, p2}
  Faults = {"client", "generate", "store"}
  NoOne = NoOne
INVARIANTS TypeOK OneInitializer SetupIsOfTheProgram FilledCellIsStored
PROPERTY EveryoneIsAnswered
