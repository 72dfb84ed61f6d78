\* Every number of replicas, limits reached and not, and the defaults.
SPECIFICATION FairSpec
CONSTANTS
  Peers = {p, q, r}
  Chunks = {a, b}
  TTL = 2
  Desireds = {0, 1, 3}
  Limits = {0, 1}
INVARIANTS
  TypeOK
  AnswersAgree
PROPERTIES
  ImplementsDirectory
  SilentForgotten
