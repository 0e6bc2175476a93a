SPECIFICATION FairSpec
CONSTANTS
  Conns = {k1, k2}
  Jobs = {j1}
  Queues = {q1}
  Kinds = {"publish"}
  Attempts = 2
  None = None
PROPERTY LossIsRepaired
PROPERTY ConsumerResumes
CHECK_DEADLOCK FALSE
