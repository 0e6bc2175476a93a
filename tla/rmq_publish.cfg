SPECIFICATION Spec
CONSTANTS
  Conns = {k1, k2}
  Jobs = {j1, j2}
  Queues = {}
  Kinds = {"publish", "call"}
  Attempts = 1
  None = None
SYMMETRY Sym
INVARIANT TypeOK
INVARIANT ConfirmedIsStored
INVARIANT NoForgottenCall
INVARIANT ChannelsOfOneConnection
CHECK_DEADLOCK FALSE
