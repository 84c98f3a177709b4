SPECIFICATION Spec
CONSTANTS
  Keys = {k1}
  Logs = {l1, l2}
  Senders = {p1, p2}
  Hooks = {h1, h2}
  None = None
  MaxRetries = 2
  StatusEvents = {"delivered", "bounced"}
  OtherEvents = {}
  MaxFaults = 1
INVARIANTS NeverDoubleSend StatusHasSource NoEventDropped
SYMMETRY Symmetry
CHECK_DEADLOCK FALSE
