SPECIFICATION Spec
CONSTANTS
  Events = {e1, e2}
  Keys = {k1}
  Receivers = {p1}
  Workers = {w1}
  None = None
  Handled = {k1}
  Levels = {"WARNING"}
  MaxRetries = 2
  Limit = 2
  Base = 1
  Cap = 2
  Window = 1
  MaxFaults = 0
INVARIANT NeverDoubleProcessed
