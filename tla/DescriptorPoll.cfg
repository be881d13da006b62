CONSTANTS
  Fds = {f1, f2, f3}
  SELECT_FD_NUM = 2
  PipeSize = 2
  None = None
CHECK_DEADLOCK FALSE
SPECIFICATION Spec
INVARIANTS
  NoLostChange
  CallsRegistered
PROPERTIES
  ReadyServed
  StopEnds
