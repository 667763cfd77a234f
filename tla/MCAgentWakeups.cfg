SPECIFICATION LiveSpec
CONSTANTS
  Foips = {f1}
  Macs = {m1, m2}
  NoMac = NoMac
  Links = {m1, m2}
  Absent = Absent
  None = None
  MaxLag = 2
INVARIANTS
  NoWakeupLost
  WakeupInv
PROPERTIES
  AgentCatchesUp
