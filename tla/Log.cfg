SPECIFICATION Spec
CONSTANTS
  Devs = {d1}
  Threads = {t1, t2}
  Blocks = {b1, b2}
  Values = {0, 1}
  InitValue = 0
  LogSize = 4
  DiskLog = 4
  MaxOpBlocks = 2
  None = None
 
PROPERTIES AtomicCommits WaiterReleased
