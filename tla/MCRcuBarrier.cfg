SPECIFICATION SchedSpec
CONSTANTS
  c1 = c1  c2 = c2  t1 = t1  t2 = t2  idle = idle
  CPUs = {c1, c2}
  Tasks = {t1, t2, idle}
  cpuid <- MCcpuid
  Ops <- MCOps
  Callbacks = {b1}
  Kthreads = {c1}
  Booting = {}
  MaxTime = 3
  MaxWait = 1
  s1 = s1  s2 = s2  s3 = s3
  SchedThreads = {s1, s2, s3}
  NoThread = NoThread
  Idle = Idle
  Harts = {0, 1}
  Priorities = {64, 68}
  Priority <- MCPriority
  Affinity <- MCAffinity
INVARIANTS BarrierWaits
CHECK_DEADLOCK FALSE
