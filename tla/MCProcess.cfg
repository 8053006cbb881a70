CONSTANTS
  Threads = {i, a, b}
  Groups = {g, h, k}
  initproc = i
  NR_THREAD = 3
  MAXPID = 4
  CloneKinds = {"fork", "vfork", "thread", "kthread"}
  Lookers = {i}
  SigThreads = {m, n}
  main = m
  SigActs = {"SIGINFO", "RESETHAND", "HANDLER", "IGN"}
  SigMasks = {{9, 10}}
  ToThread = {10}
  ToGroup = {10, 18, 19}
  Callers = {n}
  MaxInfo = 1
  MaxFrames = 1
  MaxSends = 2
  Vms = {va, vb}
  VmThreads = {t1, t2}
  Top = 10
  PhysPages = {1, 2, 3, 4, 5, 6}
  StackGap = 1
  StackMax = 2
  MaxMaps = 2
  Workloads <- CallMixes
SPECIFICATION ProcSpec
SYMMETRY Symmetry
CHECK_DEADLOCK FALSE
INVARIANTS SleepersAreTold ThreadsAreCounted   MappingsHold
