SPECIFICATION SharedSpec
CONSTANTS
  CPUs = {c1, c2, c3}
  None = None
  MaxKey = 7
  HlEntries = 3
  BucketCnt = 2
  HashKeys = {1, 2, 3}
  HlReaders = {h1}
  PipeWriters = {w1}
  PipeReaders = {r1}
  PIPESIZE = 2
  CounterMod = 4
  BufSize = 2
  MaxBytes = 3
  NDevices = 3
  DevThreads = {d1, d2}
  MaxMajors = 3
  NHarts = 2
  MaxDescs = 3
  INPUT_BUF_SIZE = 2
  UART_TX_BUF_SIZE = 2
  UART_FIFO_SIZE = 2
  CounterMax = 4
  KBufSize = 2
  MaxTyped = 4
  ReadCount = 3
  TtyReaders = {1}
  TtyWriters = {1, 2}
  MaxWritten = 5
  Chans = {1, 2}
  ChanThreads = {1, 2, 3}
  SizeMod = 8
  BIO_MAX_SIZE = 4
  BIO_MAX_VECS = 2
  PageUnits = 4
  DiskUnits = 6
  CellMod = 16
  MaxTokens = 12
  FDT_MAX_DEPTH = 4
  MAX_MEM_REGIONS = 3
  MaxVirtio = 1
  PCIE_REG_MAX = 2
  N_VIRTIO = 2
  HZ = 2
  PageBytes = 2
  RX_RING_SIZE = 3
  TX_RING_SIZE = 2
  NMbufs = 8
  NetReaders = {n1}
  MaxFrames = 3
  MaxSends = 2
  Tasks = {k1, k2}
  FirstTask = k1
  Tables = {1, 2}
  FileObjs = {1, 2}
  NOFILE = 2
  FileWork <- FileCalls
  MaxPuts = 2
  AnyFault = FALSE
  NsProcs = {p1, p2}
  InitProc = p1
  Sbs = {1, 2, 3}
  MaxChroots = 1
  UserIsQuiet = TRUE
  Ops = {o1, o2}
  NInodes = 2
  NDataBlocks = 6
  NDirect = 1
  NIndirect = 2
  BatchSize = 2
  OpsPerCommit = 2
  DirNames = {1, 2}
  NewCalls = {"create", "mknod", "symlink"}
  WriteAt = {3}
  SizesCut = {0, 2}
  TmpInos = {1, 2, 3}
  TmpNames = {1, 2}
  EmbLen = 2
  PageLen = 3
  MaxSize = 6
  Bytes = {0, 1}
  TruncateTo = {0, 3, 6}
  DNames = {1, 2, 3}
  NBuckets = 2
  DSlots = 3
  CookieStays = TRUE
  Openers = {f1, f2}
  FileBlocks = 4
  Bpp = 2
  DataValues = {1, 2}
  LoneWriter = TRUE
  LoneTruncate = TRUE
  Sparse = FALSE
  CopyFails = FALSE
INVARIANTS RwExclusion WordMatchesHolders ContainersHold PipeHolds  InterruptsHold PacketsArrive TtyHolds FilesHold NamesResolve  
CHECK_DEADLOCK FALSE
