SPECIFICATION VfsSpec
CHECK_DEADLOCK FALSE
CONSTANTS
  VfsThreads = {t1, t2}
  Inos = {1, 2, 3}
  Objs = {1, 2, 3, 4}
  Names = {"a", "b"}
  VfsMixes <- VfsWork
  QuietUnmount = TRUE
 
PROPERTIES UnlinkedIsFreed
