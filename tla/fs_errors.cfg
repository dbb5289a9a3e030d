SPECIFICATION LiveSpec
CONSTANTS
  t1 = t1  t2 = t2  fs_store = fs_store  persister = persister
  k1 = k1  k2 = k2  v1 = v1  v2 = v2  d1 = d1
  Threads = {t1, t2}
  Stores = {fs_store}
  Keys = {k1}
  Dirs = {d1}
  DirOf <- OneDir
  PresentDirs = {d1}
  Values = {v1}
  Missing = Missing  Empty = Empty  Torn = Torn
  NoReq = NoReq  NoRsp = NoRsp
  LockIds = {1, 2, 3, 4}
  NoLock = NoLock
  GC_LOCK_INTERVAL = 2
  Inodes = {1, 2, 3, 4, 5, 6}
  MaxWrites = 1
  MaxCrashes = 1
  IoErrors = TRUE
PROPERTIES ImplementsKVStore EveryCallReturns
