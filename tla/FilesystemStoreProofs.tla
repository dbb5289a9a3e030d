------------------------ MODULE FilesystemStoreProofs ------------------------
(***************************************************************************)
(* Theorems about FilesystemStore for any number of threads, keys and      *)
(* values, any GC_LOCK_INTERVAL, and with crashes and I/O errors: its      *)
(* locks, its temporary files, list, what a power loss leaves, and that it *)
(* implements KVStore.  Types and locks are for any number of stores; what *)
(* is about the contents of files is for one, because two on one directory *)
(* share temporary files.                                                  *)
(***************************************************************************)
EXTENDS FilesystemStore, TLAPS

\* What each thread's program counter says about its local variables.
CallInv ==
    \A t \in Threads :
        /\ pc[t] # "idle" => req[t] \in Requests
        /\ pc[t] \in {"mkdir", "create", "fill", "syncTmp", "rename"} => req[t] \in WriteReqs
        /\ pc[t] \in {"isFile", "unlink"} => req[t] \in RemoveReqs
        /\ pc[t] \in {"create", "fill", "syncTmp", "rename"} => tmp[t] < MaxWrites
        /\ pc[t] \in {"lock", "acquire"} /\ req[t].kind = "write" => tmp[t] < MaxWrites
        /\ pc[t] \in {"fill", "syncTmp", "readAll"} => handle[t] \in Inodes

\* A thread's Arc is the one the table has for the path it works on, guards
\* are held on Arcs only, and only between acquisition and the block's end.
GuardedSteps == {"open", "readAll", "rename", "syncDir", "unlink"}

LockInv ==
    \A t \in Threads :
        /\ ref[t] # NoLock <=> pc[t] = "acquire" \/ pc[t] \in GuardedSteps
        /\ guard[t] # "none" => pc[t] \in GuardedSteps
        /\ ref[t] # NoLock => locks[MyStore(t)][MyKey(t)] = ref[t]

\* The RwLock: a write guard excludes every other guard on the same lock.
RwInv ==
    \A t, u \in Threads :
        t # u /\ ref[t] = ref[u] /\ guard[t] = "write" => guard[u] = "none"

Inv == TypeOK /\ CallInv /\ LockInv /\ RwInv

\* Every request record has a store and a key.
LEMMA RequestFields ==
    ASSUME NEW r \in Requests
    PROVE  r.store \in Stores /\ r.key \in Keys /\ r # NoReq
BY RequestAssumption DEF Requests, ReadReqs, WriteReqs, RemoveReqs, ListReqs, InvalidReqs

\* The files of a key are paths of the file system.
LEMMA PathsOfKeys ==
    ASSUME NEW k \in Keys
    PROVE  /\ KeyPath(k) \in Paths
           /\ \A n \in Nat : n < MaxWrites => TmpPath(k, n) \in Paths
BY StoreAssumption DEF KeyPath, TmpPath, Paths

\* The initial state satisfies the inductive invariant.
LEMMA InitInv == Init => Inv
<1> SUFFICES ASSUME Init PROVE Inv
  OBVIOUS
<1> USE StoreAssumption DEF Init, FsInit, All, NewLocks, NewTmpCounter, NewGcCounter
<1>1. TypeOK
  BY DEF TypeOK, FsTypeOK, LockTypeOK, CallTypeOK, ResultTypeOK, FileValues, NoInode, Steps
<1>2. CallInv
  BY DEF CallInv
<1>3. LockInv /\ RwInv
  BY DEF LockInv, RwInv, GuardedSteps
<1> QED BY <1>1, <1>2, <1>3 DEF Inv

\* Types, and what the program counters say, are preserved by every step.
LEMMA TypeStep == TypeOK /\ CallInv /\ [Next]_vars => TypeOK' /\ CallInv'
<1> SUFFICES ASSUME TypeOK, CallInv, [Next]_vars PROVE TypeOK' /\ CallInv'
  OBVIOUS
<1> USE StoreAssumption DEF fsvars, lockvars, counters, hist, At, Goto, Respond, Unlock, MyKey, MyStore, MyDir
<1>a. ASSUME NEW t \in Threads, pc[t] # "idle"
      PROVE  /\ req[t] \in Requests /\ req[t].store \in Stores /\ req[t].key \in Keys
             /\ KeyPath(req[t].key) \in Paths
  BY <1>a, RequestFields, PathsOfKeys DEF CallInv
<1>b. ASSUME NEW t \in Threads, pc[t] \in {"create", "rename"}
      PROVE  MyTmp(t) \in Paths
  BY <1>a, <1>b, PathsOfKeys DEF CallInv, TypeOK, CallTypeOK, MyTmp
<1>1. ASSUME NEW t \in Threads, Call(t) PROVE TypeOK' /\ CallInv'
  <2>2. FsTypeOK'
    BY <1>1 DEF Call, TypeOK, FsTypeOK
  <2>3. LockTypeOK'
    BY <1>1 DEF Call, TypeOK, LockTypeOK
  <2>4. CallTypeOK'
    BY <1>1 DEF Call, FirstStep, TypeOK, Steps, FsTypeOK, CallTypeOK, CallInv, NoInode, Requests, ReadReqs, WriteReqs, RemoveReqs, ListReqs, InvalidReqs
  <2>5. ResultTypeOK'
    BY <1>1 DEF Call, TypeOK, ResultTypeOK, FileValues
  <2>6. CallInv'
    BY <1>1 DEF Call, FirstStep, TypeOK, FsTypeOK, CallTypeOK, CallInv, NoInode, Requests, ReadReqs, WriteReqs, RemoveReqs, ListReqs, InvalidReqs
  <2> QED BY <2>2, <2>3, <2>4, <2>5, <2>6 DEF TypeOK
<1>2. ASSUME NEW t \in Threads, MakeParent(t) PROVE TypeOK' /\ CallInv'
  <2>1. pc[t] # "idle"
    BY <1>2 DEF MakeParent
  <2>2. FsTypeOK'
    BY <1>2, <1>a, <2>1 DEF MakeParent, MakeDir, TypeOK, FsTypeOK, CallTypeOK, CallInv, NoInode
  <2>3. LockTypeOK'
    BY <1>2 DEF MakeParent, TypeOK, LockTypeOK
  <2>4. CallTypeOK'
    BY <1>2, <1>a, <2>1 DEF MakeParent, MakeDir, TypeOK, Steps, FsTypeOK, CallTypeOK, CallInv, NoInode
  <2>5. ResultTypeOK'
    BY <1>2 DEF MakeParent, TypeOK, ResultTypeOK, FileValues
  <2>6. CallInv'
    BY <1>2, <1>a, <2>1 DEF MakeParent, MakeDir, TypeOK, FsTypeOK, CallTypeOK, CallInv, NoInode
  <2> QED BY <2>2, <2>3, <2>4, <2>5, <2>6 DEF TypeOK
<1>3. ASSUME NEW t \in Threads, CreateTmp(t) PROVE TypeOK' /\ CallInv'
  <2>1. pc[t] # "idle"
    BY <1>3 DEF CreateTmp
  <2>2. FsTypeOK'
    <3>1. PICK i \in Inodes : OpenTruncate(MyTmp(t), i)
      BY <1>3, <1>b DEF CreateTmp, Exists, FreeInodes, TypeOK, FsTypeOK, NoInode
    <3> QED BY <3>1 DEF OpenTruncate, TypeOK, FsTypeOK
  <2>3. LockTypeOK'
    BY <1>3 DEF CreateTmp, TypeOK, LockTypeOK
  <2>4. CallTypeOK'
    BY <1>3, <1>a, <2>1, <1>b DEF CreateTmp, OpenTruncate, Exists, FreeInodes, MyTmp, TypeOK, Steps, FsTypeOK, CallTypeOK, CallInv, NoInode
  <2>5. ResultTypeOK'
    BY <1>3 DEF CreateTmp, TypeOK, ResultTypeOK, FileValues
  <2>6. CallInv'
    BY <1>3, <1>a, <2>1, <1>b DEF CreateTmp, OpenTruncate, Exists, FreeInodes, MyTmp, TypeOK, FsTypeOK, CallTypeOK, CallInv, NoInode
  <2> QED BY <2>2, <2>3, <2>4, <2>5, <2>6 DEF TypeOK
<1>4. ASSUME NEW t \in Threads, FillTmp(t) PROVE TypeOK' /\ CallInv'
  <2>1. pc[t] # "idle"
    BY <1>4 DEF FillTmp
  <2>2. FsTypeOK'
    BY <1>4, <1>a, <2>1 DEF FillTmp, WriteFile, TypeOK, FsTypeOK, CallTypeOK, CallInv, NoInode, Requests, ReadReqs, WriteReqs, RemoveReqs, ListReqs, InvalidReqs
  <2>3. LockTypeOK'
    BY <1>4 DEF FillTmp, TypeOK, LockTypeOK
  <2>4. CallTypeOK'
    BY <1>4, <1>a, <2>1 DEF FillTmp, WriteFile, TypeOK, Steps, FsTypeOK, CallTypeOK, CallInv, NoInode
  <2>5. ResultTypeOK'
    BY <1>4 DEF FillTmp, TypeOK, ResultTypeOK, FileValues
  <2>6. CallInv'
    BY <1>4, <1>a, <2>1 DEF FillTmp, WriteFile, TypeOK, FsTypeOK, CallTypeOK, CallInv, NoInode, Requests, ReadReqs, WriteReqs, RemoveReqs, ListReqs, InvalidReqs
  <2> QED BY <2>2, <2>3, <2>4, <2>5, <2>6 DEF TypeOK
<1>5. ASSUME NEW t \in Threads, SyncTmp(t) PROVE TypeOK' /\ CallInv'
  <2>1. pc[t] # "idle"
    BY <1>5 DEF SyncTmp
  <2>2. FsTypeOK'
    BY <1>5, <1>a, <2>1 DEF SyncTmp, SyncFile, TypeOK, FsTypeOK, CallTypeOK, CallInv, NoInode
  <2>3. LockTypeOK'
    BY <1>5 DEF SyncTmp, TypeOK, LockTypeOK
  <2>4. CallTypeOK'
    BY <1>5, <1>a, <2>1 DEF SyncTmp, SyncFile, TypeOK, Steps, FsTypeOK, CallTypeOK, CallInv, NoInode
  <2>5. ResultTypeOK'
    BY <1>5 DEF SyncTmp, TypeOK, ResultTypeOK, FileValues
  <2>6. CallInv'
    BY <1>5, <1>a, <2>1 DEF SyncTmp, SyncFile, TypeOK, FsTypeOK, CallTypeOK, CallInv, NoInode
  <2> QED BY <2>2, <2>3, <2>4, <2>5, <2>6 DEF TypeOK
<1>6. ASSUME NEW t \in Threads, GetLock(t) PROVE TypeOK' /\ CallInv'
  <2>1. pc[t] # "idle"
    BY <1>6 DEF GetLock
  <2>2. FsTypeOK'
    BY <1>6 DEF GetLock, TypeOK, FsTypeOK
  <2>3. LockTypeOK'
    BY <1>6, <1>a, <2>1 DEF GetLock, FreeLocks, TypeOK, LockTypeOK
  <2>4. CallTypeOK'
    BY <1>6, <1>a, <2>1 DEF GetLock, FreeLocks, TypeOK, Steps, FsTypeOK, CallTypeOK, CallInv, NoInode
  <2>5. ResultTypeOK'
    BY <1>6 DEF GetLock, FreeLocks, TypeOK, ResultTypeOK, FileValues
  <2>6. CallInv'
    BY <1>6, <1>a, <2>1 DEF GetLock, FreeLocks, TypeOK, FsTypeOK, CallTypeOK, CallInv, NoInode
  <2> QED BY <2>2, <2>3, <2>4, <2>5, <2>6 DEF TypeOK
<1>7. ASSUME NEW t \in Threads, Acquire(t) PROVE TypeOK' /\ CallInv'
  <2>1. pc[t] # "idle"
    BY <1>7 DEF Acquire
  <2>2. FsTypeOK'
    BY <1>7 DEF Acquire, TypeOK, FsTypeOK
  <2>3. LockTypeOK'
    BY <1>7 DEF Acquire, TypeOK, LockTypeOK
  <2>4. CallTypeOK'
    BY <1>7, <1>a, <2>1 DEF Acquire, TypeOK, Steps, FsTypeOK, CallTypeOK, CallInv, NoInode
  <2>5. ResultTypeOK'
    BY <1>7 DEF Acquire, TypeOK, ResultTypeOK, FileValues
  <2>6. CallInv'
    BY <1>7, <1>a, <2>1 DEF Acquire, TypeOK, FsTypeOK, CallTypeOK, CallInv, NoInode, Requests, ReadReqs, WriteReqs, RemoveReqs, ListReqs, InvalidReqs
  <2> QED BY <2>2, <2>3, <2>4, <2>5, <2>6 DEF TypeOK
<1>8. ASSUME NEW t \in Threads, OpenKey(t) PROVE TypeOK' /\ CallInv'
  <2>1. pc[t] # "idle"
    BY <1>8 DEF OpenKey
  <2>2. FsTypeOK'
    BY <1>8 DEF OpenKey, TypeOK, FsTypeOK
  <2>3. LockTypeOK'
    BY <1>8 DEF OpenKey, EarlyReturn, TypeOK, LockTypeOK
  <2>4. CallTypeOK'
    BY <1>8, <1>a, <2>1 DEF OpenKey, Exists, EarlyReturn, TypeOK, Steps, FsTypeOK, CallTypeOK, CallInv, NoInode
  <2>5. ResultTypeOK'
    BY <1>8, <1>a, <2>1 DEF OpenKey, EarlyReturn, TypeOK, ResultTypeOK, FileValues
  <2>6. CallInv'
    BY <1>8, <1>a, <2>1 DEF OpenKey, Exists, EarlyReturn, TypeOK, FsTypeOK, CallTypeOK, CallInv, NoInode
  <2> QED BY <2>2, <2>3, <2>4, <2>5, <2>6 DEF TypeOK
<1>9. ASSUME NEW t \in Threads, ReadAll(t) PROVE TypeOK' /\ CallInv'
  <2>1. pc[t] # "idle"
    BY <1>9 DEF ReadAll
  <2>2. FsTypeOK'
    BY <1>9 DEF ReadAll, TypeOK, FsTypeOK
  <2>3. LockTypeOK'
    BY <1>9 DEF ReadAll, TypeOK, LockTypeOK
  <2>4. CallTypeOK'
    BY <1>9, <1>a, <2>1 DEF ReadAll, TypeOK, Steps, FsTypeOK, CallTypeOK, CallInv, NoInode
  <2>5. ResultTypeOK'
    BY <1>9, <1>a, <2>1 DEF ReadAll, TypeOK, ResultTypeOK, FileValues, FsTypeOK, CallInv
  <2>6. CallInv'
    BY <1>9, <1>a, <2>1 DEF ReadAll, TypeOK, FsTypeOK, CallTypeOK, CallInv, NoInode
  <2> QED BY <2>2, <2>3, <2>4, <2>5, <2>6 DEF TypeOK
<1>10. ASSUME NEW t \in Threads, RenameTmp(t) PROVE TypeOK' /\ CallInv'
  <2>1. pc[t] # "idle"
    BY <1>10 DEF RenameTmp
  <2>2. FsTypeOK'
    BY <1>10, <1>a, <2>1, <1>b DEF RenameTmp, RenameFile, Exists, MaySurvive, EarlyReturn, MyTmp, TypeOK, FsTypeOK, CallTypeOK, CallInv, NoInode
  <2>3. LockTypeOK'
    BY <1>10 DEF RenameTmp, EarlyReturn, TypeOK, LockTypeOK
  <2>4. CallTypeOK'
    BY <1>10, <1>a, <2>1, <1>b DEF RenameTmp, RenameFile, Exists, MaySurvive, EarlyReturn, MyTmp, TypeOK, Steps, FsTypeOK, CallTypeOK, CallInv, NoInode
  <2>5. ResultTypeOK'
    <3>1. req[t].val \in FileValues
      BY <1>10 DEF RenameTmp, CallInv, WriteReqs, FileValues
    <3>2. survive' \in [Keys -> SUBSET FileValues]
      BY <1>10, <1>a, <2>1, <3>1 DEF RenameTmp, MaySurvive, TypeOK, ResultTypeOK
    <3>3. rsp' \in [Threads -> FileValues \cup {NoRsp, "applied", "ok", "err"}]
      BY <1>10 DEF RenameTmp, EarlyReturn, TypeOK, ResultTypeOK
    <3> QED BY <1>10, <3>2, <3>3 DEF RenameTmp, TypeOK, ResultTypeOK
  <2>6. CallInv'
    BY <1>10, <1>a, <2>1, <1>b DEF RenameTmp, RenameFile, Exists, MaySurvive, EarlyReturn, MyTmp, TypeOK, FsTypeOK, CallTypeOK, CallInv, NoInode
  <2> QED BY <2>2, <2>3, <2>4, <2>5, <2>6 DEF TypeOK
<1>11. ASSUME NEW t \in Threads, SyncParent(t) PROVE TypeOK' /\ CallInv'
  <2>1. pc[t] # "idle"
    BY <1>11 DEF SyncParent
  <2>2. FsTypeOK'
    BY <1>11, <1>a, <2>1 DEF SyncParent, SyncDirectory, ValueOf, Exists, TypeOK, FsTypeOK, CallTypeOK, CallInv, NoInode
  <2>3. LockTypeOK'
    BY <1>11 DEF SyncParent, TypeOK, LockTypeOK
  <2>4. CallTypeOK'
    BY <1>11, <1>a, <2>1 DEF SyncParent, SyncDirectory, ValueOf, Exists, TypeOK, Steps, FsTypeOK, CallTypeOK, CallInv, NoInode
  <2>5. ResultTypeOK'
    <3>1. ValueOf(req[t].key) \in FileValues
      BY <1>a, <2>1 DEF ValueOf, Exists, TypeOK, FsTypeOK, FileValues, NoInode
    <3> QED BY <1>11, <1>a, <2>1, <3>1 DEF SyncParent, TypeOK, ResultTypeOK
  <2>6. CallInv'
    BY <1>11, <1>a, <2>1 DEF SyncParent, SyncDirectory, ValueOf, Exists, TypeOK, FsTypeOK, CallTypeOK, CallInv, NoInode
  <2> QED BY <2>2, <2>3, <2>4, <2>5, <2>6 DEF TypeOK
<1>12. ASSUME NEW t \in Threads, IsFile(t) PROVE TypeOK' /\ CallInv'
  <2>1. pc[t] # "idle"
    BY <1>12 DEF IsFile
  <2>2. FsTypeOK'
    BY <1>12 DEF IsFile, TypeOK, FsTypeOK
  <2>3. LockTypeOK'
    BY <1>12 DEF IsFile, EarlyReturn, TypeOK, LockTypeOK
  <2>4. CallTypeOK'
    BY <1>12, <1>a, <2>1 DEF IsFile, EarlyReturn, TypeOK, Steps, FsTypeOK, CallTypeOK, CallInv, NoInode
  <2>5. ResultTypeOK'
    BY <1>12 DEF IsFile, EarlyReturn, TypeOK, ResultTypeOK, FileValues
  <2>6. CallInv'
    BY <1>12, <1>a, <2>1 DEF IsFile, EarlyReturn, TypeOK, FsTypeOK, CallTypeOK, CallInv, NoInode, Requests, ReadReqs, WriteReqs, RemoveReqs, ListReqs, InvalidReqs
  <2> QED BY <2>2, <2>3, <2>4, <2>5, <2>6 DEF TypeOK
<1>13. ASSUME NEW t \in Threads, UnlinkKey(t) PROVE TypeOK' /\ CallInv'
  <2>1. pc[t] # "idle"
    BY <1>13 DEF UnlinkKey
  <2>2. FsTypeOK'
    BY <1>13, <1>a, <2>1 DEF UnlinkKey, UnlinkFile, Exists, MaySurvive, EarlyReturn, TypeOK, FsTypeOK, CallTypeOK, CallInv, NoInode
  <2>3. LockTypeOK'
    BY <1>13 DEF UnlinkKey, EarlyReturn, TypeOK, LockTypeOK
  <2>4. CallTypeOK'
    BY <1>13, <1>a, <2>1 DEF UnlinkKey, UnlinkFile, Exists, MaySurvive, EarlyReturn, TypeOK, Steps, FsTypeOK, CallTypeOK, CallInv, NoInode
  <2>5. ResultTypeOK'
    <3>1. survive' \in [Keys -> SUBSET FileValues]
      BY <1>13, <1>a, <2>1 DEF UnlinkKey, MaySurvive, TypeOK, ResultTypeOK, FileValues
    <3>2. rsp' \in [Threads -> FileValues \cup {NoRsp, "applied", "ok", "err"}]
      BY <1>13 DEF UnlinkKey, EarlyReturn, TypeOK, ResultTypeOK
    <3>3. raced' \in [Threads -> BOOLEAN]
      BY Zenon, <1>13 DEF UnlinkKey, TypeOK, ResultTypeOK
    <3> QED BY <1>13, <3>1, <3>2, <3>3 DEF UnlinkKey, TypeOK, ResultTypeOK
  <2>6. CallInv'
    BY <1>13, <1>a, <2>1 DEF UnlinkKey, UnlinkFile, Exists, MaySurvive, EarlyReturn, TypeOK, FsTypeOK, CallTypeOK, CallInv, NoInode
  <2> QED BY <2>2, <2>3, <2>4, <2>5, <2>6 DEF TypeOK
<1>14. ASSUME NEW t \in Threads, ReadDir(t) PROVE TypeOK' /\ CallInv'
  <2>1. pc[t] # "idle"
    BY <1>14 DEF ReadDir
  <2>2. FsTypeOK'
    BY <1>14 DEF ReadDir, TypeOK, FsTypeOK
  <2>3. LockTypeOK'
    BY <1>14 DEF ReadDir, TypeOK, LockTypeOK
  <2>4. CallTypeOK'
    BY <1>14, <1>a, <2>1 DEF ReadDir, TypeOK, Steps, FsTypeOK, CallTypeOK, CallInv, NoInode
  <2>5. ResultTypeOK'
    BY <1>14 DEF ReadDir, TypeOK, ResultTypeOK, FileValues
  <2>6. CallInv'
    BY <1>14, <1>a, <2>1 DEF ReadDir, TypeOK, FsTypeOK, CallTypeOK, CallInv, NoInode
  <2> QED BY <2>2, <2>3, <2>4, <2>5, <2>6 DEF TypeOK
<1>15. ASSUME NEW t \in Threads, VisitEntry(t) PROVE TypeOK' /\ CallInv'
  <2>1. pc[t] # "idle"
    BY <1>15 DEF VisitEntry
  <2>2. FsTypeOK'
    BY <1>15 DEF VisitEntry, TypeOK, FsTypeOK
  <2>3. LockTypeOK'
    BY <1>15 DEF VisitEntry, TypeOK, LockTypeOK
  <2>4. CallTypeOK'
    BY <1>15, <1>a, <2>1 DEF VisitEntry, TypeOK, Steps, FsTypeOK, CallTypeOK, CallInv, NoInode
  <2>5. ResultTypeOK'
    BY <1>15 DEF VisitEntry, TypeOK, ResultTypeOK, FileValues
  <2>6. CallInv'
    BY <1>15, <1>a, <2>1 DEF VisitEntry, TypeOK, FsTypeOK, CallTypeOK, CallInv, NoInode
  <2> QED BY <2>2, <2>3, <2>4, <2>5, <2>6 DEF TypeOK
<1>16. ASSUME NEW t \in Threads, ListDone(t) PROVE TypeOK' /\ CallInv'
  <2>1. pc[t] # "idle"
    BY <1>16 DEF ListDone
  <2>2. FsTypeOK'
    BY <1>16 DEF ListDone, TypeOK, FsTypeOK
  <2>3. LockTypeOK'
    BY <1>16 DEF ListDone, TypeOK, LockTypeOK
  <2>4. CallTypeOK'
    BY <1>16, <1>a, <2>1 DEF ListDone, TypeOK, Steps, FsTypeOK, CallTypeOK, CallInv, NoInode
  <2>5. ResultTypeOK'
    BY <1>16 DEF ListDone, TypeOK, ResultTypeOK, FileValues
  <2>6. CallInv'
    BY <1>16, <1>a, <2>1 DEF ListDone, TypeOK, FsTypeOK, CallTypeOK, CallInv, NoInode
  <2> QED BY <2>2, <2>3, <2>4, <2>5, <2>6 DEF TypeOK
<1>17. ASSUME NEW t \in Threads, GcTick(t) PROVE TypeOK' /\ CallInv'
  <2>1. pc[t] # "idle"
    BY <1>17 DEF GcTick
  <2>2. FsTypeOK'
    BY <1>17 DEF GcTick, TypeOK, FsTypeOK
  <2>3. LockTypeOK'
    BY <1>17, <1>a, <2>1 DEF GcTick, TypeOK, LockTypeOK
  <2>4. CallTypeOK'
    BY <1>17, <1>a, <2>1 DEF GcTick, TypeOK, Steps, FsTypeOK, CallTypeOK, CallInv, NoInode
  <2>5. ResultTypeOK'
    BY <1>17 DEF GcTick, TypeOK, ResultTypeOK, FileValues
  <2>6. CallInv'
    BY <1>17, <1>a, <2>1 DEF GcTick, TypeOK, FsTypeOK, CallTypeOK, CallInv, NoInode
  <2> QED BY <2>2, <2>3, <2>4, <2>5, <2>6 DEF TypeOK
<1>18. ASSUME NEW t \in Threads, GcSweep(t) PROVE TypeOK' /\ CallInv'
  <2>1. pc[t] # "idle"
    BY <1>18 DEF GcSweep
  <2>2. FsTypeOK'
    BY <1>18 DEF GcSweep, TypeOK, FsTypeOK
  <2>3. LockTypeOK'
    BY <1>18, <1>a, <2>1 DEF GcSweep, TypeOK, LockTypeOK
  <2>4. CallTypeOK'
    BY <1>18, <1>a, <2>1 DEF GcSweep, TypeOK, Steps, FsTypeOK, CallTypeOK, CallInv, NoInode
  <2>5. ResultTypeOK'
    BY <1>18 DEF GcSweep, TypeOK, ResultTypeOK, FileValues
  <2>6. CallInv'
    BY <1>18, <1>a, <2>1 DEF GcSweep, TypeOK, FsTypeOK, CallTypeOK, CallInv, NoInode
  <2> QED BY <2>2, <2>3, <2>4, <2>5, <2>6 DEF TypeOK
<1>19. ASSUME NEW t \in Threads, IoError(t) PROVE TypeOK' /\ CallInv'
  <2>1. pc[t] # "idle"
    BY <1>19 DEF IoError
  <2>2. FsTypeOK'
    BY <1>19 DEF IoError, TypeOK, FsTypeOK
  <2>3. LockTypeOK'
    BY <1>19 DEF IoError, EarlyReturn, TypeOK, LockTypeOK
  <2>4. CallTypeOK'
    BY <1>19, <1>a, <2>1 DEF IoError, EarlyReturn, TypeOK, Steps, FsTypeOK, CallTypeOK, CallInv, NoInode
  <2>5. ResultTypeOK'
    BY <1>19 DEF IoError, EarlyReturn, TypeOK, ResultTypeOK, FileValues
  <2>6. CallInv'
    BY <1>19, <1>a, <2>1 DEF IoError, EarlyReturn, TypeOK, FsTypeOK, CallTypeOK, CallInv, NoInode
  <2> QED BY <2>2, <2>3, <2>4, <2>5, <2>6 DEF TypeOK
<1>20. ASSUME NEW t \in Threads, Return(t) PROVE TypeOK' /\ CallInv'
  <2>1. pc[t] # "idle"
    BY <1>20 DEF Return
  <2>2. FsTypeOK'
    BY <1>20 DEF Return, TypeOK, FsTypeOK
  <2>3. LockTypeOK'
    BY <1>20 DEF Return, TypeOK, LockTypeOK
  <2>4. CallTypeOK'
    BY <1>20, <1>a, <2>1 DEF Return, TypeOK, Steps, FsTypeOK, CallTypeOK, CallInv, NoInode
  <2>5. ResultTypeOK'
    BY <1>20 DEF Return, TypeOK, ResultTypeOK, FileValues
  <2>6. CallInv'
    BY <1>20, <1>a, <2>1 DEF Return, TypeOK, FsTypeOK, CallTypeOK, CallInv, NoInode
  <2> QED BY <2>2, <2>3, <2>4, <2>5, <2>6 DEF TypeOK
<1>21. CASE ProcessCrash
  BY <1>21 DEF ProcessCrash, NewProcess, All, NewLocks, NewTmpCounter, NewGcCounter, TypeOK, FsTypeOK, LockTypeOK, CallTypeOK, ResultTypeOK, FileValues, NoInode, CallInv, Steps
<1>22. CASE PowerLoss
  <2>1. FsTypeOK'
    BY <1>22 DEF PowerLoss, LosePower, Surviving, TypeOK, FsTypeOK, NoInode
  <2>2. \A k \in Keys : ValueOf(k)' \in FileValues
    BY <2>1, PathsOfKeys DEF FsTypeOK, ValueOf, Exists, FileValues, NoInode
  <2>3. ResultTypeOK'
    BY <1>22, <2>2 DEF PowerLoss, NewProcess, All, TypeOK, ResultTypeOK
  <2>4. LockTypeOK' /\ CallTypeOK' /\ CallInv'
    BY <1>22 DEF PowerLoss, NewProcess, All, NewLocks, NewTmpCounter, NewGcCounter, LockTypeOK, CallTypeOK, CallInv, NoInode, Steps
  <2> QED BY <2>1, <2>3, <2>4 DEF TypeOK
<1>23. CASE KernelWriteback
  <2>1. FsTypeOK'
    <3>1. CASE WritebackEntries
      BY <3>1 DEF WritebackEntries, SyncDirectory, TypeOK, FsTypeOK
    <3>2. CASE WritebackFile
      BY <3>2 DEF WritebackFile, SyncFile, TypeOK, FsTypeOK
    <3>3. CASE WritebackDir
      BY <3>3 DEF WritebackDir, TypeOK, FsTypeOK
    <3> QED BY <1>23, <3>1, <3>2, <3>3 DEF KernelWriteback, Writeback
  <2>2. LockTypeOK' /\ CallTypeOK' /\ ResultTypeOK' /\ CallInv'
    BY <1>23 DEF KernelWriteback, TypeOK, LockTypeOK, CallTypeOK, ResultTypeOK, CallInv
  <2> QED BY <2>1, <2>2 DEF TypeOK
<1>25. ASSUME NEW t \in Threads, Refuse(t) PROVE TypeOK' /\ CallInv'
  <2>1. pc[t] # "idle"
    BY <1>25 DEF Refuse
  <2>2. FsTypeOK'
    BY <1>25 DEF Refuse, TypeOK, FsTypeOK
  <2>3. LockTypeOK'
    BY <1>25 DEF Refuse, EarlyReturn, TypeOK, LockTypeOK
  <2>4. CallTypeOK'
    BY <1>25 DEF Refuse, EarlyReturn, TypeOK, Steps, CallTypeOK
  <2>5. ResultTypeOK'
    BY <1>25 DEF Refuse, EarlyReturn, TypeOK, ResultTypeOK, FileValues
  <2>6. CallInv'
    BY <1>25, <1>a, <2>1 DEF Refuse, EarlyReturn, TypeOK, CallTypeOK, CallInv, NoInode
  <2> QED BY <2>2, <2>3, <2>4, <2>5, <2>6 DEF TypeOK
<1>24. CASE UNCHANGED vars
  BY <1>24 DEF vars, TypeOK, FsTypeOK, LockTypeOK, CallTypeOK, ResultTypeOK, CallInv
<1> QED BY <1>1, <1>2, <1>3, <1>4, <1>5, <1>6, <1>7, <1>8, <1>9, <1>10, <1>11, <1>12, <1>13, <1>14, <1>15, <1>16, <1>17, <1>18, <1>19, <1>20, <1>21, <1>22, <1>23, <1>24, <1>25 DEF Next, Step

\* Locking is preserved by every step.  The step that matters is GcSweep: it
\* drops only entries no thread holds an Arc of, so a thread that comes later
\* finds the lock its predecessors hold.
LEMMA LockStep == Inv /\ [Next]_vars => LockInv' /\ RwInv'
<1> SUFFICES ASSUME Inv, [Next]_vars PROVE LockInv' /\ RwInv'
  OBVIOUS
<1> USE DEF GuardedSteps, fsvars, lockvars, counters, hist, At, Goto, Respond, Unlock, EarlyReturn, MyKey, MyStore
<1>a. ASSUME NEW t \in Threads, pc[t] # "idle"
      PROVE  req[t].store \in Stores /\ req[t].key \in Keys
  BY <1>a, RequestFields DEF Inv, CallInv
<1>b. LockTypeOK /\ CallTypeOK /\ LockInv /\ RwInv
  BY DEF Inv, TypeOK
<1>1. ASSUME NEW t \in Threads, Call(t) PROVE LockInv' /\ RwInv'
  <2>1. PICK r \in Requests : req' = [req EXCEPT ![t] = r] /\ pc' = [pc EXCEPT ![t] = FirstStep(r.kind)]
    BY <1>1 DEF Call
  <2>2. FirstStep(r.kind) \notin GuardedSteps \cup {"acquire"}
    BY DEF FirstStep, Requests, ReadReqs, WriteReqs, RemoveReqs, ListReqs, InvalidReqs
  <2>3. ref[t] = NoLock /\ guard[t] = "none"
    BY <1>1, <1>b DEF Call, LockInv
  <2> QED BY <1>1, <1>b, <2>1, <2>2, <2>3 DEF Call, LockInv, RwInv, LockTypeOK, CallTypeOK
<1>2. ASSUME NEW t \in Threads, GetLock(t) PROVE LockInv' /\ RwInv'
  <2>1. guard[t] = "none" /\ req[t].store \in Stores /\ req[t].key \in Keys
    BY <1>2, <1>a, <1>b DEF GetLock, LockInv
  <2>2. PICK l \in LockIds :
          /\ locks[req[t].store][req[t].key] # NoLock => l = locks[req[t].store][req[t].key]
          /\ locks' = [locks EXCEPT ![req[t].store][req[t].key] = l]
          /\ ref' = [ref EXCEPT ![t] = l]
    <3>1. CASE locks[req[t].store][req[t].key] # NoLock
      <4>1. locks[req[t].store][req[t].key] \in LockIds
        BY <1>b, <2>1, <3>1 DEF LockTypeOK
      <4> QED BY <1>2, <3>1, <4>1 DEF GetLock
    <3>2. CASE locks[req[t].store][req[t].key] = NoLock
      <4>1. (CHOOSE x \in FreeLocks : TRUE) \in LockIds
        BY <1>2, <3>2 DEF GetLock, FreeLocks
      <4> QED BY <1>2, <3>2, <4>1 DEF GetLock
    <3> QED BY <3>1, <3>2
  <2>3. LockInv'
    <3>1. \A u \in Threads : u # t /\ ref[u] # NoLock =>
            locks'[req[u].store][req[u].key] = locks[req[u].store][req[u].key]
      BY <1>a, <1>b, <2>1, <2>2 DEF LockInv, LockTypeOK
    <3>2. l # NoLock /\ locks'[req[t].store][req[t].key] = l
      BY <1>b, <2>1, <2>2, StoreAssumption DEF LockTypeOK
    <3>3. /\ pc' = [pc EXCEPT ![t] = "acquire"] /\ pc[t] = "lock"
          /\ req' = req /\ guard' = guard
      BY <1>2 DEF GetLock
    <3> SUFFICES ASSUME NEW u \in Threads
                 PROVE  /\ ref'[u] # NoLock <=> pc'[u] = "acquire" \/ pc'[u] \in GuardedSteps
                        /\ guard'[u] # "none" => pc'[u] \in GuardedSteps
                        /\ ref'[u] # NoLock => locks'[req'[u].store][req'[u].key] = ref'[u]
      BY DEF LockInv
    <3>4. CASE u = t
      BY <1>b, <2>1, <2>2, <3>2, <3>3, <3>4 DEF LockTypeOK, CallTypeOK
    <3>5. CASE u # t
      BY <1>b, <2>2, <3>1, <3>3, <3>5 DEF LockInv, LockTypeOK, CallTypeOK
    <3> QED BY <3>4, <3>5
  <2>4. RwInv'
    BY <1>2, <1>b, <2>1, <2>2 DEF GetLock, RwInv, LockInv, LockTypeOK
  <2> QED BY <2>3, <2>4
<1>3. ASSUME NEW t \in Threads, Acquire(t) PROVE LockInv' /\ RwInv'
  <2>1. LockInv'
    BY <1>3, <1>b DEF Acquire, LockInv, LockTypeOK, CallTypeOK
  <2>2. RwInv'
    BY <1>3, <1>b DEF Acquire, NoGuard, RwInv, LockTypeOK
  <2> QED BY <2>1, <2>2
<1>4. ASSUME NEW t \in Threads, GcSweep(t) PROVE LockInv' /\ RwInv'
  <2>1. \A u \in Threads : ref[u] # NoLock =>
          locks'[req[u].store][req[u].key] = locks[req[u].store][req[u].key]
    BY <1>4, <1>a, <1>b DEF GcSweep, Referenced, LockInv, LockTypeOK
  <2>2. LockInv'
    BY <1>4, <1>b, <2>1 DEF GcSweep, LockInv, LockTypeOK, CallTypeOK
  <2> QED BY <1>4, <1>b, <2>2 DEF GcSweep, RwInv
<1>5. ASSUME NEW t \in Threads, MakeParent(t) PROVE LockInv' /\ RwInv'
  BY <1>5, <1>b DEF MakeParent, LockInv, RwInv, LockTypeOK, CallTypeOK
<1>6. ASSUME NEW t \in Threads, CreateTmp(t) PROVE LockInv' /\ RwInv'
  BY <1>6, <1>b DEF CreateTmp, LockInv, RwInv, LockTypeOK, CallTypeOK
<1>7. ASSUME NEW t \in Threads, FillTmp(t) PROVE LockInv' /\ RwInv'
  BY <1>7, <1>b DEF FillTmp, LockInv, RwInv, LockTypeOK, CallTypeOK
<1>8. ASSUME NEW t \in Threads, SyncTmp(t) PROVE LockInv' /\ RwInv'
  BY <1>8, <1>b DEF SyncTmp, LockInv, RwInv, LockTypeOK, CallTypeOK
<1>9. ASSUME NEW t \in Threads, OpenKey(t) PROVE LockInv' /\ RwInv'
  BY <1>9, <1>b DEF OpenKey, LockInv, RwInv, LockTypeOK, CallTypeOK
<1>10. ASSUME NEW t \in Threads, ReadAll(t) PROVE LockInv' /\ RwInv'
  BY <1>10, <1>b DEF ReadAll, LockInv, RwInv, LockTypeOK, CallTypeOK
<1>11. ASSUME NEW t \in Threads, RenameTmp(t) PROVE LockInv' /\ RwInv'
  <2>1. \/ UNCHANGED lockvars /\ Goto(t, "syncDir")
        \/ Unlock(t) /\ \E step \in {"gcTick", "ret"} : Goto(t, step)
    BY <1>11 DEF RenameTmp
  <2>2. pc[t] \in GuardedSteps /\ req' = req
    BY <1>11 DEF RenameTmp
  <2> QED BY <1>b, <2>1, <2>2 DEF LockInv, RwInv, LockTypeOK, CallTypeOK
<1>12. ASSUME NEW t \in Threads, SyncParent(t) PROVE LockInv' /\ RwInv'
  BY <1>12, <1>b DEF SyncParent, LockInv, RwInv, LockTypeOK, CallTypeOK
<1>13. ASSUME NEW t \in Threads, IsFile(t) PROVE LockInv' /\ RwInv'
  BY <1>13, <1>b DEF IsFile, LockInv, RwInv, LockTypeOK, CallTypeOK
<1>14. ASSUME NEW t \in Threads, UnlinkKey(t) PROVE LockInv' /\ RwInv'
  <2>1. \/ UNCHANGED lockvars /\ Goto(t, "syncDir")
        \/ Unlock(t) /\ \E step \in {"gcTick", "ret"} : Goto(t, step)
    BY <1>14 DEF UnlinkKey
  <2>2. pc[t] \in GuardedSteps /\ req' = req
    BY <1>14 DEF UnlinkKey
  <2> QED BY <1>b, <2>1, <2>2 DEF LockInv, RwInv, LockTypeOK, CallTypeOK
<1>15. ASSUME NEW t \in Threads, ReadDir(t) PROVE LockInv' /\ RwInv'
  BY <1>15, <1>b DEF ReadDir, LockInv, RwInv, LockTypeOK, CallTypeOK
<1>16. ASSUME NEW t \in Threads, VisitEntry(t) PROVE LockInv' /\ RwInv'
  BY <1>16, <1>b DEF VisitEntry, LockInv, RwInv, LockTypeOK, CallTypeOK
<1>17. ASSUME NEW t \in Threads, ListDone(t) PROVE LockInv' /\ RwInv'
  BY <1>17, <1>b DEF ListDone, LockInv, RwInv, LockTypeOK, CallTypeOK
<1>18. ASSUME NEW t \in Threads, GcTick(t) PROVE LockInv' /\ RwInv'
  BY <1>18, <1>b DEF GcTick, LockInv, RwInv, LockTypeOK, CallTypeOK
<1>19. ASSUME NEW t \in Threads, IoError(t) PROVE LockInv' /\ RwInv'
  BY <1>19, <1>b DEF IoError, LockInv, RwInv, LockTypeOK, CallTypeOK
<1>20. ASSUME NEW t \in Threads, Return(t) PROVE LockInv' /\ RwInv'
  BY <1>20, <1>b DEF Return, LockInv, RwInv, LockTypeOK, CallTypeOK
<1>24. ASSUME NEW t \in Threads, Refuse(t) PROVE LockInv' /\ RwInv'
  BY <1>24, <1>b DEF Refuse, LockInv, RwInv, LockTypeOK, CallTypeOK
<1>21. CASE ProcessCrash \/ PowerLoss
  BY <1>21 DEF ProcessCrash, PowerLoss, NewProcess, All, LockInv, RwInv
<1>22. CASE KernelWriteback
  BY <1>22, <1>b DEF KernelWriteback, LockInv, RwInv
<1>23. CASE UNCHANGED vars
  BY <1>23, <1>b DEF vars, LockInv, RwInv
<1> QED BY <1>1, <1>2, <1>3, <1>4, <1>5, <1>6, <1>7, <1>8, <1>9, <1>10, <1>11, <1>12, <1>13, <1>14, <1>15, <1>16, <1>17, <1>18, <1>19, <1>20, <1>21, <1>22, <1>23, <1>24 DEF Next, Step

\* The invariant holds in every reachable state.
LEMMA InvHolds == Spec => []Inv
<1>1. Inv /\ [Next]_vars => Inv'
  BY TypeStep, LockStep DEF Inv
<1> QED BY InitInv, <1>1, PTL DEF Spec

\* Every variable keeps its type: counters stay within their bounds, a
\* thread's handle is an inode it really opened, its request is well formed.
THEOREM TypeCorrect == Spec => []TypeOK
<1>1. Inv => TypeOK
  BY DEF Inv
<1> QED BY InvHolds, <1>1, PTL

\* Threads on one path hold guards of one RwLock.
LEMMA Exclusion == Inv => MutualExclusion
BY DEF Inv, LockInv, GuardedSteps, RwInv, CallInv, MutualExclusion, SamePath, MyKey, MyStore

\* While a thread holds a path's write guard, no other thread of the store
\* holds a guard on that path, however many threads, paths and garbage
\* collections of the lock table there are.
THEOREM WritersExcludeAll == Spec => []MutualExclusion
BY InvHolds, Exclusion, PTL

-----------------------------------------------------------------------------
(***************************************************************************)
(* What a call has answered.                                               *)
(***************************************************************************)
\* A thread has no request and no result outside the store; it has answered
\* "applied" while its change is being made durable, something else behind
\* that, and nothing before; and its step tells the kind of its request and
\* the guard it holds.
AnswerInv ==
    \A t \in Threads :
        /\ pc[t] = "idle" => req[t] = NoReq
        /\ pc[t] = "syncDir" => rsp[t] = "applied"
        /\ pc[t] \in {"gcTick", "gcSweep", "ret"} => rsp[t] \notin {NoRsp, "applied"}
        /\ pc[t] \notin {"syncDir", "gcTick", "gcSweep", "ret"} => rsp[t] = NoRsp

KindInv ==
    \A t \in Threads :
        /\ pc[t] \in {"lock", "acquire"} => req[t] \in ReadReqs \cup WriteReqs \cup RemoveReqs
        /\ pc[t] \in {"open", "readAll"} => req[t] \in ReadReqs /\ guard[t] = "read"
        /\ pc[t] \in {"rename", "unlink", "syncDir"} => guard[t] = "write"
        /\ pc[t] = "syncDir" => req[t] \in WriteReqs \cup RemoveReqs
        /\ pc[t] \in {"readDir", "scan"} => req[t] \in ListReqs
        /\ pc[t] = "refuse" => req[t] \in InvalidReqs

\* The initial state satisfies both.
LEMMA AnswerInit == Init => AnswerInv /\ KindInv
BY DEF Init, All, AnswerInv, KindInv

\* The kinds of requests are told apart.
LEMMA RequestKinds ==
    ASSUME NEW r \in Requests
    PROVE  /\ r.kind = "read" <=> r \in ReadReqs
           /\ r.kind = "write" <=> r \in WriteReqs
           /\ r.kind = "remove" <=> r \in RemoveReqs
           /\ r.kind = "list" <=> r \in ListReqs
           /\ r.kind = "invalid" <=> r \in InvalidReqs
           /\ r.kind \in {"read", "write", "remove", "list", "invalid"}
BY DEF Requests, ReadReqs, WriteReqs, RemoveReqs, ListReqs, InvalidReqs

\* What a call does to the calling thread.
LEMMA CallEffect ==
    ASSUME NEW t \in Threads, Call(t)
    PROVE  \E r \in Requests :
              /\ req' = [req EXCEPT ![t] = r] /\ pc' = [pc EXCEPT ![t] = FirstStep(r.kind)]
              /\ \/ r \in ReadReqs /\ FirstStep(r.kind) = "lock"
                 \/ r \in WriteReqs /\ FirstStep(r.kind) = "mkdir"
                 \/ r \in RemoveReqs /\ FirstStep(r.kind) = "isFile"
                 \/ r \in ListReqs /\ FirstStep(r.kind) = "readDir"
                 \/ r \in InvalidReqs /\ FirstStep(r.kind) = "refuse"
<1>1. PICK r \in Requests :
         req' = [req EXCEPT ![t] = r] /\ pc' = [pc EXCEPT ![t] = FirstStep(r.kind)]
  BY DEF Call, Goto
<1>2. \/ r \in ReadReqs /\ FirstStep(r.kind) = "lock"
      \/ r \in WriteReqs /\ FirstStep(r.kind) = "mkdir"
      \/ r \in RemoveReqs /\ FirstStep(r.kind) = "isFile"
      \/ r \in ListReqs /\ FirstStep(r.kind) = "readDir"
      \/ r \in InvalidReqs /\ FirstStep(r.kind) = "refuse"
  BY RequestKinds DEF FirstStep
<1>3. QED
  BY <1>1, <1>2

\* Every step keeps both.
LEMMA AnswerStep == Inv /\ AnswerInv /\ KindInv /\ [Next]_vars => AnswerInv' /\ KindInv'
<1> SUFFICES ASSUME Inv, AnswerInv, KindInv, [Next]_vars
             PROVE  AnswerInv' /\ KindInv'
  OBVIOUS
<1> USE DEF fsvars, lockvars, counters, hist, At, Goto, Respond, Unlock
<1>a. /\ pc \in [Threads -> Steps] /\ req \in [Threads -> Requests \cup {NoReq}]
      /\ guard \in [Threads -> {"none", "read", "write"}]
      /\ rsp \in [Threads -> FileValues \cup {NoRsp, "applied", "ok", "err"}]
  BY DEF Inv, TypeOK, CallTypeOK, LockTypeOK, ResultTypeOK
<1>b. \A t \in Threads :
         /\ pc[t] # "idle" => req[t] \in Requests
         /\ pc[t] \in {"mkdir", "create", "fill", "syncTmp", "rename"} => req[t] \in WriteReqs
         /\ pc[t] \in {"isFile", "unlink"} => req[t] \in RemoveReqs
  BY DEF Inv, CallInv
<1>c. /\ NoRsp \notin FileValues \cup {"applied", "ok", "err"}
      /\ "applied" \notin FileValues
  BY ResultAssumption DEF Answers
<1>1. ASSUME NEW t \in Threads, Call(t)
      PROVE  AnswerInv' /\ KindInv'
  <2>1. PICK r \in Requests :
           /\ req' = [req EXCEPT ![t] = r] /\ pc' = [pc EXCEPT ![t] = FirstStep(r.kind)]
           /\ \/ r \in ReadReqs /\ FirstStep(r.kind) = "lock"
              \/ r \in WriteReqs /\ FirstStep(r.kind) = "mkdir"
              \/ r \in RemoveReqs /\ FirstStep(r.kind) = "isFile"
              \/ r \in ListReqs /\ FirstStep(r.kind) = "readDir"
              \/ r \in InvalidReqs /\ FirstStep(r.kind) = "refuse"
    BY <1>1, CallEffect
  <2>2. AnswerInv'
    BY <1>1, <1>a, <1>c, <2>1 DEF Call, AnswerInv
  <2>3. KindInv'
    BY <1>1, <1>a, <2>1 DEF Call, KindInv
  <2>4. QED
    BY <2>2, <2>3
<1>2. ASSUME NEW t \in Threads, Refuse(t)
      PROVE  AnswerInv' /\ KindInv'
  <2>1. AnswerInv'
    BY <1>2, <1>a, <1>b, <1>c DEF Refuse, EarlyReturn, AnswerInv
  <2>2. KindInv'
    BY <1>2, <1>a, <1>b DEF Refuse, EarlyReturn, KindInv
  <2>3. QED
    BY <2>1, <2>2
<1>3. ASSUME NEW t \in Threads, MakeParent(t)
      PROVE  AnswerInv' /\ KindInv'
  <2>1. AnswerInv'
    BY <1>3, <1>a, <1>b, <1>c DEF MakeParent, AnswerInv
  <2>2. KindInv'
    BY <1>3, <1>a, <1>b DEF MakeParent, KindInv
  <2>3. QED
    BY <2>1, <2>2
<1>4. ASSUME NEW t \in Threads, CreateTmp(t)
      PROVE  AnswerInv' /\ KindInv'
  <2>1. AnswerInv'
    BY <1>4, <1>a, <1>b, <1>c DEF CreateTmp, AnswerInv
  <2>2. KindInv'
    BY <1>4, <1>a, <1>b DEF CreateTmp, KindInv
  <2>3. QED
    BY <2>1, <2>2
<1>5. ASSUME NEW t \in Threads, FillTmp(t)
      PROVE  AnswerInv' /\ KindInv'
  <2>1. AnswerInv'
    BY <1>5, <1>a, <1>b, <1>c DEF FillTmp, AnswerInv
  <2>2. KindInv'
    BY <1>5, <1>a, <1>b DEF FillTmp, KindInv
  <2>3. QED
    BY <2>1, <2>2
<1>6. ASSUME NEW t \in Threads, SyncTmp(t)
      PROVE  AnswerInv' /\ KindInv'
  <2>1. AnswerInv'
    BY <1>6, <1>a, <1>b, <1>c DEF SyncTmp, AnswerInv
  <2>2. KindInv'
    BY <1>6, <1>a, <1>b DEF SyncTmp, KindInv
  <2>3. QED
    BY <2>1, <2>2
<1>7. ASSUME NEW t \in Threads, GetLock(t)
      PROVE  AnswerInv' /\ KindInv'
  <2>1. AnswerInv'
    BY <1>7, <1>a, <1>b, <1>c DEF GetLock, AnswerInv
  <2>2. KindInv'
    BY <1>7, <1>a, <1>b DEF GetLock, KindInv
  <2>3. QED
    BY <2>1, <2>2
<1>8. ASSUME NEW t \in Threads, Acquire(t)
      PROVE  AnswerInv' /\ KindInv'
  <2>1. AnswerInv'
    BY <1>8, <1>a, <1>b, <1>c DEF Acquire, AnswerInv
  <2>2. KindInv'
    BY <1>8, <1>a, <1>b, RequestKinds DEF Acquire, KindInv
  <2>3. QED
    BY <2>1, <2>2
<1>9. ASSUME NEW t \in Threads, OpenKey(t)
      PROVE  AnswerInv' /\ KindInv'
  <2>1. AnswerInv'
    BY <1>9, <1>a, <1>b, <1>c DEF OpenKey, EarlyReturn, AnswerInv, FileValues
  <2>2. KindInv'
    BY <1>9, <1>a, <1>b DEF OpenKey, EarlyReturn, KindInv
  <2>3. QED
    BY <2>1, <2>2
<1>10. ASSUME NEW t \in Threads, ReadAll(t)
      PROVE  AnswerInv' /\ KindInv'
  <2>1. data[handle[t]] \in FileValues
    BY <1>10 DEF ReadAll, Inv, CallInv, TypeOK, FsTypeOK, FileValues
  <2>2. AnswerInv'
    BY <1>10, <1>a, <1>b, <1>c, <2>1 DEF ReadAll, AnswerInv
  <2>3. KindInv'
    BY <1>10, <1>a, <1>b DEF ReadAll, KindInv
  <2>4. QED
    BY <2>2, <2>3
<1>11. ASSUME NEW t \in Threads, RenameTmp(t)
      PROVE  AnswerInv' /\ KindInv'
  <2>1. AnswerInv'
    BY <1>11, <1>a, <1>b, <1>c DEF RenameTmp, EarlyReturn, AnswerInv
  <2>2. KindInv'
    BY <1>11, <1>a, <1>b DEF RenameTmp, EarlyReturn, KindInv
  <2>3. QED
    BY <2>1, <2>2
<1>12. ASSUME NEW t \in Threads, SyncParent(t)
      PROVE  AnswerInv' /\ KindInv'
  <2>1. AnswerInv'
    BY <1>12, <1>a, <1>b, <1>c DEF SyncParent, AnswerInv
  <2>2. KindInv'
    BY <1>12, <1>a, <1>b DEF SyncParent, KindInv
  <2>3. QED
    BY <2>1, <2>2
<1>13. ASSUME NEW t \in Threads, IsFile(t)
      PROVE  AnswerInv' /\ KindInv'
  <2>1. AnswerInv'
    BY <1>13, <1>a, <1>b, <1>c DEF IsFile, EarlyReturn, AnswerInv
  <2>2. KindInv'
    BY <1>13, <1>a, <1>b DEF IsFile, EarlyReturn, KindInv
  <2>3. QED
    BY <2>1, <2>2
<1>14. ASSUME NEW t \in Threads, UnlinkKey(t)
      PROVE  AnswerInv' /\ KindInv'
  <2>1. AnswerInv'
    BY <1>14, <1>a, <1>b, <1>c DEF UnlinkKey, EarlyReturn, AnswerInv
  <2>2. KindInv'
    BY <1>14, <1>a, <1>b DEF UnlinkKey, EarlyReturn, KindInv
  <2>3. QED
    BY <2>1, <2>2
<1>15. ASSUME NEW t \in Threads, ReadDir(t)
      PROVE  AnswerInv' /\ KindInv'
  <2>1. AnswerInv'
    BY <1>15, <1>a, <1>b, <1>c DEF ReadDir, AnswerInv
  <2>2. KindInv'
    BY <1>15, <1>a, <1>b DEF ReadDir, KindInv
  <2>3. QED
    BY <2>1, <2>2
<1>16. ASSUME NEW t \in Threads, VisitEntry(t)
      PROVE  AnswerInv' /\ KindInv'
  <2>1. AnswerInv'
    BY <1>16, <1>a, <1>b, <1>c DEF VisitEntry, AnswerInv
  <2>2. KindInv'
    BY <1>16, <1>a, <1>b DEF VisitEntry, KindInv
  <2>3. QED
    BY <2>1, <2>2
<1>17. ASSUME NEW t \in Threads, ListDone(t)
      PROVE  AnswerInv' /\ KindInv'
  <2>1. AnswerInv'
    BY <1>17, <1>a, <1>b, <1>c DEF ListDone, AnswerInv
  <2>2. KindInv'
    BY <1>17, <1>a, <1>b DEF ListDone, KindInv
  <2>3. QED
    BY <2>1, <2>2
<1>18. ASSUME NEW t \in Threads, GcTick(t)
      PROVE  AnswerInv' /\ KindInv'
  <2>1. AnswerInv'
    BY <1>18, <1>a, <1>b, <1>c DEF GcTick, AnswerInv
  <2>2. KindInv'
    BY <1>18, <1>a, <1>b DEF GcTick, KindInv
  <2>3. QED
    BY <2>1, <2>2
<1>19. ASSUME NEW t \in Threads, GcSweep(t)
      PROVE  AnswerInv' /\ KindInv'
  <2>1. AnswerInv'
    BY <1>19, <1>a, <1>b, <1>c DEF GcSweep, AnswerInv
  <2>2. KindInv'
    BY <1>19, <1>a, <1>b DEF GcSweep, KindInv
  <2>3. QED
    BY <2>1, <2>2
<1>20. ASSUME NEW t \in Threads, IoError(t)
      PROVE  AnswerInv' /\ KindInv'
  <2>1. AnswerInv'
    BY <1>20, <1>a, <1>b, <1>c DEF IoError, EarlyReturn, AnswerInv
  <2>2. KindInv'
    BY <1>20, <1>a, <1>b DEF IoError, EarlyReturn, KindInv
  <2>3. QED
    BY <2>1, <2>2
<1>21. ASSUME NEW t \in Threads, Return(t)
      PROVE  AnswerInv' /\ KindInv'
  <2>1. AnswerInv'
    BY <1>21, <1>a, <1>b, <1>c DEF Return, AnswerInv
  <2>2. KindInv'
    BY <1>21, <1>a, <1>b DEF Return, KindInv
  <2>3. QED
    BY <2>1, <2>2
<1>22. CASE ProcessCrash \/ PowerLoss
  BY <1>22 DEF ProcessCrash, PowerLoss, NewProcess, All, AnswerInv, KindInv
<1>23. CASE KernelWriteback
  BY <1>23 DEF KernelWriteback, AnswerInv, KindInv
<1>24. CASE UNCHANGED vars
  BY <1>24 DEF vars, AnswerInv, KindInv
<1>25. QED
  BY <1>1, <1>2, <1>3, <1>4, <1>5, <1>6, <1>7, <1>8, <1>9, <1>10, <1>11, <1>12, <1>13,
     <1>14, <1>15, <1>16, <1>17, <1>18, <1>19, <1>20, <1>21, <1>22, <1>23, <1>24 DEF Next,
     Step

-----------------------------------------------------------------------------
(***************************************************************************)
(* Temporary files.                                                        *)
(***************************************************************************)
\* main.rs makes two stores on one directory; what follows is about one.
OneStore == \A r, s \in Stores : r = s

\* A thread inside write that has a number for its temporary file.
Numbered(t) ==
    /\ req[t] \in WriteReqs
    /\ pc[t] \in {"create", "fill", "syncTmp", "lock", "acquire", "rename"}

\* The number of a thread is one that its store has handed out, to it alone.
NumberInv ==
    \A t \in Threads : Numbered(t) =>
        /\ tmp[t] < tmpCounter[MyStore(t)]
        /\ \A u \in Threads : u # t /\ Numbered(u) /\ MyStore(u) = MyStore(t) => tmp[u] # tmp[t]

\* Every step keeps this.
LEMMA NumberStep == Inv /\ NumberInv /\ [Next]_vars => NumberInv'
<1> SUFFICES ASSUME Inv, NumberInv, [Next]_vars
             PROVE  NumberInv'
  OBVIOUS
<1> USE DEF fsvars, lockvars, counters, hist, At, Goto, Respond, Unlock, MyStore, Numbered
<1>a. /\ pc \in [Threads -> Steps] /\ req \in [Threads -> Requests \cup {NoReq}]
      /\ tmp \in [Threads -> 0..MaxWrites] /\ tmpCounter \in [Stores -> 0..MaxWrites]
  BY DEF Inv, TypeOK, CallTypeOK
<1>b. \A t \in Threads : req[t] \in WriteReqs => req[t].store \in Stores
  BY DEF WriteReqs
<1>1. ASSUME NEW t \in Threads, Call(t)
      PROVE  NumberInv'
  <2>1. PICK r \in Requests, step \in {"lock", "mkdir", "isFile", "readDir", "refuse"} :
           /\ req' = [req EXCEPT ![t] = r] /\ pc' = [pc EXCEPT ![t] = step]
           /\ step = "lock" => r \in ReadReqs
    BY <1>1, CallEffect
  <2>2. ~Numbered(t)'
    BY <1>a, <2>1 DEF ReadReqs, WriteReqs
  <2>3. \A u \in Threads \ {t} : /\ Numbered(u)' <=> Numbered(u)
                                  /\ req'[u] = req[u] /\ tmp'[u] = tmp[u]
    BY <1>1, <1>a, <2>1 DEF Call
  <2>4. UNCHANGED tmpCounter
    BY <1>1 DEF Call
  <2> HIDE DEF Numbered
  <2>5. QED
    BY <2>2, <2>3, <2>4 DEF NumberInv
<1>2. ASSUME NEW t \in Threads, Refuse(t)
      PROVE  NumberInv'
  BY <1>2, <1>a, <1>b DEF Refuse, EarlyReturn, NumberInv
<1>3. ASSUME NEW t \in Threads, MakeParent(t)
      PROVE  NumberInv'
  <2> DEFINE s == req[t].store
             n == tmpCounter[s]
  <2>1. s \in Stores /\ n \in 0..MaxWrites /\ MaxWrites \in Nat
    BY <1>3, <1>a, <1>b, StoreAssumption DEF MakeParent, Inv, CallInv
  <2>2. /\ tmp' = [tmp EXCEPT ![t] = n] /\ pc' = [pc EXCEPT ![t] = "create"] /\ req' = req
        /\ tmpCounter' = [tmpCounter EXCEPT ![s] = n + 1]
    BY <1>3 DEF MakeParent
  <2> HIDE DEF n
  <2> SUFFICES ASSUME NEW x \in Threads, Numbered(x)'
               PROVE  /\ tmp'[x] < tmpCounter'[MyStore(x)]
                      /\ \A u \in Threads : u # x /\ Numbered(u)' /\ MyStore(u) = MyStore(x)
                            => tmp'[u] # tmp'[x]
    BY <2>2 DEF NumberInv
  <2>3. \A u \in Threads \ {t} : Numbered(u)' => Numbered(u) /\ tmp'[u] = tmp[u]
    BY <1>a, <2>2
  <2>4. tmp'[t] = n
    BY <1>a, <2>2
  <2>5. \A u \in Threads \ {t} : Numbered(u) => tmp[u] < tmpCounter[req[u].store]
    BY DEF NumberInv
  <2>6. CASE x = t
    BY <1>a, <1>b, <2>1, <2>2, <2>3, <2>4, <2>5, <2>6 DEF n
  <2>7. CASE x # t
    <3>1. Numbered(x) /\ tmp'[x] = tmp[x] /\ tmp[x] < tmpCounter[req[x].store]
      BY <2>3, <2>5, <2>7
    <3>2. tmp[x] < tmpCounter'[req[x].store]
      BY <1>a, <1>b, <2>1, <2>2, <3>1 DEF n
    <3>3. \A u \in Threads \ {t} : u # x /\ Numbered(u) /\ MyStore(u) = MyStore(x)
             => tmp[u] # tmp[x]
      BY <3>1 DEF NumberInv
    <3>4. MyStore(t) = MyStore(x) => n # tmp[x]
      BY <1>a, <2>1, <3>1 DEF n
    <3>5. QED
      BY <2>2, <2>3, <2>4, <3>1, <3>2, <3>3, <3>4
  <2>8. QED
    BY <2>6, <2>7
<1>4. ASSUME NEW t \in Threads, CreateTmp(t)
      PROVE  NumberInv'
  BY <1>4, <1>a, <1>b DEF CreateTmp, NumberInv
<1>5. ASSUME NEW t \in Threads, FillTmp(t)
      PROVE  NumberInv'
  BY <1>5, <1>a, <1>b DEF FillTmp, NumberInv
<1>6. ASSUME NEW t \in Threads, SyncTmp(t)
      PROVE  NumberInv'
  BY <1>6, <1>a, <1>b DEF SyncTmp, NumberInv
<1>7. ASSUME NEW t \in Threads, GetLock(t)
      PROVE  NumberInv'
  BY <1>7, <1>a, <1>b DEF GetLock, NumberInv
<1>8. ASSUME NEW t \in Threads, Acquire(t)
      PROVE  NumberInv'
  BY <1>8, <1>a, <1>b DEF Acquire, NumberInv
<1>9. ASSUME NEW t \in Threads, OpenKey(t)
      PROVE  NumberInv'
  BY <1>9, <1>a, <1>b DEF OpenKey, EarlyReturn, NumberInv
<1>10. ASSUME NEW t \in Threads, ReadAll(t)
      PROVE  NumberInv'
  BY <1>10, <1>a, <1>b DEF ReadAll, NumberInv
<1>11. ASSUME NEW t \in Threads, RenameTmp(t)
      PROVE  NumberInv'
  BY <1>11, <1>a, <1>b DEF RenameTmp, EarlyReturn, NumberInv
<1>12. ASSUME NEW t \in Threads, SyncParent(t)
      PROVE  NumberInv'
  BY <1>12, <1>a, <1>b DEF SyncParent, NumberInv
<1>13. ASSUME NEW t \in Threads, IsFile(t)
      PROVE  NumberInv'
  <2>1. ~Numbered(t)'
    BY <1>13, <1>a, <1>b DEF IsFile, EarlyReturn, Inv, CallInv, RemoveReqs, WriteReqs
  <2>2. \A u \in Threads \ {t} : Numbered(u)' <=> Numbered(u)
    BY <1>13, <1>a DEF IsFile, EarlyReturn
  <2>3. UNCHANGED <<req, tmp, tmpCounter>>
    BY <1>13 DEF IsFile
  <2> HIDE DEF Numbered
  <2>4. QED
    BY <2>1, <2>2, <2>3 DEF NumberInv
<1>14. ASSUME NEW t \in Threads, UnlinkKey(t)
      PROVE  NumberInv'
  BY <1>14, <1>a, <1>b DEF UnlinkKey, EarlyReturn, NumberInv
<1>15. ASSUME NEW t \in Threads, ReadDir(t)
      PROVE  NumberInv'
  BY <1>15, <1>a, <1>b DEF ReadDir, NumberInv
<1>16. ASSUME NEW t \in Threads, VisitEntry(t)
      PROVE  NumberInv'
  BY <1>16, <1>a, <1>b DEF VisitEntry, NumberInv
<1>17. ASSUME NEW t \in Threads, ListDone(t)
      PROVE  NumberInv'
  BY <1>17, <1>a, <1>b DEF ListDone, NumberInv
<1>18. ASSUME NEW t \in Threads, GcTick(t)
      PROVE  NumberInv'
  BY <1>18, <1>a, <1>b DEF GcTick, NumberInv
<1>19. ASSUME NEW t \in Threads, GcSweep(t)
      PROVE  NumberInv'
  BY <1>19, <1>a, <1>b DEF GcSweep, NumberInv
<1>20. ASSUME NEW t \in Threads, IoError(t)
      PROVE  NumberInv'
  BY <1>20, <1>a, <1>b DEF IoError, EarlyReturn, NumberInv
<1>21. ASSUME NEW t \in Threads, Return(t)
      PROVE  NumberInv'
  BY <1>21, <1>a, <1>b DEF Return, NumberInv
<1>22. CASE ProcessCrash \/ PowerLoss
  BY <1>22 DEF ProcessCrash, PowerLoss, NewProcess, All, NumberInv
<1>23. CASE KernelWriteback
  BY <1>23 DEF KernelWriteback, NumberInv
<1>24. CASE UNCHANGED vars
  BY <1>24 DEF vars, NumberInv
<1>25. QED
  BY <1>1, <1>2, <1>3, <1>4, <1>5, <1>6, <1>7, <1>8, <1>9, <1>10, <1>11, <1>12, <1>13,
     <1>14, <1>15, <1>16, <1>17, <1>18, <1>19, <1>20, <1>21, <1>22, <1>23, <1>24 DEF Next,
     Step

\* The initial state satisfies it.
LEMMA NumberInit == Init => NumberInv
BY DEF Init, All, NumberInv, Numbered

\* All that has been shown of the calls.
CallsInv == Inv /\ AnswerInv /\ KindInv /\ NumberInv

\* It holds in every reachable state.
LEMMA CallsHold == Spec => []CallsInv
<1>1. Init => CallsInv
  BY InitInv, AnswerInit, NumberInit DEF CallsInv
<1>2. CallsInv /\ [Next]_vars => CallsInv'
  <2>1. Inv /\ [Next]_vars => Inv'
    BY TypeStep, LockStep DEF Inv
  <2>2. QED
    BY <2>1, AnswerStep, NumberStep DEF CallsInv
<1>3. QED
  BY <1>1, <1>2, PTL DEF Spec

\* The temporary file of a thread that has a number is a path.
LEMMA MyTmpPath ==
    ASSUME Inv, NEW t \in Threads, Numbered(t)
    PROVE  /\ MyKey(t) \in Keys /\ MyTmp(t) \in Paths /\ MyTmp(t)[1] = MyKey(t)
           /\ IsTmp(MyTmp(t))
<1>1. req[t].key \in Keys
  BY DEF Numbered, WriteReqs
<1>2. tmp[t] \in Nat /\ tmp[t] < MaxWrites
  BY StoreAssumption DEF Inv, CallInv, TypeOK, CallTypeOK, Numbered, WriteReqs
<1>3. QED
  BY <1>1, <1>2, PathsOfKeys DEF MyTmp, MyKey, TmpPath, IsTmp

\* File::create empties the thread's temporary file: the one a crash or an
\* error left under its name, or a new one.
LEMMA CreateEffect ==
    ASSUME Inv, NEW t \in Threads, CreateTmp(t)
    PROVE  \E i \in Inodes :
              /\ OpenTruncate(MyTmp(t), i) /\ handle' = [handle EXCEPT ![t] = i]
              /\ \/ vol[MyTmp(t)] = i
                 \/ vol[MyTmp(t)] = NoInode /\ i \in FreeInodes(OpenInodes)
<1>1. Numbered(t)
  BY DEF CreateTmp, At, Numbered, Inv, CallInv
<1>2. MyTmp(t) \in Paths
  BY <1>1, MyTmpPath
<1>3. CASE Exists(MyTmp(t))
  <2>1. vol[MyTmp(t)] \in Inodes
    BY <1>2, <1>3 DEF Exists, Inv, TypeOK, FsTypeOK
  <2>2. QED
    BY <1>3, <2>1 DEF CreateTmp
<1>4. CASE ~Exists(MyTmp(t))
  <2> DEFINE i == CHOOSE i \in FreeInodes(OpenInodes) : TRUE
  <2>1. i \in FreeInodes(OpenInodes)
    BY <1>4 DEF CreateTmp
  <2>2. i \in Inodes
    BY <2>1 DEF FreeInodes
  <2>3. OpenTruncate(MyTmp(t), i) /\ handle' = [handle EXCEPT ![t] = i]
    BY <1>4 DEF CreateTmp
  <2>4. vol[MyTmp(t)] = NoInode
    BY <1>4 DEF Exists
  <2>5. QED
    BY <2>1, <2>2, <2>3, <2>4
<1>5. QED
  BY <1>3, <1>4

\* Of two threads with a number each has a temporary file of its own.
LEMMA NumbersDiffer ==
    ASSUME OneStore, CallsInv, NEW t \in Threads, NEW u \in Threads, t # u,
           Numbered(t), Numbered(u)
    PROVE  MyTmp(t) # MyTmp(u) /\ tmp[t] # tmp[u]
<1>1. MyStore(t) = MyStore(u)
  BY DEF OneStore, Numbered, MyStore, WriteReqs
<1>2. tmp[t] # tmp[u]
  BY <1>1 DEF CallsInv, NumberInv
<1>3. tmp[t] \in Nat /\ tmp[u] \in Nat
  BY StoreAssumption DEF CallsInv, Inv, TypeOK, CallTypeOK
<1>4. QED
  BY <1>2, <1>3 DEF MyTmp, TmpPath

\* The writers of one store never share a temporary file, however many there
\* are: tmp_file_counter hands out each number once.
THEOREM TmpFilesUnique ==
    ASSUME OneStore
    PROVE  Spec => []UniqueTmpFiles
<1>1. CallsInv => UniqueTmpFiles
  BY NumbersDiffer DEF UniqueTmpFiles, Numbered
<1>2. QED
  BY <1>1, CallsHold, PTL

-----------------------------------------------------------------------------
(***************************************************************************)
(* Listing.                                                                *)
(***************************************************************************)
\* An entry that is still to be visited exists, is a temporary file's, which
\* is skipped, or has been removed.
ListInv ==
    \A t \in Threads :
        /\ pc[t] # "scan" => scan[t] = {}
        /\ \A p \in scan[t] : IsTmp(p) \/ Exists(p) \/ raced[t]
        /\ req[t] \in ListReqs /\ rsp[t] = "err" => raced[t]

\* A rename replaces a key's file without a moment at which there is none.
LEMMA ListStep ==
    ASSUME ~IoErrors, CallsInv, ListInv, [Next]_vars
    PROVE  ListInv'
<1> USE DEF fsvars, lockvars, counters, hist, At, Goto, Respond, Unlock, Exists
<1>a. /\ pc \in [Threads -> Steps] /\ req \in [Threads -> Requests \cup {NoReq}]
      /\ rsp \in [Threads -> FileValues \cup {NoRsp, "applied", "ok", "err"}]
      /\ scan \in [Threads -> SUBSET Paths] /\ raced \in [Threads -> BOOLEAN]
      /\ vol \in [Paths -> Inodes \cup {NoInode}]
  BY DEF CallsInv, Inv, TypeOK, CallTypeOK, ResultTypeOK, FsTypeOK
<1>b. \A t \in Threads :
         /\ pc[t] # "idle" => req[t] \in Requests
         /\ pc[t] \in {"create", "rename"} => req[t] \in WriteReqs /\ tmp[t] \in Nat
         /\ pc[t] \in {"isFile", "unlink"} => req[t] \in RemoveReqs
  BY StoreAssumption DEF CallsInv, Inv, CallInv, TypeOK, CallTypeOK
<1>c. NoRsp # "err" /\ "err" \notin FileValues
  BY ResultAssumption DEF Answers
<1>d. ReadReqs \cap ListReqs = {} /\ WriteReqs \cap ListReqs = {} /\ RemoveReqs \cap ListReqs = {}
      /\ InvalidReqs \cap ListReqs = {}
  BY DEF ReadReqs, WriteReqs, RemoveReqs, ListReqs, InvalidReqs
<1>e. \A t \in Threads : pc[t] = "idle" => rsp[t] = NoRsp
  BY DEF CallsInv, AnswerInv
\* A step of t that leaves the scans alone and makes no file go.
<1>f. ASSUME NEW t \in Threads, UNCHANGED <<scan, raced>>,
             \E step \in Steps : pc' = [pc EXCEPT ![t] = step] /\ (pc[t] = "scan" => step = "scan"),
             \A p \in Paths : ~IsTmp(p) /\ vol[p] # NoInode => vol'[p] # NoInode,
             \A u \in Threads : req'[u] \in ListReqs /\ rsp'[u] = "err"
                => req[u] \in ListReqs /\ rsp[u] = "err"
      PROVE  ListInv'
  <2>1. \A u \in Threads : scan'[u] = scan[u] /\ raced'[u] = raced[u] /\ scan[u] \subseteq Paths
    BY <1>a, <1>f
  <2>2. ASSUME NEW u \in Threads
        PROVE  pc'[u] # "scan" => scan'[u] = {}
    BY <1>a, <1>f, <2>1 DEF ListInv
  <2>3. ASSUME NEW u \in Threads, NEW p \in scan'[u]
        PROVE  IsTmp(p) \/ vol'[p] # NoInode \/ raced'[u]
    <3>1. IsTmp(p) \/ vol[p] # NoInode \/ raced[u]
      BY <2>1, <2>3 DEF ListInv
    <3>2. QED
      BY <1>f, <2>1, <2>3, <3>1
  <2>4. ASSUME NEW u \in Threads, req'[u] \in ListReqs, rsp'[u] = "err"
        PROVE  raced'[u]
    <3>1. raced[u]
      BY <1>f, <2>4 DEF ListInv
    <3>2. QED
      BY <2>1, <3>1
  <2>5. QED
    BY <2>2, <2>3, <2>4 DEF ListInv
<1>1. ASSUME NEW t \in Threads, Call(t)
      PROVE  ListInv'
  <2>1. PICK r \in Requests, step \in {"lock", "mkdir", "isFile", "readDir", "refuse"} :
           req' = [req EXCEPT ![t] = r] /\ pc' = [pc EXCEPT ![t] = step]
    BY <1>1, CallEffect
  <2>2. step \in Steps /\ pc[t] = "idle" /\ UNCHANGED <<vol, scan, raced, rsp>>
    BY <1>1 DEF Call, Steps
  <2>3. \A u \in Threads : rsp'[u] = "err" => u # t /\ req'[u] = req[u]
    BY <1>a, <1>c, <1>e, <2>1, <2>2
  <2>4. QED
    BY <1>f, <2>1, <2>2, <2>3
<1>2. ASSUME NEW t \in Threads, Refuse(t)
      PROVE  ListInv'
  <2>1. UNCHANGED <<scan, raced>> /\ pc[t] # "scan" /\ req' = req
    BY <1>2 DEF Refuse
  <2>2. \E step \in Steps : pc' = [pc EXCEPT ![t] = step]
    BY <1>2 DEF Refuse, EarlyReturn, Steps
  <2>3. \A p \in Paths : ~IsTmp(p) /\ vol[p] # NoInode => vol'[p] # NoInode
    BY <1>2 DEF Refuse
  <2>4. \A u \in Threads : req[u] \in ListReqs /\ rsp'[u] = "err" => rsp[u] = "err"
    <3>1. req[t] \in InvalidReqs
      BY <1>2 DEF Refuse, CallsInv, KindInv
    <3>2. QED
      BY <1>2, <1>a, <1>d, <3>1 DEF Refuse, EarlyReturn
  <2>5. QED
    BY <1>f, <2>1, <2>2, <2>3, <2>4
<1>3. ASSUME NEW t \in Threads, MakeParent(t)
      PROVE  ListInv'
  <2>1. UNCHANGED <<scan, raced>> /\ pc[t] # "scan" /\ req' = req
    BY <1>3 DEF MakeParent
  <2>2. \E step \in Steps : pc' = [pc EXCEPT ![t] = step]
    BY <1>3 DEF MakeParent, Steps
  <2>3. \A p \in Paths : ~IsTmp(p) /\ vol[p] # NoInode => vol'[p] # NoInode
    BY <1>3 DEF MakeParent, MakeDir
  <2>4. \A u \in Threads : req[u] \in ListReqs /\ rsp'[u] = "err" => rsp[u] = "err"
    BY <1>3, <1>a, <1>b, <1>c, <1>d DEF MakeParent
  <2>5. QED
    BY <1>f, <2>1, <2>2, <2>3, <2>4
<1>4. ASSUME NEW t \in Threads, CreateTmp(t)
      PROVE  ListInv'
  <2>1. UNCHANGED <<scan, raced>> /\ pc[t] # "scan" /\ req' = req
    BY <1>4 DEF CreateTmp
  <2>2. \E step \in Steps : pc' = [pc EXCEPT ![t] = step]
    BY <1>4 DEF CreateTmp, Steps
  <2>3. \A p \in Paths : ~IsTmp(p) /\ vol[p] # NoInode => vol'[p] # NoInode
    <3>1. PICK i \in Inodes : vol' = [vol EXCEPT ![MyTmp(t)] = i]
      BY <1>4, CreateEffect DEF OpenTruncate, CallsInv
    <3>2. IsTmp(MyTmp(t))
      BY <1>4, <1>b DEF CreateTmp, MyTmp, TmpPath, IsTmp
    <3>3. QED
      <4>1. NoInode \notin Inodes
        BY StoreAssumption DEF NoInode
      <4>2. QED
        BY <1>a, <3>1, <3>2, <4>1
  <2>4. \A u \in Threads : req[u] \in ListReqs /\ rsp'[u] = "err" => rsp[u] = "err"
    BY <1>4, <1>a, <1>b, <1>c, <1>d DEF CreateTmp
  <2>5. QED
    BY <1>f, <2>1, <2>2, <2>3, <2>4
<1>5. ASSUME NEW t \in Threads, FillTmp(t)
      PROVE  ListInv'
  <2>1. UNCHANGED <<scan, raced>> /\ pc[t] # "scan" /\ req' = req
    BY <1>5 DEF FillTmp
  <2>2. \E step \in Steps : pc' = [pc EXCEPT ![t] = step]
    BY <1>5 DEF FillTmp, Steps
  <2>3. \A p \in Paths : ~IsTmp(p) /\ vol[p] # NoInode => vol'[p] # NoInode
    BY <1>5 DEF FillTmp, WriteFile
  <2>4. \A u \in Threads : req[u] \in ListReqs /\ rsp'[u] = "err" => rsp[u] = "err"
    BY <1>5, <1>a, <1>b, <1>c, <1>d DEF FillTmp
  <2>5. QED
    BY <1>f, <2>1, <2>2, <2>3, <2>4
<1>6. ASSUME NEW t \in Threads, SyncTmp(t)
      PROVE  ListInv'
  <2>1. UNCHANGED <<scan, raced>> /\ pc[t] # "scan" /\ req' = req
    BY <1>6 DEF SyncTmp
  <2>2. \E step \in Steps : pc' = [pc EXCEPT ![t] = step]
    BY <1>6 DEF SyncTmp, Steps
  <2>3. \A p \in Paths : ~IsTmp(p) /\ vol[p] # NoInode => vol'[p] # NoInode
    BY <1>6 DEF SyncTmp, SyncFile
  <2>4. \A u \in Threads : req[u] \in ListReqs /\ rsp'[u] = "err" => rsp[u] = "err"
    BY <1>6, <1>a, <1>b, <1>c, <1>d DEF SyncTmp
  <2>5. QED
    BY <1>f, <2>1, <2>2, <2>3, <2>4
<1>7. ASSUME NEW t \in Threads, GetLock(t)
      PROVE  ListInv'
  <2>1. UNCHANGED <<scan, raced>> /\ pc[t] # "scan" /\ req' = req
    BY <1>7 DEF GetLock
  <2>2. \E step \in Steps : pc' = [pc EXCEPT ![t] = step]
    BY <1>7 DEF GetLock, Steps
  <2>3. \A p \in Paths : ~IsTmp(p) /\ vol[p] # NoInode => vol'[p] # NoInode
    BY <1>7 DEF GetLock
  <2>4. \A u \in Threads : req[u] \in ListReqs /\ rsp'[u] = "err" => rsp[u] = "err"
    BY <1>7, <1>a, <1>b, <1>c, <1>d DEF GetLock
  <2>5. QED
    BY <1>f, <2>1, <2>2, <2>3, <2>4
<1>8. ASSUME NEW t \in Threads, Acquire(t)
      PROVE  ListInv'
  <2>1. UNCHANGED <<scan, raced>> /\ pc[t] # "scan" /\ req' = req
    BY <1>8 DEF Acquire
  <2>2. \E step \in Steps : pc' = [pc EXCEPT ![t] = step]
    BY <1>8 DEF Acquire, Steps
  <2>3. \A p \in Paths : ~IsTmp(p) /\ vol[p] # NoInode => vol'[p] # NoInode
    BY <1>8 DEF Acquire
  <2>4. \A u \in Threads : req[u] \in ListReqs /\ rsp'[u] = "err" => rsp[u] = "err"
    BY <1>8, <1>a, <1>b, <1>c, <1>d DEF Acquire
  <2>5. QED
    BY <1>f, <2>1, <2>2, <2>3, <2>4
<1>9. ASSUME NEW t \in Threads, OpenKey(t)
      PROVE  ListInv'
  <2>1. UNCHANGED <<scan, raced>> /\ pc[t] # "scan" /\ req' = req
    BY <1>9 DEF OpenKey
  <2>2. \E step \in Steps : pc' = [pc EXCEPT ![t] = step]
    BY <1>9 DEF OpenKey, EarlyReturn, Steps
  <2>3. \A p \in Paths : ~IsTmp(p) /\ vol[p] # NoInode => vol'[p] # NoInode
    BY <1>9 DEF OpenKey
  <2>4. \A u \in Threads : req[u] \in ListReqs /\ rsp'[u] = "err" => rsp[u] = "err"
    BY <1>9, <1>a, <1>b, <1>c, <1>d DEF OpenKey, EarlyReturn, FileValues
  <2>5. QED
    BY <1>f, <2>1, <2>2, <2>3, <2>4
<1>10. ASSUME NEW t \in Threads, ReadAll(t)
      PROVE  ListInv'
  <2>1. UNCHANGED <<scan, raced>> /\ pc[t] # "scan" /\ req' = req
    BY <1>10 DEF ReadAll
  <2>2. \E step \in Steps : pc' = [pc EXCEPT ![t] = step]
    BY <1>10 DEF ReadAll, Steps
  <2>3. \A p \in Paths : ~IsTmp(p) /\ vol[p] # NoInode => vol'[p] # NoInode
    BY <1>10 DEF ReadAll
  <2>4. \A u \in Threads : req[u] \in ListReqs /\ rsp'[u] = "err" => rsp[u] = "err"
    <3>1. data[handle[t]] \in FileValues
      BY <1>10 DEF ReadAll, CallsInv, Inv, CallInv, TypeOK, FsTypeOK, FileValues
    <3>2. QED
      BY <1>10, <1>a, <1>c, <3>1 DEF ReadAll
  <2>5. QED
    BY <1>f, <2>1, <2>2, <2>3, <2>4
<1>11. ASSUME NEW t \in Threads, RenameTmp(t)
      PROVE  ListInv'
  <2>1. UNCHANGED <<scan, raced>> /\ pc[t] # "scan" /\ req' = req
    BY <1>11 DEF RenameTmp
  <2>2. \E step \in Steps : pc' = [pc EXCEPT ![t] = step]
    BY <1>11 DEF RenameTmp, EarlyReturn, Steps
  <2>3. \A p \in Paths : ~IsTmp(p) /\ vol[p] # NoInode => vol'[p] # NoInode
    <3>1. CASE Exists(MyTmp(t))
      <4>1. vol' = [vol EXCEPT ![KeyPath(MyKey(t))] = vol[MyTmp(t)], ![MyTmp(t)] = NoInode]
        BY <1>11, <3>1 DEF RenameTmp, RenameFile
      <4>2. IsTmp(MyTmp(t))
        BY <1>11, <1>b DEF RenameTmp, MyTmp, TmpPath, IsTmp
      <4>3. QED
        BY <1>a, <3>1, <4>1, <4>2
    <3>2. CASE ~Exists(MyTmp(t))
      BY <1>11, <3>2 DEF RenameTmp
    <3>3. QED
      BY <3>1, <3>2
  <2>4. \A u \in Threads : req[u] \in ListReqs /\ rsp'[u] = "err" => rsp[u] = "err"
    BY <1>11, <1>a, <1>b, <1>c, <1>d DEF RenameTmp, EarlyReturn
  <2>5. QED
    BY <1>f, <2>1, <2>2, <2>3, <2>4
<1>12. ASSUME NEW t \in Threads, SyncParent(t)
      PROVE  ListInv'
  <2>1. UNCHANGED <<scan, raced>> /\ pc[t] # "scan" /\ req' = req
    BY <1>12 DEF SyncParent
  <2>2. \E step \in Steps : pc' = [pc EXCEPT ![t] = step]
    BY <1>12 DEF SyncParent, Steps
  <2>3. \A p \in Paths : ~IsTmp(p) /\ vol[p] # NoInode => vol'[p] # NoInode
    BY <1>12 DEF SyncParent, SyncDirectory
  <2>4. \A u \in Threads : req[u] \in ListReqs /\ rsp'[u] = "err" => rsp[u] = "err"
    BY <1>12, <1>a, <1>b, <1>c, <1>d DEF SyncParent
  <2>5. QED
    BY <1>f, <2>1, <2>2, <2>3, <2>4
<1>13. ASSUME NEW t \in Threads, IsFile(t)
      PROVE  ListInv'
  <2>1. UNCHANGED <<scan, raced>> /\ pc[t] # "scan" /\ req' = req
    BY <1>13 DEF IsFile
  <2>2. \E step \in Steps : pc' = [pc EXCEPT ![t] = step]
    BY <1>13 DEF IsFile, EarlyReturn, Steps
  <2>3. \A p \in Paths : ~IsTmp(p) /\ vol[p] # NoInode => vol'[p] # NoInode
    BY <1>13 DEF IsFile
  <2>4. \A u \in Threads : req[u] \in ListReqs /\ rsp'[u] = "err" => rsp[u] = "err"
    BY <1>13, <1>a, <1>b, <1>c, <1>d DEF IsFile, EarlyReturn
  <2>5. QED
    BY <1>f, <2>1, <2>2, <2>3, <2>4
<1>14. ASSUME NEW t \in Threads, UnlinkKey(t)
      PROVE  ListInv'
  <2>1. UNCHANGED <<scan, req>> /\ pc[t] = "unlink" /\ req[t] \in RemoveReqs
    BY <1>14, <1>b DEF UnlinkKey
  <2>2. CASE ~Exists(KeyPath(MyKey(t)))
    BY <1>14, <1>a, <1>d, <1>f, <2>1, <2>2 DEF UnlinkKey, EarlyReturn, Steps
  <2>3. CASE Exists(KeyPath(MyKey(t)))
    <3> DEFINE key == KeyPath(MyKey(t))
    <3>1. vol' = [vol EXCEPT ![key] = NoInode]
      BY <1>14, <2>3 DEF UnlinkKey, UnlinkFile
    <3>2. raced' = [u \in Threads |-> raced[u] \/ key \in scan[u]]
      BY <1>14, <2>3 DEF UnlinkKey
    <3>3. \A u \in Threads : rsp'[u] = "err" => rsp[u] = "err"
      BY <1>14, <1>a, <2>3 DEF UnlinkKey
    <3>4. \E step \in {"gcTick", "syncDir"} : pc' = [pc EXCEPT ![t] = step]
      BY <1>14, <2>3 DEF UnlinkKey
    <3> HIDE DEF key
    <3>5. ASSUME NEW u \in Threads
          PROVE  pc'[u] # "scan" => scan'[u] = {}
      BY <1>a, <2>1, <3>4 DEF ListInv
    <3>6. ASSUME NEW u \in Threads, NEW p \in scan'[u]
          PROVE  IsTmp(p) \/ vol'[p] # NoInode \/ raced'[u]
      <4>1. p \in Paths /\ p \in scan[u] /\ (IsTmp(p) \/ vol[p] # NoInode \/ raced[u])
        BY <1>a, <2>1, <3>6 DEF ListInv
      <4>2. CASE p = key
        BY <3>2, <4>1, <4>2
      <4>3. CASE p # key
        <5>1. vol'[p] = vol[p]
          BY <1>a, <3>1, <4>1, <4>3
        <5>2. raced[u] => raced'[u]
          BY <3>2
        <5>3. QED
          BY <4>1, <5>1, <5>2
      <4>4. QED
        BY <4>2, <4>3
    <3>7. ASSUME NEW u \in Threads, req'[u] \in ListReqs, rsp'[u] = "err"
          PROVE  raced'[u]
      <4>1. raced[u]
        BY <2>1, <3>3, <3>7 DEF ListInv
      <4>2. QED
        BY <3>2, <4>1
    <3>8. QED
      BY <3>5, <3>6, <3>7 DEF ListInv
  <2>4. QED
    BY <2>2, <2>3
<1>15. ASSUME NEW t \in Threads, ReadDir(t)
      PROVE  ListInv'
  <2>1. UNCHANGED <<vol, raced, req>>
    BY <1>15 DEF ReadDir
  <2>2. CASE dirs[MyDir(t)] = "absent"
    BY <1>15, <1>a, <1>c, <1>f, <2>2 DEF ReadDir, Steps
  <2>3. CASE dirs[MyDir(t)] # "absent"
    BY <1>15, <1>a, <2>1, <2>3 DEF ReadDir, ListInv
  <2>4. QED
    BY <2>2, <2>3
<1>16. ASSUME NEW t \in Threads, VisitEntry(t)
      PROVE  ListInv'
  <2>1. UNCHANGED <<vol, raced, req>> /\ pc[t] = "scan"
    BY <1>16 DEF VisitEntry
  <2>2. PICK p \in scan[t] :
           \/ /\ EntryFails(p) /\ scan' = [scan EXCEPT ![t] = {}]
              /\ rsp' = [rsp EXCEPT ![t] = "err"] /\ pc' = [pc EXCEPT ![t] = "ret"]
           \/ /\ ~EntryFails(p) /\ scan' = [scan EXCEPT ![t] = scan[t] \ {p}]
              /\ UNCHANGED <<rsp, pc>>
    BY <1>16 DEF VisitEntry
  <2>3. EntryFails(p) => raced[t]
    BY <2>2 DEF EntryFails, ListInv
  <2>4. CASE EntryFails(p)
    BY <1>a, <2>1, <2>2, <2>3, <2>4 DEF ListInv
  <2>5. CASE ~EntryFails(p)
    BY <1>a, <2>1, <2>2, <2>5 DEF ListInv
  <2>6. QED
    BY <2>4, <2>5
<1>17. ASSUME NEW t \in Threads, ListDone(t)
      PROVE  ListInv'
  BY <1>17, <1>a, <1>c DEF ListDone, ListInv
<1>18. ASSUME NEW t \in Threads, GcTick(t)
      PROVE  ListInv'
  <2>1. UNCHANGED <<scan, raced>> /\ pc[t] # "scan" /\ req' = req
    BY <1>18 DEF GcTick
  <2>2. \E step \in Steps : pc' = [pc EXCEPT ![t] = step]
    BY <1>18 DEF GcTick, Steps
  <2>3. \A p \in Paths : ~IsTmp(p) /\ vol[p] # NoInode => vol'[p] # NoInode
    BY <1>18 DEF GcTick
  <2>4. \A u \in Threads : req[u] \in ListReqs /\ rsp'[u] = "err" => rsp[u] = "err"
    BY <1>18, <1>a, <1>b, <1>c, <1>d DEF GcTick
  <2>5. QED
    BY <1>f, <2>1, <2>2, <2>3, <2>4
<1>19. ASSUME NEW t \in Threads, GcSweep(t)
      PROVE  ListInv'
  <2>1. UNCHANGED <<scan, raced>> /\ pc[t] # "scan" /\ req' = req
    BY <1>19 DEF GcSweep
  <2>2. \E step \in Steps : pc' = [pc EXCEPT ![t] = step]
    BY <1>19 DEF GcSweep, Steps
  <2>3. \A p \in Paths : ~IsTmp(p) /\ vol[p] # NoInode => vol'[p] # NoInode
    BY <1>19 DEF GcSweep
  <2>4. \A u \in Threads : req[u] \in ListReqs /\ rsp'[u] = "err" => rsp[u] = "err"
    BY <1>19, <1>a, <1>b, <1>c, <1>d DEF GcSweep
  <2>5. QED
    BY <1>f, <2>1, <2>2, <2>3, <2>4
<1>20. ASSUME NEW t \in Threads, IoError(t)
      PROVE  ListInv'
  BY <1>20 DEF IoError
<1>21. ASSUME NEW t \in Threads, Return(t)
      PROVE  ListInv'
  <2>1. UNCHANGED <<vol, scan>> /\ pc[t] = "ret"
    BY <1>21 DEF Return
  <2>2. /\ pc' = [pc EXCEPT ![t] = "idle"] /\ raced' = [raced EXCEPT ![t] = FALSE]
        /\ req' = [req EXCEPT ![t] = NoReq] /\ rsp' = [rsp EXCEPT ![t] = NoRsp]
    BY <1>21 DEF Return
  <2>3. scan[t] = {}
    BY <2>1 DEF ListInv
  <2>4. \A u \in Threads \ {t} :
           raced'[u] = raced[u] /\ pc'[u] = pc[u] /\ rsp'[u] = rsp[u] /\ req'[u] = req[u]
    BY <1>a, <2>2
  <2>5. pc'[t] = "idle" /\ rsp'[t] # "err"
    BY <1>a, <1>c, <2>2
  <2>6. QED
    BY <2>1, <2>3, <2>4, <2>5 DEF ListInv
<1>22. CASE ProcessCrash \/ PowerLoss
  <2>1. \A t \in Threads : scan'[t] = {} /\ rsp'[t] = NoRsp
    BY <1>22 DEF ProcessCrash, PowerLoss, NewProcess, All
  <2>2. QED
    BY <1>c, <2>1 DEF ListInv
<1>23. CASE KernelWriteback
  <2>1. UNCHANGED vol
    BY <1>23 DEF KernelWriteback, Writeback, WritebackEntries, WritebackFile, WritebackDir,
                    SyncDirectory, SyncFile
  <2>2. QED
    BY <1>23, <2>1 DEF KernelWriteback, ListInv
<1>24. CASE UNCHANGED vars
  BY <1>24 DEF vars, ListInv
<1>25. QED
  BY <1>1, <1>2, <1>3, <1>4, <1>5, <1>6, <1>7, <1>8, <1>9, <1>10, <1>11, <1>12, <1>13,
     <1>14, <1>15, <1>16, <1>17, <1>18, <1>19, <1>20, <1>21, <1>22, <1>23, <1>24 DEF Next,
     Step

\* list fails only when a key that it had found was removed before it looked
\* at it, for any number of threads and keys.  The hypothesis leaves out
\* system calls that fail for reasons of their own.
THEOREM ListFailsOnlyIfRemoved ==
    ASSUME ~IoErrors
    PROVE  Spec => []ListFailsOnlyOnRemove
<1>1. Init => ListInv
  BY ResultAssumption DEF Init, All, ListInv, Answers
<1>2. CallsInv /\ ListInv /\ [Next]_vars => ListInv'
  BY ListStep
<1>3. Spec => []ListInv
  BY <1>1, <1>2, CallsHold, PTL DEF Spec
<1>4. ListInv => ListFailsOnlyOnRemove
  BY DEF ListInv, ListFailsOnlyOnRemove
<1>5. QED
  BY <1>3, <1>4, PTL

-----------------------------------------------------------------------------
(***************************************************************************)
(* The files.                                                              *)
(***************************************************************************)
\* No two paths share a file, in the cache or on the medium.  A cached entry
\* and an entry of the medium share one only if they are of one key, and the
\* file that is still temporary in the cache is no key's on the medium.  A
\* key's file is complete and synced.
DiskInv ==
    /\ \A p, q \in Paths : vol[p] = vol[q] /\ vol[p] # NoInode => p = q
    /\ \A p, q \in Paths : dur[p] = dur[q] /\ dur[p] # NoInode => p = q
    /\ \A p, q \in Paths : vol[p] = dur[q] /\ vol[p] # NoInode
          => p[1] = q[1] /\ (IsTmp(p) => IsTmp(q))
    /\ \A k \in Keys : \A i \in Inodes : i \in {vol[KeyPath(k)], dur[KeyPath(k)]}
          => data[i] = ddata[i] /\ data[i] \in Values

\* The temporary file of a thread that has created it: empty, then with the
\* value to be written, then synced.
HasFile(t) == Numbered(t) /\ pc[t] # "create"

Filed(t) ==
    /\ vol[MyTmp(t)] # NoInode
    /\ pc[t] \in {"fill", "syncTmp"} => handle[t] = vol[MyTmp(t)]
    /\ pc[t] = "fill" => data[vol[MyTmp(t)]] = Empty
    /\ pc[t] # "fill" => data[vol[MyTmp(t)]] = req[t].val
    /\ pc[t] \in {"lock", "acquire", "rename"} => ddata[vol[MyTmp(t)]] = req[t].val

\* A reader reads the file the key names: nobody replaces it meanwhile.
Opened(t) == handle[t] = vol[KeyPath(MyKey(t))]

FileOf(t) == (HasFile(t) => Filed(t)) /\ (pc[t] = "readAll" => Opened(t))

FileInv == \A t \in Threads : FileOf(t)

\* What the files and the calls are known to be, together.
StoreInv == CallsInv /\ DiskInv /\ FileInv

\* The key's own path.
LEMMA KeyPaths ==
    ASSUME NEW k \in Keys
    PROVE  KeyPath(k) \in Paths /\ ~IsTmp(KeyPath(k)) /\ KeyPath(k)[1] = k
BY PathsOfKeys DEF KeyPath, IsTmp

\* The directory of a path is the one of its key.
LEMMA PathDirs ==
    ASSUME NEW p \in Paths
    PROVE  PathDir[p] = DirOf[p[1]] /\ p[1] \in Keys
BY DEF PathDir, Paths

\* No file is numbered 0.
LEMMA NoInodeIsNone == NoInode \notin Inodes
BY StoreAssumption DEF NoInode

\* What a step leaves of the keys.
KeysKept == \A k \in Keys : ValueOf(k)' = ValueOf(k) /\ SurvivingValue(k)' = SurvivingValue(k)

\* A step on a temporary file i at p, which no other path names.
TmpStep(p, i) ==
    /\ IsTmp(p) /\ i \in Inodes
    /\ \A q \in Paths : (vol[q] = i => q = p) /\ (dur[q] = i => IsTmp(q) /\ q[1] = p[1])
    /\ vol' = [vol EXCEPT ![p] = i] /\ UNCHANGED <<dur, dirs>>
    /\ \A j \in Inodes \ {i} : data'[j] = data[j] /\ ddata'[j] = ddata[j]

\* It leaves the keys as they are.
LEMMA TmpStepKeeps ==
    ASSUME FsTypeOK, DiskInv, NEW p \in Paths, NEW i, TmpStep(p, i)
    PROVE  DiskInv' /\ KeysKept
<1>1. \A k \in Keys : /\ vol'[KeyPath(k)] = vol[KeyPath(k)]
                      /\ vol[KeyPath(k)] # i /\ dur[KeyPath(k)] # i
  BY KeyPaths DEF TmpStep, FsTypeOK
<1>2. \A k \in Keys : \A j \in Inodes : j \in {vol[KeyPath(k)], dur[KeyPath(k)]}
         => data'[j] = data[j] /\ ddata'[j] = ddata[j]
  BY <1>1 DEF TmpStep
<1>3. DiskInv'
  <2>1. \A q \in Paths : vol'[q] = IF q = p THEN i ELSE vol[q]
    BY DEF TmpStep, FsTypeOK
  <2>2. i # NoInode
    BY NoInodeIsNone DEF TmpStep
  <2>3. \A q, r \in Paths : vol'[q] = vol'[r] /\ vol'[q] # NoInode => q = r
    BY <2>1, <2>2 DEF TmpStep, DiskInv
  <2>4. \A q, r \in Paths : vol'[q] = dur'[r] /\ vol'[q] # NoInode
           => q[1] = r[1] /\ (IsTmp(q) => IsTmp(r))
    BY <2>1, <2>2 DEF TmpStep, DiskInv
  <2>5. UNCHANGED dur
    BY DEF TmpStep
  <2>6. \A k \in Keys : \A j \in Inodes : j \in {vol'[KeyPath(k)], dur'[KeyPath(k)]}
           => data'[j] = ddata'[j] /\ data'[j] \in Values
    BY <1>1, <1>2, <2>5 DEF DiskInv
  <2>7. QED
    BY <2>3, <2>4, <2>5, <2>6 DEF DiskInv
<1>4. KeysKept
  <2> SUFFICES ASSUME NEW k \in Keys
               PROVE  ValueOf(k)' = ValueOf(k) /\ SurvivingValue(k)' = SurvivingValue(k)
    BY DEF KeysKept
  <2>1. UNCHANGED <<dur, dirs>> /\ vol[KeyPath(k)] \in Inodes \cup {NoInode}
        /\ dur[KeyPath(k)] \in Inodes \cup {NoInode}
    BY KeyPaths DEF TmpStep, FsTypeOK
  <2>2. ValueOf(k)' = ValueOf(k)
    BY <1>1, <1>2, <2>1 DEF ValueOf, Exists
  <2>3. Surviving(KeyPath(k))' = Surviving(KeyPath(k))
    BY <2>1 DEF Surviving
  <2>4. Surviving(KeyPath(k)) \in {NoInode, dur[KeyPath(k)]}
    BY DEF Surviving
  <2>5. SurvivingValue(k)' = SurvivingValue(k)
    BY <1>2, <2>1, <2>3, <2>4 DEF SurvivingValue
  <2>6. QED
    BY <2>2, <2>5
<1>5. QED
  BY <1>3, <1>4

\* Renaming a complete temporary file to its key.
LEMMA RenameKeeps ==
    ASSUME FsTypeOK, DiskInv, NEW k \in Keys, NEW p \in Paths, p[1] = k, IsTmp(p),
           vol[p] # NoInode, data[vol[p]] = ddata[vol[p]], data[vol[p]] \in Values,
           RenameFile(p, KeyPath(k))
    PROVE  /\ DiskInv'
           /\ ValueOf(k)' = data[vol[p]]
           /\ \A j \in Keys \ {k} : ValueOf(j)' = ValueOf(j)
           /\ \A j \in Keys : SurvivingValue(j)' = SurvivingValue(j)
<1>1. \A q \in Paths : vol'[q] = IF q = p THEN NoInode ELSE IF q = KeyPath(k) THEN vol[p] ELSE vol[q]
  BY KeyPaths DEF RenameFile, FsTypeOK
<1>2. UNCHANGED <<dur, data, ddata, dirs>>
  BY DEF RenameFile
<1>3. KeyPath(k) \in Paths /\ p # KeyPath(k) /\ KeyPath(k)[1] = k /\ ~IsTmp(KeyPath(k))
  BY KeyPaths
<1>4. \A j \in Keys \ {k} : KeyPath(j) \in Paths /\ KeyPath(j) # KeyPath(k) /\ KeyPath(j) # p
  BY KeyPaths
<1>5. DiskInv'
  <2>1. \A q, r \in Paths : vol'[q] = vol'[r] /\ vol'[q] # NoInode => q = r
    BY <1>1, <1>3 DEF DiskInv
  <2>2. \A q, r \in Paths : vol'[q] = dur[r] /\ vol'[q] # NoInode
           => q[1] = r[1] /\ (IsTmp(q) => IsTmp(r))
    <3> SUFFICES ASSUME NEW q \in Paths, NEW r \in Paths, vol'[q] = dur[r], vol'[q] # NoInode
                 PROVE  q[1] = r[1] /\ (IsTmp(q) => IsTmp(r))
      OBVIOUS
    <3>1. CASE q = KeyPath(k)
      <4>1. vol[p] = dur[r]
        BY <1>1, <1>3, <3>1
      <4>2. p[1] = r[1]
        BY <4>1 DEF DiskInv
      <4>3. QED
        BY <1>3, <3>1, <4>2
    <3>2. CASE q # KeyPath(k)
      BY <1>1, <3>2 DEF DiskInv
    <3>3. QED
      BY <3>1, <3>2
  <2>3. ASSUME NEW j \in Keys, NEW i \in Inodes, i \in {vol'[KeyPath(j)], dur[KeyPath(j)]}
        PROVE  data[i] = ddata[i] /\ data[i] \in Values
    <3>1. i = vol[p] \/ i \in {vol[KeyPath(j)], dur[KeyPath(j)]}
      BY <1>1, <1>3, <1>4, <2>3
    <3>2. QED
      BY <3>1 DEF DiskInv
  <2>4. QED
    BY <1>2, <2>1, <2>2, <2>3 DEF DiskInv
<1>6. ValueOf(k)' = data[vol[p]]
  BY <1>1, <1>2, <1>3 DEF ValueOf, Exists
<1>7. \A j \in Keys \ {k} : ValueOf(j)' = ValueOf(j)
  BY <1>1, <1>2, <1>4 DEF ValueOf, Exists
<1>8. \A j \in Keys : SurvivingValue(j)' = SurvivingValue(j)
  BY <1>2 DEF SurvivingValue, Surviving
<1>9. QED
  BY <1>5, <1>6, <1>7, <1>8

\* Removing a key's file.
LEMMA UnlinkKeeps ==
    ASSUME FsTypeOK, DiskInv, NEW k \in Keys, UnlinkFile(KeyPath(k))
    PROVE  /\ DiskInv'
           /\ ValueOf(k)' = Missing
           /\ \A j \in Keys \ {k} : ValueOf(j)' = ValueOf(j)
           /\ \A j \in Keys : SurvivingValue(j)' = SurvivingValue(j)
<1>1. \A q \in Paths : vol'[q] = IF q = KeyPath(k) THEN NoInode ELSE vol[q]
  BY KeyPaths DEF UnlinkFile, FsTypeOK
<1>2. UNCHANGED <<dur, data, ddata, dirs>>
  BY DEF UnlinkFile
<1>3. \A j \in Keys : KeyPath(j) \in Paths /\ (j # k => KeyPath(j) # KeyPath(k))
  BY KeyPaths
<1>4. DiskInv'
  <2>1. \A q, r \in Paths : vol'[q] = vol'[r] /\ vol'[q] # NoInode => q = r
    BY <1>1 DEF DiskInv
  <2>2. \A q, r \in Paths : vol'[q] = dur[r] /\ vol'[q] # NoInode
           => q[1] = r[1] /\ (IsTmp(q) => IsTmp(r))
    BY <1>1 DEF DiskInv
  <2>3. \A j \in Keys : \A i \in Inodes : i \in {vol'[KeyPath(j)], dur[KeyPath(j)]}
           => data[i] = ddata[i] /\ data[i] \in Values
    BY <1>1, <1>3, NoInodeIsNone DEF DiskInv
  <2>4. QED
    BY <1>2, <2>1, <2>2, <2>3 DEF DiskInv
<1>5. ValueOf(k)' = Missing
  BY <1>1, <1>3 DEF ValueOf, Exists
<1>6. \A j \in Keys \ {k} : ValueOf(j)' = ValueOf(j)
  BY <1>1, <1>2, <1>3 DEF ValueOf, Exists
<1>7. \A j \in Keys : SurvivingValue(j)' = SurvivingValue(j)
  BY <1>2 DEF SurvivingValue, Surviving
<1>8. QED
  BY <1>4, <1>5, <1>6, <1>7

\* Writing the entries of a directory to the medium.
LEMMA SyncDirectoryKeeps ==
    ASSUME FsTypeOK, DiskInv, NEW d, SyncDirectory(d)
    PROVE  /\ DiskInv'
           /\ \A k \in Keys : ValueOf(k)' = ValueOf(k)
           /\ \A p \in Paths : dur'[p] = IF PathDir[p] = d THEN vol[p] ELSE dur[p]
<1>1. \A p \in Paths : dur'[p] = IF PathDir[p] = d THEN vol[p] ELSE dur[p]
  BY DEF SyncDirectory
<1>2. UNCHANGED <<vol, data, ddata, dirs>>
  BY DEF SyncDirectory
<1>3. \A p, q \in Paths : p[1] = q[1] => PathDir[p] = PathDir[q]
  BY PathDirs
<1>4. \A p, q \in Paths : dur'[p] = dur'[q] /\ dur'[p] # NoInode => p = q
  BY <1>1, <1>3 DEF DiskInv
<1>5. \A p, q \in Paths : vol[p] = dur'[q] /\ vol[p] # NoInode
         => p[1] = q[1] /\ (IsTmp(p) => IsTmp(q))
  BY <1>1 DEF DiskInv
<1>6. \A k \in Keys : dur'[KeyPath(k)] \in {vol[KeyPath(k)], dur[KeyPath(k)]}
  BY <1>1, KeyPaths
<1>7. \A k \in Keys : \A i \in Inodes : i \in {vol[KeyPath(k)], dur'[KeyPath(k)]}
         => data[i] = ddata[i] /\ data[i] \in Values
  BY <1>6 DEF DiskInv
<1>8. DiskInv'
  BY <1>2, <1>4, <1>5, <1>7 DEF DiskInv
<1>9. \A k \in Keys : ValueOf(k)' = ValueOf(k)
  BY <1>2 DEF ValueOf, Exists
<1>10. QED
  BY <1>1, <1>8, <1>9

\* Writing a file's contents to the medium.
LEMMA SyncFileKeeps ==
    ASSUME FsTypeOK, DiskInv, NEW i \in Inodes, SyncFile(i)
    PROVE  DiskInv' /\ KeysKept
<1>1. UNCHANGED <<vol, dur, data, dirs>>
  BY DEF SyncFile
<1>2. \A j \in Inodes : ddata'[j] = IF j = i THEN data[i] ELSE ddata[j]
  BY DEF SyncFile, FsTypeOK
<1>3. \A k \in Keys : \A j \in Inodes : j \in {vol[KeyPath(k)], dur[KeyPath(k)]}
         => ddata'[j] = ddata[j] /\ data[j] = ddata'[j] /\ data[j] \in Values
  BY <1>2 DEF DiskInv
<1>4. DiskInv'
  BY <1>1, <1>3 DEF DiskInv
<1>5. \A k \in Keys : ValueOf(k)' = ValueOf(k)
  BY <1>1 DEF ValueOf, Exists
<1>6. ASSUME NEW k \in Keys
      PROVE  SurvivingValue(k)' = SurvivingValue(k)
  <2>1. Surviving(KeyPath(k)) \in {NoInode, dur[KeyPath(k)]} /\ dur[KeyPath(k)] \in Inodes \cup {NoInode}
    BY KeyPaths DEF Surviving, FsTypeOK
  <2>2. Surviving(KeyPath(k))' = Surviving(KeyPath(k))
    BY <1>1 DEF Surviving
  <2>3. QED
    BY <1>3, <2>1, <2>2 DEF SurvivingValue
<1>7. QED
  BY <1>4, <1>5, <1>6 DEF KeysKept

\* A power loss.
LEMMA LosePowerKeeps ==
    ASSUME FsTypeOK, DiskInv, LosePower
    PROVE  DiskInv' /\ \A k \in Keys : ValueOf(k)' = SurvivingValue(k)
<1>1. \A p \in Paths : vol'[p] = Surviving(p) /\ dur'[p] = Surviving(p)
  BY DEF LosePower
<1>2. \A p \in Paths : Surviving(p) \in {NoInode, dur[p]}
  BY DEF Surviving
<1>3. data' = ddata /\ ddata' = ddata
  BY DEF LosePower
<1>4. \A p, q \in Paths : vol'[p] = vol'[q] /\ vol'[p] # NoInode => p = q
  BY <1>1, <1>2 DEF DiskInv
<1>5. \A k \in Keys : \A i \in Inodes : i \in {vol'[KeyPath(k)], dur'[KeyPath(k)]}
         => data'[i] = ddata'[i] /\ data'[i] \in Values
  BY <1>1, <1>2, <1>3, KeyPaths, NoInodeIsNone DEF DiskInv
<1>6. DiskInv'
  BY <1>1, <1>4, <1>5 DEF DiskInv
<1>7. \A k \in Keys : ValueOf(k)' = SurvivingValue(k)
  BY <1>1, <1>3, KeyPaths DEF ValueOf, Exists, SurvivingValue
<1>8. QED
  BY <1>6, <1>7

\* What a step of thread t changes of the files: entries of its own temporary
\* file and of the key it has the write guard of, and no other file.
Touches(t) ==
    /\ \A p \in Paths : \/ vol'[p] = vol[p]
                        \/ Numbered(t) /\ p = MyTmp(t)
                        \/ guard[t] = "write" /\ p = KeyPath(MyKey(t))
    /\ \A p \in Paths : vol[p] # NoInode /\ ~(Numbered(t) /\ p = MyTmp(t))
          => data'[vol[p]] = data[vol[p]] /\ ddata'[vol[p]] = ddata[vol[p]]

\* The other threads stay where they are.
OthersStay(t) ==
    \A u \in Threads \ {t} :
        pc'[u] = pc[u] /\ req'[u] = req[u] /\ tmp'[u] = tmp[u] /\ handle'[u] = handle[u]

\* Such a step takes no file from another thread: it has a temporary file of
\* another number, and no guard on the key the other one reads.
LEMMA OthersKeep ==
    ASSUME OneStore, StoreInv, NEW t \in Threads, Touches(t), OthersStay(t),
           NEW u \in Threads \ {t}
    PROVE  FileOf(u)'
<1>1. /\ pc'[u] = pc[u] /\ req'[u] = req[u] /\ tmp'[u] = tmp[u] /\ handle'[u] = handle[u]
      /\ FileOf(u) /\ Inv /\ CallsInv
  BY DEF OthersStay, StoreInv, FileInv, CallsInv
<1>2. /\ HasFile(u)' <=> HasFile(u)
      /\ MyTmp(u)' = MyTmp(u) /\ MyKey(u)' = MyKey(u)
  BY <1>1 DEF HasFile, Numbered, MyTmp, MyKey
<1>3. guard[t] = "write" => req[t] \in Requests /\ MyKey(t) \in Keys /\ MyStore(t) \in Stores
  BY <1>1, RequestFields DEF Inv, LockInv, CallInv, GuardedSteps, MyKey, MyStore
<1>4. ASSUME HasFile(u)
      PROVE  Filed(u)'
  <2> DEFINE p == MyTmp(u)
  <2>1. p \in Paths /\ IsTmp(p) /\ Numbered(u)
    BY <1>1, <1>4, MyTmpPath DEF HasFile
  <2>2. Numbered(t) => MyTmp(t) # p
    BY <1>1, <2>1, NumbersDiffer
  <2>3. guard[t] = "write" => p # KeyPath(MyKey(t))
    BY <1>3, <2>1, KeyPaths
  <2>4. vol'[p] = vol[p] /\ vol[p] # NoInode
    BY <1>1, <1>4, <2>1, <2>2, <2>3 DEF Touches, FileOf, Filed
  <2>5. data'[vol[p]] = data[vol[p]] /\ ddata'[vol[p]] = ddata[vol[p]]
    BY <2>1, <2>2, <2>4 DEF Touches
  <2>6. Filed(u)
    BY <1>1, <1>4 DEF FileOf
  <2> HIDE DEF p
  <2>7. MyTmp(u)' = p /\ MyTmp(u) = p
    BY <1>2 DEF p
  <2>8. QED
    BY <1>1, <2>4, <2>5, <2>6, <2>7 DEF Filed
<1>5. ASSUME pc[u] = "readAll"
      PROVE  Opened(u)'
  <2> DEFINE p == KeyPath(MyKey(u))
  <2>1. guard[u] = "read" /\ req[u] \in Requests /\ MyKey(u) \in Keys /\ MyStore(u) \in Stores
    BY <1>1, <1>5, RequestFields DEF CallsInv, KindInv, Inv, CallInv, MyKey, MyStore
  <2>2. p \in Paths /\ ~IsTmp(p)
    BY <2>1, KeyPaths
  <2>3. Numbered(t) => MyTmp(t) # p
    BY <1>1, <2>2, MyTmpPath
  <2>4. guard[t] = "write" => KeyPath(MyKey(t)) # p
    <3>1. SUFFICES ASSUME guard[t] = "write", KeyPath(MyKey(t)) = p
                   PROVE  FALSE
      OBVIOUS
    <3>2. MyKey(t) = MyKey(u)
      BY <1>3, <2>1, <3>1, KeyPaths
    <3>3. MyStore(t) = MyStore(u)
      BY <1>3, <2>1, <3>1 DEF OneStore
    <3>4. SamePath(t, u)
      BY <1>3, <2>1, <3>1, <3>2, <3>3, RequestFields DEF SamePath
    <3>5. guard[u] = "none"
      BY <1>1, <3>1, <3>4, Exclusion DEF MutualExclusion
    <3>6. QED
      BY <2>1, <3>5
  <2>5. vol'[p] = vol[p]
    BY <2>2, <2>3, <2>4 DEF Touches
  <2>6. Opened(u)
    BY <1>1, <1>5 DEF FileOf
  <2>7. QED
    BY <1>1, <1>2, <2>5, <2>6 DEF Opened
<1>6. QED
  BY <1>1, <1>2, <1>4, <1>5 DEF FileOf

\* The steps of write that work on the temporary file: no other path names it.
LEMMA TmpSteps ==
    ASSUME StoreInv, NEW t \in Threads, CreateTmp(t) \/ FillTmp(t) \/ SyncTmp(t)
    PROVE  MyTmp(t) \in Paths /\ Touches(t) /\ \E i \in Inodes : TmpStep(MyTmp(t), i)
<1> DEFINE p == MyTmp(t)
<1>1. Inv /\ FsTypeOK /\ DiskInv /\ FileOf(t)
  BY DEF StoreInv, CallsInv, Inv, TypeOK, FileInv
<1>2. Numbered(t)
  BY <1>1 DEF CreateTmp, FillTmp, SyncTmp, At, Numbered, Inv, CallInv
<1>3. p \in Paths /\ IsTmp(p)
  BY <1>1, <1>2, MyTmpPath
\* The file a path names in the cache is named by no other.
<1>4. ASSUME NEW i \in Inodes, vol[p] = i
      PROVE  /\ \A q \in Paths : (vol[q] = i => q = p) /\ (dur[q] = i => IsTmp(q) /\ q[1] = p[1])
             /\ vol = [vol EXCEPT ![p] = i]
  BY <1>1, <1>3, <1>4, NoInodeIsNone DEF DiskInv, FsTypeOK
<1>5. ASSUME NEW i \in Inodes, TmpStep(p, i)
      PROVE  Touches(t)
  <2>1. \A q \in Paths : vol'[q] = vol[q] \/ q = p
    BY <1>1, <1>5 DEF TmpStep, FsTypeOK
  <2>2. \A q \in Paths : vol[q] # NoInode /\ q # p => vol[q] \in Inodes \ {i}
    BY <1>1, <1>5 DEF TmpStep, FsTypeOK
  <2>3. QED
    BY <1>2, <1>5, <2>1, <2>2 DEF TmpStep, Touches
<1>6. CASE CreateTmp(t)
  <2>1. PICK i \in Inodes :
           /\ OpenTruncate(p, i)
           /\ \/ vol[p] = i
              \/ vol[p] = NoInode /\ i \in FreeInodes(OpenInodes)
    BY <1>1, <1>6, CreateEffect
  <2>2. \A q \in Paths : (vol[q] = i => q = p) /\ (dur[q] = i => IsTmp(q) /\ q[1] = p[1])
    BY <1>4, <2>1 DEF FreeInodes
  <2>3. \A j \in Inodes \ {i} : data'[j] = data[j] /\ ddata'[j] = ddata[j]
    BY <1>1, <2>1 DEF OpenTruncate, FsTypeOK
  <2>4. TmpStep(p, i)
    BY <1>3, <2>1, <2>2, <2>3 DEF TmpStep, OpenTruncate
  <2>5. QED
    BY <1>3, <1>5, <2>4
<1>7. CASE FillTmp(t) \/ SyncTmp(t)
  <2> DEFINE i == handle[t]
  <2>1. pc[t] \in {"fill", "syncTmp"}
    BY <1>7 DEF FillTmp, SyncTmp, At
  <2>2. i \in Inodes /\ vol[p] = i
    BY <1>1, <1>2, <2>1 DEF FileOf, HasFile, Filed, Inv, CallInv
  <2>3. /\ vol' = vol /\ UNCHANGED <<dur, dirs>>
        /\ \A j \in Inodes \ {i} : data'[j] = data[j] /\ ddata'[j] = ddata[j]
    BY <1>1, <1>7 DEF FillTmp, SyncTmp, WriteFile, SyncFile, FsTypeOK
  <2> HIDE DEF i
  <2>4. TmpStep(p, i)
    BY <1>3, <1>4, <2>2, <2>3 DEF TmpStep
  <2>5. QED
    BY <1>3, <1>5, <2>2, <2>4
<1>8. QED
  BY <1>6, <1>7

\* A rename finds its temporary file, complete and synced.
LEMMA RenameReady ==
    ASSUME StoreInv, NEW t \in Threads, RenameTmp(t)
    PROVE  /\ MyKey(t) \in Keys /\ MyTmp(t) \in Paths /\ MyTmp(t)[1] = MyKey(t)
           /\ IsTmp(MyTmp(t)) /\ Exists(MyTmp(t)) /\ vol[MyTmp(t)] # NoInode
           /\ req[t] \in WriteReqs /\ req[t].val \in Values
           /\ data[vol[MyTmp(t)]] = req[t].val /\ ddata[vol[MyTmp(t)]] = req[t].val
           /\ RenameFile(MyTmp(t), KeyPath(MyKey(t)))
           /\ Numbered(t) /\ guard[t] = "write"
<1>1. Inv /\ FileOf(t) /\ pc[t] = "rename" /\ req[t] \in WriteReqs
  BY DEF StoreInv, CallsInv, FileInv, RenameTmp, At, Inv, CallInv
<1>2. guard[t] = "write"
  BY <1>1 DEF StoreInv, CallsInv, KindInv
<1>3. Numbered(t) /\ HasFile(t)
  BY <1>1 DEF Numbered, HasFile
<1>4. Filed(t)
  BY <1>1, <1>3 DEF FileOf
<1>5. Exists(MyTmp(t)) /\ vol[MyTmp(t)] # NoInode
  BY <1>4 DEF Filed, Exists
<1>6. RenameFile(MyTmp(t), KeyPath(MyKey(t)))
  BY <1>5 DEF RenameTmp
<1>7. req[t].val \in Values
  BY <1>1 DEF WriteReqs
<1>8. QED
  BY <1>1, <1>2, <1>3, <1>4, <1>5, <1>6, <1>7, MyTmpPath DEF Filed

\* What remove unlinks.
LEMMA UnlinkReady ==
    ASSUME StoreInv, NEW t \in Threads, UnlinkKey(t)
    PROVE  /\ MyKey(t) \in Keys /\ req[t] \in RemoveReqs /\ guard[t] = "write"
           /\ Exists(KeyPath(MyKey(t))) => UnlinkFile(KeyPath(MyKey(t)))
           /\ ~Exists(KeyPath(MyKey(t))) => UNCHANGED fsvars
<1>1. pc[t] = "unlink" /\ Inv
  BY DEF UnlinkKey, At, StoreInv, CallsInv
<1>2. req[t] \in RemoveReqs /\ guard[t] = "write"
  BY <1>1 DEF Inv, CallInv, StoreInv, CallsInv, KindInv
<1>3. MyKey(t) \in Keys
  BY <1>2 DEF RemoveReqs, MyKey
<1>4. QED
  BY <1>2, <1>3 DEF UnlinkKey

\* Every step keeps the files in order.
LEMMA FileStep ==
    ASSUME OneStore, StoreInv, [Next]_vars
    PROVE  DiskInv' /\ FileInv'
<1> USE DEF fsvars, lockvars, counters, hist, At, Goto, Respond, Unlock
<1>a. /\ pc \in [Threads -> Steps] /\ req \in [Threads -> Requests \cup {NoReq}]
      /\ tmp \in [Threads -> 0..MaxWrites] /\ handle \in [Threads -> Inodes \cup {NoInode}]
      /\ FsTypeOK /\ DiskInv /\ Inv
  BY DEF StoreInv, CallsInv, Inv, TypeOK, CallTypeOK
<1>b. \A t \in Threads :
         /\ FileOf(t)
         /\ pc[t] \in {"mkdir", "create", "fill", "syncTmp", "rename"} => req[t] \in WriteReqs
         /\ pc[t] \in {"isFile", "unlink"} => req[t] \in RemoveReqs
  BY <1>a DEF Inv, CallInv, StoreInv, FileInv
\* A step of t after which t's own file is in order.
<1>f. ASSUME NEW t \in Threads, Touches(t), OthersStay(t), FileOf(t)'
      PROVE  FileInv'
  BY <1>f, OthersKeep DEF FileInv
\* A step of t that leaves the files alone.
<1>g. ASSUME NEW t \in Threads, UNCHANGED <<vol, dur, data, ddata>>, OthersStay(t), FileOf(t)'
      PROVE  DiskInv' /\ FileInv'
  <2>1. Touches(t)
    BY <1>g DEF Touches
  <2>2. DiskInv'
    BY <1>a, <1>g DEF DiskInv
  <2>3. QED
    BY <1>f, <1>g, <2>1, <2>2
<1>1. ASSUME NEW t \in Threads, Call(t)
      PROVE  DiskInv' /\ FileInv'
  <2>1. PICK r \in Requests, step \in {"lock", "mkdir", "isFile", "readDir", "refuse"} :
           /\ req' = [req EXCEPT ![t] = r] /\ pc' = [pc EXCEPT ![t] = step]
           /\ step = "lock" => r \in ReadReqs
    BY <1>1, CallEffect
  <2>2. FileOf(t)'
    BY <1>a, <2>1 DEF FileOf, HasFile, Numbered, ReadReqs, WriteReqs
  <2>3. UNCHANGED <<vol, dur, data, ddata, tmp, handle>>
    BY <1>1 DEF Call
  <2>4. OthersStay(t)
    BY <1>a, <2>1, <2>3 DEF OthersStay
  <2>5. QED
    BY <1>g, <2>2, <2>3, <2>4
<1>2. ASSUME NEW t \in Threads, Refuse(t)
      PROVE  DiskInv' /\ FileInv'
  <2>1. UNCHANGED <<vol, dur, data, ddata>>
    BY <1>2 DEF Refuse
  <2>2. OthersStay(t)
    BY <1>2, <1>a DEF Refuse, EarlyReturn, OthersStay
  <2>3. FileOf(t)'
    BY <1>2, <1>a DEF Refuse, EarlyReturn, FileOf, HasFile, Numbered
  <2>4. QED
    BY <1>g, <2>1, <2>2, <2>3
<1>3. ASSUME NEW t \in Threads, MakeParent(t)
      PROVE  DiskInv' /\ FileInv'
  <2>1. UNCHANGED <<vol, dur, data, ddata>>
    BY <1>3 DEF MakeParent, MakeDir
  <2>2. OthersStay(t)
    BY <1>3, <1>a DEF MakeParent, OthersStay
  <2>3. FileOf(t)'
    BY <1>3, <1>a DEF MakeParent, FileOf, HasFile, Numbered
  <2>4. QED
    BY <1>g, <2>1, <2>2, <2>3
<1>4. ASSUME NEW t \in Threads, CreateTmp(t)
      PROVE  DiskInv' /\ FileInv'
  <2>2. OthersStay(t)
    <3>1. \E i : handle' = [handle EXCEPT ![t] = i]
      BY <1>4 DEF CreateTmp
    <3>2. QED
      BY <1>4, <1>a, <3>1 DEF CreateTmp, OthersStay
  <2>3. MyTmp(t) \in Paths /\ Touches(t) /\ \E i \in Inodes : TmpStep(MyTmp(t), i)
    BY <1>4, TmpSteps
  <2>4. DiskInv'
    BY <1>a, <2>3, TmpStepKeeps
  <2>5. FileOf(t)'
    <3>1. PICK i \in Inodes :
             OpenTruncate(MyTmp(t), i) /\ handle' = [handle EXCEPT ![t] = i]
      BY <1>4, <1>a, CreateEffect
    <3>2. MyTmp(t)' = MyTmp(t) /\ pc'[t] = "fill"
      BY <1>4, <1>a DEF CreateTmp, MyTmp, MyKey
    <3>3. vol'[MyTmp(t)] = i /\ data'[i] = Empty /\ handle'[t] = i
      BY <1>a, <2>3, <3>1 DEF OpenTruncate, FsTypeOK
    <3> HIDE DEF CreateTmp
    <3>4. QED
      BY <3>2, <3>3, NoInodeIsNone DEF FileOf, HasFile, Filed
  <2>6. QED
    BY <1>f, <2>2, <2>3, <2>4, <2>5
<1>5. ASSUME NEW t \in Threads, FillTmp(t)
      PROVE  DiskInv' /\ FileInv'
  <2>2. OthersStay(t)
    BY <1>5, <1>a DEF FillTmp, OthersStay
  <2>3. MyTmp(t) \in Paths /\ Touches(t) /\ \E i \in Inodes : TmpStep(MyTmp(t), i)
    BY <1>5, TmpSteps
  <2>4. DiskInv'
    BY <1>a, <2>3, TmpStepKeeps
  <2>5. FileOf(t)'
    <3> DEFINE i == handle[t]
    <3>1. Numbered(t) /\ Filed(t) /\ i \in Inodes
      BY <1>5, <1>a, <1>b DEF FillTmp, FileOf, HasFile, Numbered, Inv, CallInv
    <3>2. MyTmp(t)' = MyTmp(t) /\ req' = req /\ vol' = vol
      BY <1>5 DEF FillTmp, MyTmp, MyKey, WriteFile
    <3>3. vol[MyTmp(t)] = i /\ data[i] = Empty /\ pc'[t] = "syncTmp" /\ handle' = handle
      BY <1>5, <1>a, <3>1 DEF FillTmp, Filed
    <3>4. data' = [data EXCEPT ![i] = req[t].val]
      BY <1>5, <3>3 DEF FillTmp, WriteFile
    <3>5. data'[i] = req[t].val
      BY <1>a, <3>1, <3>4 DEF FsTypeOK
    <3> HIDE DEF i
    <3>6. Filed(t)'
      BY <3>1, <3>2, <3>3, <3>5, NoInodeIsNone DEF Filed, i
    <3>7. QED
      BY <3>3, <3>6 DEF FileOf
  <2>6. QED
    BY <1>f, <2>2, <2>3, <2>4, <2>5
<1>6. ASSUME NEW t \in Threads, SyncTmp(t)
      PROVE  DiskInv' /\ FileInv'
  <2>2. OthersStay(t)
    BY <1>6, <1>a DEF SyncTmp, OthersStay
  <2>3. MyTmp(t) \in Paths /\ Touches(t) /\ \E i \in Inodes : TmpStep(MyTmp(t), i)
    BY <1>6, TmpSteps
  <2>4. DiskInv'
    BY <1>a, <2>3, TmpStepKeeps
  <2>5. FileOf(t)'
    <3> DEFINE i == handle[t]
    <3>1. Numbered(t) /\ Filed(t) /\ i \in Inodes
      BY <1>6, <1>a, <1>b DEF SyncTmp, FileOf, HasFile, Numbered, Inv, CallInv
    <3>2. MyTmp(t)' = MyTmp(t) /\ req' = req /\ vol' = vol
      BY <1>6 DEF SyncTmp, MyTmp, MyKey, SyncFile
    <3>3. vol[MyTmp(t)] = i /\ data[i] = req[t].val /\ pc'[t] = "lock" /\ data' = data
      BY <1>6, <1>a, <3>1 DEF SyncTmp, SyncFile, Filed
    <3>4. ddata' = [ddata EXCEPT ![i] = data[i]]
      BY <1>6 DEF SyncTmp, SyncFile
    <3>5. ddata'[i] = req[t].val
      BY <1>a, <3>1, <3>3, <3>4 DEF FsTypeOK
    <3> HIDE DEF i
    <3>6. Filed(t)'
      BY <3>1, <3>2, <3>3, <3>5, NoInodeIsNone DEF Filed
    <3>7. QED
      BY <3>3, <3>6 DEF FileOf
  <2>6. QED
    BY <1>f, <2>2, <2>3, <2>4, <2>5
<1>7. ASSUME NEW t \in Threads, GetLock(t)
      PROVE  DiskInv' /\ FileInv'
  <2>1. UNCHANGED <<vol, dur, data, ddata>>
    BY <1>7 DEF GetLock
  <2>2. OthersStay(t)
    BY <1>7, <1>a DEF GetLock, OthersStay
  <2>3. FileOf(t)'
    <3>1. /\ UNCHANGED <<req, tmp>> /\ FileOf(t) /\ pc[t] \in {"lock", "acquire"}
          /\ pc'[t] \in {"acquire", "open", "rename", "unlink"}
      BY <1>7, <1>a, <1>b DEF GetLock
    <3>2. HasFile(t)' => HasFile(t)
      BY <3>1 DEF HasFile, Numbered
    <3>3. HasFile(t)' => Filed(t)'
      BY <2>1, <3>1, <3>2 DEF FileOf, Filed, MyTmp, MyKey
    <3>4. QED
      BY <3>1, <3>3 DEF FileOf
  <2>4. QED
    BY <1>g, <2>1, <2>2, <2>3
<1>8. ASSUME NEW t \in Threads, Acquire(t)
      PROVE  DiskInv' /\ FileInv'
  <2>1. UNCHANGED <<vol, dur, data, ddata>>
    BY <1>8 DEF Acquire
  <2>2. OthersStay(t)
    BY <1>8, <1>a DEF Acquire, OthersStay
  <2>3. FileOf(t)'
    <3>1. /\ UNCHANGED <<req, tmp>> /\ FileOf(t) /\ pc[t] \in {"lock", "acquire"}
          /\ pc'[t] \in {"acquire", "open", "rename", "unlink"}
      BY <1>8, <1>a, <1>b DEF Acquire
    <3>2. HasFile(t)' => HasFile(t)
      BY <3>1 DEF HasFile, Numbered
    <3>3. HasFile(t)' => Filed(t)'
      BY <2>1, <3>1, <3>2 DEF FileOf, Filed, MyTmp, MyKey
    <3>4. QED
      BY <3>1, <3>3 DEF FileOf
  <2>4. QED
    BY <1>g, <2>1, <2>2, <2>3
<1>9. ASSUME NEW t \in Threads, OpenKey(t)
      PROVE  DiskInv' /\ FileInv'
  <2>1. UNCHANGED <<vol, dur, data, ddata>>
    BY <1>9 DEF OpenKey
  <2>2. OthersStay(t)
    BY <1>9, <1>a DEF OpenKey, EarlyReturn, OthersStay
  <2>3. FileOf(t)'
    BY <1>9, <1>a, <1>b DEF OpenKey, EarlyReturn, FileOf, HasFile, Numbered, Opened, MyKey
  <2>4. QED
    BY <1>g, <2>1, <2>2, <2>3
<1>10. ASSUME NEW t \in Threads, ReadAll(t)
      PROVE  DiskInv' /\ FileInv'
  <2>1. UNCHANGED <<vol, dur, data, ddata>>
    BY <1>10 DEF ReadAll
  <2>2. OthersStay(t)
    BY <1>10, <1>a DEF ReadAll, OthersStay
  <2>3. FileOf(t)'
    BY <1>10, <1>a DEF ReadAll, FileOf, HasFile, Numbered
  <2>4. QED
    BY <1>g, <2>1, <2>2, <2>3
<1>11. ASSUME NEW t \in Threads, RenameTmp(t)
      PROVE  DiskInv' /\ FileInv'
  <2>2. OthersStay(t)
    BY <1>11, <1>a DEF RenameTmp, EarlyReturn, OthersStay
  <2>3. /\ MyKey(t) \in Keys /\ MyTmp(t) \in Paths /\ MyTmp(t)[1] = MyKey(t) /\ IsTmp(MyTmp(t))
        /\ vol[MyTmp(t)] # NoInode /\ Numbered(t) /\ guard[t] = "write"
        /\ data[vol[MyTmp(t)]] = ddata[vol[MyTmp(t)]] /\ data[vol[MyTmp(t)]] \in Values
        /\ RenameFile(MyTmp(t), KeyPath(MyKey(t)))
    BY <1>11, RenameReady
  <2>4. DiskInv'
    BY <1>a, <2>3, RenameKeeps
  <2>5. Touches(t)
    BY <1>a, <2>3 DEF Touches, RenameFile, FsTypeOK
  <2>6. FileOf(t)'
    BY <1>11, <1>a DEF RenameTmp, EarlyReturn, FileOf, HasFile, Numbered
  <2>7. QED
    BY <1>f, <2>2, <2>4, <2>5, <2>6
<1>12. ASSUME NEW t \in Threads, SyncParent(t)
      PROVE  DiskInv' /\ FileInv'
  <2>2. OthersStay(t)
    BY <1>12, <1>a DEF SyncParent, OthersStay
  <2>3. SyncDirectory(MyDir(t))
    BY <1>12 DEF SyncParent
  <2>4. DiskInv'
    BY <1>a, <2>3, SyncDirectoryKeeps
  <2>5. Touches(t)
    BY <2>3 DEF Touches, SyncDirectory
  <2>6. FileOf(t)'
    BY <1>12, <1>a DEF SyncParent, FileOf, HasFile, Numbered
  <2>7. QED
    BY <1>f, <2>2, <2>4, <2>5, <2>6
<1>13. ASSUME NEW t \in Threads, IsFile(t)
      PROVE  DiskInv' /\ FileInv'
  <2>1. UNCHANGED <<vol, dur, data, ddata>>
    BY <1>13 DEF IsFile
  <2>2. OthersStay(t)
    BY <1>13, <1>a DEF IsFile, EarlyReturn, OthersStay
  <2>3. FileOf(t)'
    BY <1>13, <1>a, <1>b DEF IsFile, EarlyReturn, FileOf, HasFile, Numbered, WriteReqs,
       RemoveReqs
  <2>4. QED
    BY <1>g, <2>1, <2>2, <2>3
<1>14. ASSUME NEW t \in Threads, UnlinkKey(t)
      PROVE  DiskInv' /\ FileInv'
  <2>2. OthersStay(t)
    BY <1>14, <1>a DEF UnlinkKey, EarlyReturn, OthersStay
  <2>3. FileOf(t)'
    BY <1>14, <1>a DEF UnlinkKey, EarlyReturn, FileOf, HasFile, Numbered
  <2>4. /\ MyKey(t) \in Keys /\ guard[t] = "write"
        /\ Exists(KeyPath(MyKey(t))) => UnlinkFile(KeyPath(MyKey(t)))
        /\ ~Exists(KeyPath(MyKey(t))) => UNCHANGED <<vol, dur, data, ddata>>
    BY <1>14, UnlinkReady
  <2>5. CASE Exists(KeyPath(MyKey(t)))
    <3>1. DiskInv'
      BY <1>a, <2>4, <2>5, UnlinkKeeps
    <3>2. Touches(t)
      BY <1>a, <2>4, <2>5 DEF Touches, UnlinkFile, FsTypeOK
    <3>3. QED
      BY <1>f, <2>2, <2>3, <3>1, <3>2
  <2>6. CASE ~Exists(KeyPath(MyKey(t)))
    BY <1>g, <2>2, <2>3, <2>4, <2>6
  <2>7. QED
    BY <2>5, <2>6
<1>15. ASSUME NEW t \in Threads, ReadDir(t)
      PROVE  DiskInv' /\ FileInv'
  <2>1. UNCHANGED <<vol, dur, data, ddata>>
    BY <1>15 DEF ReadDir
  <2>2. OthersStay(t)
    BY <1>15, <1>a DEF ReadDir, OthersStay
  <2>3. FileOf(t)'
    BY <1>15, <1>a DEF ReadDir, FileOf, HasFile, Numbered
  <2>4. QED
    BY <1>g, <2>1, <2>2, <2>3
<1>16. ASSUME NEW t \in Threads, VisitEntry(t)
      PROVE  DiskInv' /\ FileInv'
  <2>1. UNCHANGED <<vol, dur, data, ddata>>
    BY <1>16 DEF VisitEntry
  <2>2. OthersStay(t)
    BY <1>16, <1>a DEF VisitEntry, OthersStay
  <2>3. FileOf(t)'
    <3>1. pc'[t] \in {"ret", "scan"}
      BY <1>16, <1>a DEF VisitEntry
    <3>2. QED
      BY <3>1 DEF FileOf, HasFile, Numbered
  <2>4. QED
    BY <1>g, <2>1, <2>2, <2>3
<1>17. ASSUME NEW t \in Threads, ListDone(t)
      PROVE  DiskInv' /\ FileInv'
  <2>1. UNCHANGED <<vol, dur, data, ddata>>
    BY <1>17 DEF ListDone
  <2>2. OthersStay(t)
    BY <1>17, <1>a DEF ListDone, OthersStay
  <2>3. FileOf(t)'
    BY <1>17, <1>a DEF ListDone, FileOf, HasFile, Numbered
  <2>4. QED
    BY <1>g, <2>1, <2>2, <2>3
<1>18. ASSUME NEW t \in Threads, GcTick(t)
      PROVE  DiskInv' /\ FileInv'
  <2>1. UNCHANGED <<vol, dur, data, ddata>>
    BY <1>18 DEF GcTick
  <2>2. OthersStay(t)
    BY <1>18, <1>a DEF GcTick, OthersStay
  <2>3. FileOf(t)'
    BY <1>18, <1>a DEF GcTick, FileOf, HasFile, Numbered
  <2>4. QED
    BY <1>g, <2>1, <2>2, <2>3
<1>19. ASSUME NEW t \in Threads, GcSweep(t)
      PROVE  DiskInv' /\ FileInv'
  <2>1. UNCHANGED <<vol, dur, data, ddata>>
    BY <1>19 DEF GcSweep
  <2>2. OthersStay(t)
    BY <1>19, <1>a DEF GcSweep, OthersStay
  <2>3. FileOf(t)'
    BY <1>19, <1>a DEF GcSweep, FileOf, HasFile, Numbered
  <2>4. QED
    BY <1>g, <2>1, <2>2, <2>3
<1>20. ASSUME NEW t \in Threads, IoError(t)
      PROVE  DiskInv' /\ FileInv'
  <2>1. UNCHANGED <<vol, dur, data, ddata>>
    BY <1>20 DEF IoError
  <2>2. OthersStay(t)
    BY <1>20, <1>a DEF IoError, EarlyReturn, OthersStay
  <2>3. FileOf(t)'
    BY <1>20, <1>a DEF IoError, EarlyReturn, FileOf, HasFile, Numbered
  <2>4. QED
    BY <1>g, <2>1, <2>2, <2>3
<1>21. ASSUME NEW t \in Threads, Return(t)
      PROVE  DiskInv' /\ FileInv'
  <2>1. UNCHANGED <<vol, dur, data, ddata>>
    BY <1>21 DEF Return
  <2>2. OthersStay(t)
    BY <1>21, <1>a DEF Return, OthersStay
  <2>3. FileOf(t)'
    BY <1>21, <1>a DEF Return, FileOf, HasFile, Numbered
  <2>4. QED
    BY <1>g, <2>1, <2>2, <2>3
<1>22. CASE ProcessCrash \/ PowerLoss
  <2>1. \A t \in Threads : pc'[t] = "idle"
    BY <1>22 DEF ProcessCrash, PowerLoss, NewProcess, All
  <2>2. FileInv'
    BY <2>1 DEF FileInv, FileOf, HasFile, Numbered
  <2>3. CASE ProcessCrash
    BY <1>a, <2>2, <2>3 DEF ProcessCrash, DiskInv
  <2>4. CASE PowerLoss
    BY <1>a, <2>2, <2>4, LosePowerKeeps DEF PowerLoss
  <2>5. QED
    BY <1>22, <2>3, <2>4
<1>23. CASE KernelWriteback
  <2>1. UNCHANGED <<vol, data, pc, req, tmp, handle>>
    BY <1>23 DEF KernelWriteback, Writeback, WritebackEntries, WritebackFile, WritebackDir,
                    SyncDirectory, SyncFile
  <2>2. \/ \E d \in Dirs : SyncDirectory(d)
        \/ \E i \in Inodes : SyncFile(i)
        \/ UNCHANGED <<vol, dur, data, ddata>>
    BY <1>23, <1>a DEF KernelWriteback, Writeback, WritebackEntries, WritebackFile, WritebackDir,
                    FsTypeOK
  <2>3. DiskInv'
    <3>1. CASE \E d \in Dirs : SyncDirectory(d)
      BY <1>a, <3>1, SyncDirectoryKeeps
    <3>2. CASE \E i \in Inodes : SyncFile(i)
      BY <1>a, <3>2, SyncFileKeeps
    <3>3. CASE UNCHANGED <<vol, dur, data, ddata>>
      BY <1>a, <3>3 DEF DiskInv
    <3>4. QED
      BY <2>2, <3>1, <3>2, <3>3
  <2>4. \A j \in Inodes : ddata'[j] \in {ddata[j], data[j]}
    BY <1>a, <2>2 DEF SyncDirectory, SyncFile, FsTypeOK
  <2>5. ASSUME NEW t \in Threads
        PROVE  FileOf(t)'
    <3>1. FileOf(t) /\ (HasFile(t)' <=> HasFile(t)) /\ (Opened(t)' <=> Opened(t))
      BY <1>b, <2>1 DEF HasFile, Numbered, Opened, MyKey
    <3>2. ASSUME HasFile(t)
          PROVE  Filed(t)'
      <4> DEFINE i == vol[MyTmp(t)]
      <4>1. Numbered(t) /\ Filed(t)
        BY <3>1, <3>2 DEF FileOf, HasFile
      <4>2. i \in Inodes
        BY <1>a, <4>1, MyTmpPath DEF Filed, FsTypeOK
      <4>3. MyTmp(t)' = MyTmp(t)
        BY <2>1 DEF MyTmp, MyKey
      <4>4. ddata'[i] \in {ddata[i], data[i]}
        BY <2>4, <4>2
      <4>5. QED
        BY <2>1, <4>1, <4>3, <4>4 DEF Filed
    <3>3. QED
      BY <2>1, <3>1, <3>2 DEF FileOf
  <2>6. QED
    BY <2>3, <2>5 DEF FileInv
<1>24. CASE UNCHANGED vars
  <2>1. UNCHANGED <<vol, dur, data, ddata, pc, req, tmp, handle>>
    BY <1>24 DEF vars
  <2>2. DiskInv'
    BY <1>a, <2>1 DEF DiskInv
  <2>3. FileInv'
    BY <1>b, <2>1 DEF FileInv, FileOf, HasFile, Numbered, Filed, Opened, MyTmp, MyKey
  <2>4. QED
    BY <2>2, <2>3
<1>25. QED
  BY <1>1, <1>2, <1>3, <1>4, <1>5, <1>6, <1>7, <1>8, <1>9, <1>10, <1>11, <1>12, <1>13,
     <1>14, <1>15, <1>16, <1>17, <1>18, <1>19, <1>20, <1>21, <1>22, <1>23, <1>24 DEF Next,
     Step

\* The files are in order in every reachable state.
LEMMA FilesHold ==
    ASSUME OneStore
    PROVE  Spec => []StoreInv
<1>1. Init => DiskInv /\ FileInv
  <2> SUFFICES ASSUME Init
               PROVE  DiskInv /\ FileInv
    OBVIOUS
  <2>1. \A p \in Paths : vol[p] = NoInode /\ dur[p] = NoInode
    BY DEF Init, FsInit
  <2>2. DiskInv
    BY <2>1, KeyPaths, NoInodeIsNone DEF DiskInv
  <2>3. FileInv
    BY DEF Init, All, FileInv, FileOf, HasFile, Numbered
  <2>4. QED
    BY <2>2, <2>3
<1>2. CallsInv /\ DiskInv /\ FileInv /\ [Next]_vars => DiskInv' /\ FileInv'
  BY FileStep DEF StoreInv
<1>3. Spec => [](CallsInv /\ DiskInv /\ FileInv)
  BY <1>1, <1>2, CallsHold, PTL DEF Spec
<1>4. QED
  BY <1>3, PTL DEF StoreInv

\* With one store no key is ever seen partly written, for any number of
\* threads, keys and values: fs_two_stores shows that two stores on one
\* directory break this.
THEOREM FilesComplete ==
    ASSUME OneStore
    PROVE  Spec => []CompleteFiles
<1>1. StoreInv => CompleteFiles
  <2> SUFFICES ASSUME StoreInv, NEW k \in Keys
               PROVE  ValueOf(k) \in Values \cup {Missing}
    BY DEF CompleteFiles
  <2>1. vol[KeyPath(k)] \in Inodes \cup {NoInode}
    BY KeyPaths DEF StoreInv, CallsInv, Inv, TypeOK, FsTypeOK
  <2>2. QED
    BY <2>1 DEF ValueOf, Exists, StoreInv, DiskInv
<1>2. QED
  BY <1>1, FilesHold, PTL

-----------------------------------------------------------------------------
(***************************************************************************)
(* Power losses.                                                           *)
(***************************************************************************)
\* The store does not sync the parent of a directory it makes, so what follows
\* is about directories that exist before the first write.
DirsPresent == Dirs \subseteq PresentDirs

\* The value of a key, and the one a power loss would leave, are among those
\* that the calls have made possible.
DurableInv ==
    /\ \A d \in Dirs : dirs[d] = "durable"
    /\ \A k \in Keys : ValueOf(k) \in survive[k] /\ SurvivingValue(k) \in survive[k]

\* The steps of a thread other than those that apply or commit a change.
QuietStep(t) ==
    \/ Call(t) \/ Refuse(t) \/ MakeParent(t) \/ CreateTmp(t) \/ FillTmp(t) \/ SyncTmp(t)
    \/ GetLock(t) \/ Acquire(t) \/ OpenKey(t) \/ ReadAll(t) \/ IsFile(t)
    \/ ReadDir(t) \/ VisitEntry(t) \/ ListDone(t)
    \/ GcTick(t) \/ GcSweep(t) \/ IoError(t) \/ Return(t)

\* They leave every key, and what would be left of it, as it is.
LEMMA QuietSteps ==
    ASSUME StoreInv, DurableInv, NEW t \in Threads, QuietStep(t)
    PROVE  KeysKept /\ UNCHANGED <<dirs, survive>>
<1>1. UNCHANGED survive
  BY DEF QuietStep, Call, Refuse, MakeParent, CreateTmp, FillTmp, SyncTmp, GetLock, Acquire, OpenKey,
         ReadAll, IsFile, ReadDir, VisitEntry, ListDone, GcTick, GcSweep, IoError, Return, hist
<1>2. FsTypeOK /\ DiskInv
  BY DEF StoreInv, CallsInv, Inv, TypeOK
<1>3. CASE CreateTmp(t) \/ FillTmp(t) \/ SyncTmp(t)
  <2>1. PICK i \in Inodes : MyTmp(t) \in Paths /\ TmpStep(MyTmp(t), i)
    BY <1>3, TmpSteps
  <2>2. UNCHANGED dirs
    BY <2>1 DEF TmpStep
  <2>3. QED
    BY <1>1, <1>2, <2>1, <2>2, TmpStepKeeps
<1>4. CASE MakeParent(t)
  <2>1. UNCHANGED <<vol, dur, data, ddata>>
    BY <1>4 DEF MakeParent, MakeDir
  <2>2. UNCHANGED dirs
    <3>1. pc[t] = "mkdir" /\ req[t] \in Requests
      BY <1>4 DEF MakeParent, At, StoreInv, CallsInv, Inv, CallInv
    <3>2. MyDir(t) \in Dirs
      BY <3>1, RequestFields, StoreAssumption DEF MyDir
    <3>3. dirs' = [dirs EXCEPT ![MyDir(t)] = dirs[MyDir(t)]]
      BY <1>4, <3>2 DEF MakeParent, MakeDir, DurableInv
    <3>4. QED
      BY <1>2, <3>2, <3>3 DEF FsTypeOK
  <2>3. QED
    BY <1>1, <2>1, <2>2 DEF KeysKept, ValueOf, Exists, SurvivingValue, Surviving
<1>5. CASE ~(CreateTmp(t) \/ FillTmp(t) \/ SyncTmp(t)) /\ ~MakeParent(t)
  <2>1. UNCHANGED fsvars
    BY <1>5 DEF QuietStep, Call, Refuse, GetLock, Acquire, OpenKey, ReadAll, IsFile, ReadDir,
                VisitEntry, ListDone, GcTick, GcSweep, IoError, Return
  <2>2. QED
    BY <1>1, <2>1 DEF fsvars, KeysKept, ValueOf, Exists, SurvivingValue, Surviving
<1>6. QED
  BY <1>3, <1>4, <1>5

\* The entries of a directory on the medium: of each key what was there or
\* what is, and what is of the keys in it.
LEMMA SyncedKeys ==
    ASSUME FsTypeOK, DiskInv, NEW d \in Dirs, dirs[d] = "durable", SyncDirectory(d)
    PROVE  \A k \in Keys : /\ ValueOf(k)' = ValueOf(k)
                           /\ SurvivingValue(k)' \in {SurvivingValue(k), ValueOf(k)}
                           /\ DirOf[k] = d => SurvivingValue(k)' = ValueOf(k)
<1> SUFFICES ASSUME NEW k \in Keys
             PROVE  /\ ValueOf(k)' = ValueOf(k)
                    /\ SurvivingValue(k)' \in {SurvivingValue(k), ValueOf(k)}
                    /\ DirOf[k] = d => SurvivingValue(k)' = ValueOf(k)
  OBVIOUS
<1> DEFINE p == KeyPath(k)
<1>1. p \in Paths /\ PathDir[p] = DirOf[k]
  BY KeyPaths, PathDirs
<1>2. UNCHANGED <<vol, data, ddata, dirs>>
  BY DEF SyncDirectory
<1>3. ValueOf(k)' = ValueOf(k) /\ dur'[p] = IF PathDir[p] = d THEN vol[p] ELSE dur[p]
  BY <1>1, SyncDirectoryKeeps
<1>4. CASE DirOf[k] = d
  <2>1. Surviving(p)' = vol[p]
    BY <1>1, <1>2, <1>3, <1>4 DEF Surviving
  <2>2. vol[p] # NoInode => ddata[vol[p]] = data[vol[p]]
    BY <1>1 DEF DiskInv, FsTypeOK
  <2>3. SurvivingValue(k)' = ValueOf(k)
    BY <1>2, <2>1, <2>2 DEF SurvivingValue, ValueOf, Exists
  <2>4. QED
    BY <1>3, <2>3
<1>5. CASE DirOf[k] # d
  <2>1. Surviving(p)' = Surviving(p)
    BY <1>1, <1>2, <1>3, <1>5 DEF Surviving
  <2>2. SurvivingValue(k)' = SurvivingValue(k)
    BY <1>2, <2>1 DEF SurvivingValue
  <2>3. QED
    BY <1>3, <1>5, <2>2
<1>6. QED
  BY <1>4, <1>5

\* A step of the kernel leaves every key as it is, and of each key what was
\* there or what is.
LEMMA WritebackSteps ==
    ASSUME StoreInv, DurableInv, KernelWriteback
    PROVE  /\ UNCHANGED <<dirs, survive, req, rsp>>
           /\ \A k \in Keys : /\ ValueOf(k)' = ValueOf(k)
                              /\ SurvivingValue(k)' \in {SurvivingValue(k), ValueOf(k)}
<1>1. FsTypeOK /\ DiskInv
  BY DEF StoreInv, CallsInv, Inv, TypeOK
<1>2. \/ \E d \in Dirs : SyncDirectory(d)
      \/ \E i \in Inodes : SyncFile(i)
  <2>1. ~WritebackDir
    BY DEF WritebackDir, DurableInv
  <2>2. QED
    BY <1>1, <2>1 DEF KernelWriteback, Writeback, WritebackEntries, WritebackFile, FsTypeOK
<1>3. UNCHANGED <<dirs, survive, req, rsp>>
  BY <1>2 DEF KernelWriteback, hist, SyncDirectory, SyncFile
<1>4. CASE \E d \in Dirs : SyncDirectory(d)
  BY <1>1, <1>3, <1>4, SyncedKeys DEF DurableInv
<1>5. CASE \E i \in Inodes : SyncFile(i)
  BY <1>1, <1>3, <1>5, SyncFileKeeps DEF KeysKept
<1>6. QED
  BY <1>2, <1>4, <1>5

\* What a rename and an unlink do to the store.
LEMMA ApplySteps ==
    ASSUME StoreInv, NEW t \in Threads, NEW k \in Keys, NEW x, k = MyKey(t),
           \/ RenameTmp(t) /\ x = req[t].val
           \/ UnlinkKey(t) /\ Exists(KeyPath(k)) /\ x = Missing
    PROVE  /\ UNCHANGED dirs /\ survive' = [survive EXCEPT ![k] = survive[k] \cup {x}]
           /\ ValueOf(k)' = x
           /\ \A j \in Keys \ {k} : ValueOf(j)' = ValueOf(j)
           /\ \A j \in Keys : SurvivingValue(j)' = SurvivingValue(j)
<1>1. FsTypeOK /\ DiskInv
  BY DEF StoreInv, CallsInv, Inv, TypeOK
<1>2. CASE RenameTmp(t) /\ x = req[t].val
  <2>1. /\ MyTmp(t) \in Paths /\ MyTmp(t)[1] = k /\ IsTmp(MyTmp(t)) /\ Exists(MyTmp(t))
        /\ vol[MyTmp(t)] # NoInode /\ req[t].val \in Values
        /\ data[vol[MyTmp(t)]] = req[t].val /\ ddata[vol[MyTmp(t)]] = req[t].val
        /\ RenameFile(MyTmp(t), KeyPath(k))
    BY <1>2, RenameReady
  <2>2. UNCHANGED dirs /\ survive' = [survive EXCEPT ![k] = survive[k] \cup {x}]
    BY <1>2, <2>1 DEF RenameTmp, RenameFile, MaySurvive
  <2>3. QED
    BY <1>1, <1>2, <2>1, <2>2, RenameKeeps
<1>3. CASE UnlinkKey(t) /\ Exists(KeyPath(k)) /\ x = Missing
  <2>1. UnlinkFile(KeyPath(k))
    BY <1>3, UnlinkReady
  <2>2. UNCHANGED dirs /\ survive' = [survive EXCEPT ![k] = survive[k] \cup {x}]
    BY <1>3, <2>1 DEF UnlinkKey, UnlinkFile, MaySurvive
  <2>3. QED
    BY <1>1, <1>3, <2>1, <2>2, UnlinkKeeps
<1>4. QED
  BY <1>2, <1>3

\* An unlink that finds no file changes none.
LEMMA UnlinkMissing ==
    ASSUME StoreInv, NEW t \in Threads, UnlinkKey(t), ~Exists(KeyPath(MyKey(t)))
    PROVE  KeysKept /\ UNCHANGED <<dirs, survive>>
<1>1. UNCHANGED <<vol, dur, data, ddata, dirs, survive>>
  BY DEF UnlinkKey, fsvars
<1>2. QED
  BY <1>1 DEF KeysKept, ValueOf, Exists, SurvivingValue, Surviving

\* What the sync of the parent directory does.
LEMMA CommitSteps ==
    ASSUME StoreInv, DurableInv, NEW t \in Threads, SyncParent(t), NEW k \in Keys, k = MyKey(t)
    PROVE  /\ UNCHANGED dirs /\ survive' = [survive EXCEPT ![k] = {ValueOf(k)}]
           /\ \A j \in Keys : /\ ValueOf(j)' = ValueOf(j)
                              /\ SurvivingValue(j)' \in {SurvivingValue(j), ValueOf(j)}
           /\ SurvivingValue(k)' = ValueOf(k)
<1>1. FsTypeOK /\ DiskInv
  BY DEF StoreInv, CallsInv, Inv, TypeOK
<1>2. MyDir(t) = DirOf[k] /\ MyDir(t) \in Dirs
  BY StoreAssumption DEF MyDir, MyKey
<1>3. SyncDirectory(MyDir(t)) /\ survive' = [survive EXCEPT ![k] = {ValueOf(k)}]
  BY DEF SyncParent
<1>4. UNCHANGED dirs
  BY <1>3 DEF SyncDirectory
<1>5. QED
  BY <1>1, <1>2, <1>3, <1>4, SyncedKeys DEF DurableInv

\* The key of a thread inside the store.
LEMMA MyKeyIsKey ==
    ASSUME StoreInv, NEW t \in Threads, pc[t] # "idle"
    PROVE  req[t] \in Requests /\ req[t] # NoReq /\ MyKey(t) \in Keys
BY RequestFields DEF StoreInv, CallsInv, Inv, CallInv, MyKey

\* Every step keeps the invariant.
LEMMA DurableStep ==
    ASSUME OneStore, StoreInv, DurableInv, [Next]_vars
    PROVE  DurableInv'
<1>a. survive \in [Keys -> SUBSET FileValues] /\ FsTypeOK /\ DiskInv
  BY DEF StoreInv, CallsInv, Inv, TypeOK, ResultTypeOK
<1>b. ASSUME UNCHANGED <<dirs, survive>>,
             \A k \in Keys : /\ ValueOf(k)' = ValueOf(k)
                             /\ SurvivingValue(k)' \in {SurvivingValue(k), ValueOf(k)}
      PROVE  DurableInv'
  <2>1. \A d \in Dirs : dirs'[d] = "durable"
    BY <1>b DEF DurableInv
  <2>2. \A k \in Keys : ValueOf(k)' \in survive'[k] /\ SurvivingValue(k)' \in survive'[k]
    BY <1>b DEF DurableInv
  <2>3. QED
    BY <2>1, <2>2 DEF DurableInv
<1>c. ASSUME NEW k \in Keys, NEW x, UNCHANGED dirs,
             survive' = [survive EXCEPT ![k] = survive[k] \cup {x}], ValueOf(k)' = x,
             \A j \in Keys \ {k} : ValueOf(j)' = ValueOf(j),
             \A j \in Keys : SurvivingValue(j)' = SurvivingValue(j)
      PROVE  DurableInv'
  <2>1. \A d \in Dirs : dirs'[d] = "durable"
    BY <1>c DEF DurableInv
  <2>2. \A j \in Keys : survive[j] \subseteq survive'[j] /\ x \in survive'[k]
    BY <1>a, <1>c
  <2>3. \A j \in Keys : ValueOf(j)' \in survive'[j] /\ SurvivingValue(j)' \in survive'[j]
    BY <1>c, <2>2 DEF DurableInv
  <2>4. QED
    BY <2>1, <2>3 DEF DurableInv
<1>1. ASSUME NEW t \in Threads, QuietStep(t)
      PROVE  DurableInv'
  BY <1>1, <1>b, QuietSteps DEF KeysKept
<1>2. ASSUME NEW t \in Threads, RenameTmp(t)
      PROVE  DurableInv'
  <2>1. MyKey(t) \in Keys
    BY <1>2, RenameReady
  <2>2. QED
    BY <1>2, <1>c, <2>1, ApplySteps
<1>3. ASSUME NEW t \in Threads, UnlinkKey(t)
      PROVE  DurableInv'
  <2>1. MyKey(t) \in Keys
    BY <1>3, UnlinkReady
  <2>2. CASE Exists(KeyPath(MyKey(t)))
    BY <1>3, <1>c, <2>1, <2>2, ApplySteps
  <2>3. CASE ~Exists(KeyPath(MyKey(t)))
    BY <1>3, <1>b, <2>3, UnlinkMissing DEF KeysKept
  <2>4. QED
    BY <2>2, <2>3
<1>4. ASSUME NEW t \in Threads, SyncParent(t)
      PROVE  DurableInv'
  <2>k. PICK k \in Keys : k = MyKey(t)
    BY <1>4, MyKeyIsKey DEF SyncParent, At
  <2>1. /\ UNCHANGED dirs
        /\ survive' = [survive EXCEPT ![k] = {ValueOf(k)}]
        /\ \A j \in Keys : /\ ValueOf(j)' = ValueOf(j)
                           /\ SurvivingValue(j)' \in {SurvivingValue(j), ValueOf(j)}
        /\ SurvivingValue(k)' = ValueOf(k)
    BY <1>4, <2>k, CommitSteps
  <2>2. \A d \in Dirs : dirs'[d] = "durable"
    BY <2>1 DEF DurableInv
  <2>3. \A j \in Keys : ValueOf(j)' \in survive'[j] /\ SurvivingValue(j)' \in survive'[j]
    BY <1>a, <2>1 DEF DurableInv
  <2>4. QED
    BY <2>2, <2>3 DEF DurableInv
<1>5. CASE ProcessCrash
  BY <1>5, <1>b DEF ProcessCrash, fsvars, ValueOf, Exists, SurvivingValue, Surviving
<1>6. CASE PowerLoss
  <2>1. LosePower /\ survive' = [k \in Keys |-> {ValueOf(k)'}]
    BY <1>6 DEF PowerLoss
  <2>2. \A d \in Dirs : dirs'[d] = "durable"
    BY <2>1 DEF LosePower, DurableInv
  <2>3. ASSUME NEW k \in Keys
        PROVE  SurvivingValue(k)' = ValueOf(k)'
    <3>1. KeyPath(k) \in Paths /\ PathDir[KeyPath(k)] \in Dirs
      BY KeyPaths, PathDirs, StoreAssumption
    <3>2. vol' = dur' /\ data' = ddata'
      BY <2>1 DEF LosePower
    <3>3. Surviving(KeyPath(k))' = dur'[KeyPath(k)]
      BY <2>2, <3>1 DEF Surviving
    <3>4. QED
      BY <3>2, <3>3 DEF SurvivingValue, ValueOf, Exists
  <2>4. QED
    BY <2>1, <2>2, <2>3 DEF DurableInv
<1>7. CASE KernelWriteback
  BY <1>7, <1>b, WritebackSteps
<1>8. CASE UNCHANGED vars
  BY <1>8, <1>b DEF vars, fsvars, hist, ValueOf, Exists, SurvivingValue, Surviving
<1>9. QED
  BY <1>1, <1>2, <1>3, <1>4, <1>5, <1>6, <1>7, <1>8 DEF Next, Step, QuietStep

\* What the files, the calls and the medium are known to be, together.
DiskStoreInv == StoreInv /\ DurableInv

\* It holds in every reachable state.
LEMMA DurableHolds ==
    ASSUME OneStore, DirsPresent
    PROVE  Spec => []DiskStoreInv
<1>1. Init => DurableInv
  <2> SUFFICES ASSUME Init
               PROVE  DurableInv
    OBVIOUS
  <2>1. \A p \in Paths : vol[p] = NoInode /\ dur[p] = NoInode
    BY DEF Init, FsInit
  <2>2. \A d \in Dirs : dirs[d] = "durable"
    BY DEF Init, FsInit, DirsPresent
  <2>3. \A k \in Keys : survive[k] = {Missing}
    BY DEF Init
  <2>4. \A k \in Keys : ValueOf(k) = Missing /\ SurvivingValue(k) = Missing
    BY <2>1, KeyPaths DEF ValueOf, Exists, SurvivingValue, Surviving
  <2>5. QED
    BY <2>2, <2>3, <2>4 DEF DurableInv
<1>2. StoreInv /\ DurableInv /\ [Next]_vars => DurableInv'
  BY DurableStep
<1>3. Spec => []StoreInv
  BY FilesHold
<1>4. Spec => [](StoreInv /\ DurableInv)
  BY <1>1, <1>2, <1>3, PTL DEF Spec
<1>5. QED
  BY <1>4, PTL DEF DiskStoreInv

\* A power loss at any instant leaves of each key what the last call that synced
\* its directory made of it, or what a rename or an unlink since has: for any
\* number of threads, keys and values, and with system calls failing.
THEOREM SyncedSurvives ==
    ASSUME OneStore, DirsPresent
    PROVE  Spec => []PowerLossKeepsSynced
<1>1. DiskStoreInv => PowerLossKeepsSynced
  BY DEF DiskStoreInv, DurableInv, PowerLossKeepsSynced
<1>2. QED
  BY <1>1, DurableHolds, PTL

-----------------------------------------------------------------------------
(***************************************************************************)
(* The store implements KVStore.  Of write the rename is the step that     *)
(* takes effect and the sync of the parent directory the one that commits  *)
(* it; of remove the unlink; of read the end of the reading.               *)
(***************************************************************************)
\* The abstract store.
Store == [k \in Keys |-> ValueOf(k)]

\* A step that leaves every key as it is leaves the abstract store as it is.
LEMMA StoreKept ==
    ASSUME \A k \in Keys : ValueOf(k)' = ValueOf(k)
    PROVE  UNCHANGED Store
BY DEF Store

\* A step that changes one key.
LEMMA StoreChanged ==
    ASSUME NEW k \in Keys, NEW x, ValueOf(k)' = x,
           \A j \in Keys \ {k} : ValueOf(j)' = ValueOf(j)
    PROVE  Store' = [Store EXCEPT ![k] = x]
BY DEF Store

\* Every step is one of the abstract store, or invisible to its callers.
LEMMA KVStep ==
    ASSUME OneStore, DiskStoreInv, [Next]_vars
    PROVE  [KV!Next]_(KV!kvvars)
<1> USE DEF At, Goto, Respond
<1>a. /\ pc \in [Threads -> Steps] /\ req \in [Threads -> Requests \cup {NoReq}]
      /\ rsp \in [Threads -> FileValues \cup {NoRsp, "applied", "ok", "err"}]
      /\ StoreInv /\ DurableInv /\ Inv /\ FsTypeOK
  BY DEF DiskStoreInv, StoreInv, CallsInv, Inv, TypeOK, CallTypeOK, ResultTypeOK
<1>b. \A t \in Threads :
         /\ pc[t] # "idle" => req[t] \in Requests /\ req[t] # NoReq /\ MyKey(t) \in Keys
         /\ pc[t] = "idle" => req[t] = NoReq
         /\ pc[t] = "syncDir" => rsp[t] = "applied"
         /\ pc[t] \in {"gcTick", "gcSweep", "ret"} => rsp[t] \notin {NoRsp, "applied"}
         /\ pc[t] \notin {"syncDir", "gcTick", "gcSweep", "ret"} => rsp[t] = NoRsp
  BY <1>a, MyKeyIsKey DEF StoreInv, CallsInv, AnswerInv
<1>c. \A t \in Threads :
         /\ pc[t] \in {"open", "readAll"} => req[t].kind = "read"
         /\ pc[t] = "rename" => req[t].kind = "write"
         /\ pc[t] \in {"isFile", "unlink"} => req[t].kind = "remove"
         /\ pc[t] \in {"readDir", "scan"} => req[t].kind = "list"
  BY <1>a, <1>b, RequestKinds DEF StoreInv, CallsInv, KindInv, Inv, CallInv
\* A step of t that answers x and leaves the keys alone.
<1>d. ASSUME NEW t \in Threads, QuietStep(t)
      PROVE  UNCHANGED <<Store, survive>>
  BY <1>a, <1>d, QuietSteps, StoreKept DEF KeysKept
<1>e. ASSUME UNCHANGED <<Store, survive, req, rsp>>
      PROVE  [KV!Next]_(KV!kvvars)
  BY <1>e DEF KV!kvvars, Store
<1>1. ASSUME NEW t \in Threads, Call(t)
      PROVE  [KV!Next]_(KV!kvvars)
  <2>1. UNCHANGED <<Store, survive>>
    BY <1>1, <1>d DEF QuietStep
  <2>2. req[t] = NoReq /\ rsp' = rsp /\ \E r \in Requests : req' = [req EXCEPT ![t] = r]
    BY <1>1, <1>b DEF Call
  <2>3. KV!Call(t)
    BY <2>1, <2>2 DEF KV!Call, Store
  <2>4. QED
    BY <2>3 DEF KV!Next
<1>2. ASSUME NEW t \in Threads, Refuse(t) \/ IoError(t)
      PROVE  [KV!Next]_(KV!kvvars)
  <2>1. UNCHANGED <<Store, survive>>
    BY <1>2, <1>d DEF QuietStep
  <2>2. /\ req[t] # NoReq /\ rsp[t] \in {NoRsp, "applied"}
        /\ rsp' = [rsp EXCEPT ![t] = "err"] /\ req' = req
    BY <1>2, <1>b DEF Refuse, IoError, EarlyReturn
  <2>3. KV!Fail(t)
    BY <2>1, <2>2 DEF KV!Fail, KV!Respond, Store
  <2>4. QED
    BY <2>3 DEF KV!Next
\* Steps that answer nothing.
<1>3. ASSUME NEW t \in Threads,
             \/ MakeParent(t) \/ CreateTmp(t) \/ FillTmp(t) \/ SyncTmp(t)
             \/ GetLock(t) \/ Acquire(t) \/ GcTick(t) \/ GcSweep(t)
      PROVE  [KV!Next]_(KV!kvvars)
  <2>1. UNCHANGED <<Store, survive>>
    BY <1>3, <1>d DEF QuietStep
  <2>2. UNCHANGED <<req, rsp>>
    BY <1>3 DEF MakeParent, CreateTmp, FillTmp, SyncTmp, GetLock, Acquire, GcTick, GcSweep
  <2>3. QED
    BY <1>e, <2>1, <2>2
<1>4. ASSUME NEW t \in Threads, OpenKey(t)
      PROVE  [KV!Next]_(KV!kvvars)
  <2>1. UNCHANGED <<Store, survive>> /\ req' = req
    BY <1>4, <1>d DEF QuietStep, OpenKey
  <2>2. CASE Exists(KeyPath(MyKey(t)))
    BY <1>4, <1>e, <2>1, <2>2 DEF OpenKey
  <2>3. CASE ~Exists(KeyPath(MyKey(t)))
    <3>1. rsp' = [rsp EXCEPT ![t] = Missing] /\ ValueOf(MyKey(t)) = Missing
      BY <1>4, <2>3 DEF OpenKey, EarlyReturn, ValueOf
    <3>2. KV!Pending(t, "read") /\ MyKey(t) \in Keys
      BY <1>4, <1>b, <1>c DEF OpenKey, KV!Pending
    <3>3. KV!Read(t)
      BY <2>1, <3>1, <3>2 DEF KV!Read, KV!Respond, Store, MyKey
    <3>4. QED
      BY <3>3 DEF KV!Next
  <2>4. QED
    BY <2>2, <2>3
<1>5. ASSUME NEW t \in Threads, ReadAll(t)
      PROVE  [KV!Next]_(KV!kvvars)
  <2>1. UNCHANGED <<Store, survive>> /\ req' = req
    BY <1>5, <1>d DEF QuietStep, ReadAll
  <2>2. rsp' = [rsp EXCEPT ![t] = data[handle[t]]]
    BY <1>5 DEF ReadAll
  <2>3. handle[t] = vol[KeyPath(MyKey(t))] /\ handle[t] \in Inodes
    BY <1>5, <1>a DEF ReadAll, StoreInv, FileInv, FileOf, Opened, Inv, CallInv
  <2>4. data[handle[t]] = ValueOf(MyKey(t))
    BY <2>3, NoInodeIsNone DEF ValueOf, Exists
  <2>5. KV!Pending(t, "read") /\ MyKey(t) \in Keys
    BY <1>5, <1>b, <1>c DEF ReadAll, KV!Pending
  <2>6. KV!Read(t)
    BY <2>1, <2>2, <2>4, <2>5 DEF KV!Read, KV!Respond, Store, MyKey
  <2>7. QED
    BY <2>6 DEF KV!Next
<1>6. ASSUME NEW t \in Threads, RenameTmp(t)
      PROVE  [KV!Next]_(KV!kvvars)
  <2>1. PICK k \in Keys : k = MyKey(t)
    BY <1>6, <1>b DEF RenameTmp
  <2>2. PICK x : x = req[t].val
    OBVIOUS
  <2>3. /\ survive' = [survive EXCEPT ![k] = survive[k] \cup {x}]
        /\ ValueOf(k)' = x /\ \A j \in Keys \ {k} : ValueOf(j)' = ValueOf(j)
    BY <1>6, <1>a, <2>1, <2>2, ApplySteps
  <2>4. Store' = [Store EXCEPT ![k] = x]
    BY <2>3, StoreChanged
  <2>5. KV!Pending(t, "write")
    BY <1>6, <1>b, <1>c DEF RenameTmp, KV!Pending
  <2>6. rsp' = [rsp EXCEPT ![t] = "applied"] /\ req' = req
    BY <1>6, <1>a, RenameReady DEF RenameTmp
  <2>7. KV!Write(t)
    BY <2>1, <2>2, <2>3, <2>4, <2>5, <2>6 DEF KV!Write, KV!Apply, KV!Respond, Store, MyKey
  <2>8. QED
    BY <2>7 DEF KV!Next
<1>7. ASSUME NEW t \in Threads, SyncParent(t)
      PROVE  [KV!Next]_(KV!kvvars)
  <2>1. PICK k \in Keys : k = MyKey(t)
    BY <1>7, <1>b DEF SyncParent
  <2>2. /\ survive' = [survive EXCEPT ![k] = {ValueOf(k)}]
        /\ \A j \in Keys : ValueOf(j)' = ValueOf(j)
    BY <1>7, <1>a, <2>1, CommitSteps
  <2>3. UNCHANGED Store /\ ValueOf(k) = Store[k]
    BY <2>2, StoreKept DEF Store
  <2>4. rsp[t] = "applied" /\ rsp' = [rsp EXCEPT ![t] = "ok"] /\ req' = req
    BY <1>7, <1>b DEF SyncParent
  <2>5. KV!Commit(t)
    BY <2>1, <2>2, <2>3, <2>4 DEF KV!Commit, KV!Respond, Store, MyKey
  <2>6. QED
    BY <2>5 DEF KV!Next
<1>8. ASSUME NEW t \in Threads, IsFile(t)
      PROVE  [KV!Next]_(KV!kvvars)
  <2>1. UNCHANGED <<Store, survive>> /\ req' = req
    BY <1>8, <1>d DEF QuietStep, IsFile
  <2>2. CASE rsp' = rsp
    BY <1>e, <2>1, <2>2
  <2>3. CASE rsp' = [rsp EXCEPT ![t] = "ok"] /\ (~Exists(KeyPath(MyKey(t))) \/ IoErrors)
    <3>1. KV!Pending(t, "remove") /\ MyKey(t) \in Keys
      BY <1>8, <1>b, <1>c DEF IsFile, KV!Pending
    <3>2. CASE ~Exists(KeyPath(MyKey(t)))
      <4>1. ValueOf(MyKey(t)) = Missing
        BY <3>2 DEF ValueOf
      <4>2. KV!RemoveMissing(t)
        BY <2>1, <2>3, <3>1, <4>1 DEF KV!RemoveMissing, KV!Respond, Store, MyKey
      <4>3. QED
        BY <4>2 DEF KV!Next
    \* The stat failed.
    <3>3. CASE IoErrors
      <4>1. KV!RemoveUnchecked(t)
        BY <2>1, <2>3, <3>1, <3>3 DEF KV!RemoveUnchecked, KV!Respond, Store
      <4>2. QED
        BY <4>1 DEF KV!Next
    <3>4. QED
      BY <2>3, <3>2, <3>3
  <2>4. QED
    BY <1>8, <2>2, <2>3 DEF IsFile, EarlyReturn
<1>9. ASSUME NEW t \in Threads, UnlinkKey(t)
      PROVE  [KV!Next]_(KV!kvvars)
  <2>1. PICK k \in Keys : k = MyKey(t)
    BY <1>9, <1>b DEF UnlinkKey
  <2>2. KV!Pending(t, "remove") /\ req' = req
    BY <1>9, <1>b, <1>c DEF UnlinkKey, KV!Pending
  <2>3. CASE Exists(KeyPath(MyKey(t)))
    <3>1. /\ survive' = [survive EXCEPT ![k] = survive[k] \cup {Missing}]
          /\ ValueOf(k)' = Missing /\ \A j \in Keys \ {k} : ValueOf(j)' = ValueOf(j)
      BY <1>9, <1>a, <2>1, <2>3, ApplySteps
    <3>2. Store' = [Store EXCEPT ![k] = Missing]
      BY <3>1, StoreChanged
    <3>3. rsp' = [rsp EXCEPT ![t] = IF req[t].lazy THEN "ok" ELSE "applied"]
      BY <1>9, <2>3 DEF UnlinkKey
    <3>4. Store[k] # Missing
      <4>1. vol[KeyPath(k)] \in Inodes
        BY <1>a, <2>1, <2>3, KeyPaths DEF Exists, FsTypeOK
      <4>2. ValueOf(k) \in Values
        BY <1>a, <2>1, <2>3, <4>1 DEF ValueOf, StoreInv, DiskInv
      <4>3. QED
        BY <4>2, StoreAssumption DEF Store
    <3>5. KV!Remove(t)
      BY <2>1, <2>2, <3>1, <3>2, <3>3, <3>4 DEF KV!Remove, KV!Apply, KV!Respond, Store, MyKey
    <3>6. QED
      BY <3>5 DEF KV!Next
  <2>4. CASE ~Exists(KeyPath(MyKey(t)))
    <3>1. UNCHANGED <<Store, survive>>
      BY <1>9, <1>a, <2>4, UnlinkMissing, StoreKept DEF KeysKept
    <3>2. rsp' = [rsp EXCEPT ![t] = "err"] /\ ValueOf(MyKey(t)) = Missing
      BY <1>9, <2>4 DEF UnlinkKey, EarlyReturn, ValueOf
    <3>3. KV!RemoveMissing(t)
      BY <2>1, <2>2, <3>1, <3>2 DEF KV!RemoveMissing, KV!Respond, Store, MyKey
    <3>4. QED
      BY <3>3 DEF KV!Next
  <2>5. QED
    BY <2>3, <2>4
<1>10. ASSUME NEW t \in Threads, ReadDir(t) \/ VisitEntry(t) \/ ListDone(t)
       PROVE  [KV!Next]_(KV!kvvars)
  <2>1. UNCHANGED <<Store, survive>>
    BY <1>10, <1>d DEF QuietStep
  <2>2. req' = req /\ (rsp' = rsp \/ \E x \in {"ok", "err"} : rsp' = [rsp EXCEPT ![t] = x])
    BY <1>10 DEF ReadDir, VisitEntry, ListDone
  <2>3. CASE rsp' = rsp
    BY <1>e, <2>1, <2>2, <2>3
  <2>4. CASE \E x \in {"ok", "err"} : rsp' = [rsp EXCEPT ![t] = x]
    <3>1. KV!Pending(t, "list")
      BY <1>10, <1>b, <1>c DEF ReadDir, VisitEntry, ListDone, KV!Pending
    <3>2. KV!List(t)
      BY <2>1, <2>2, <2>4, <3>1 DEF KV!List, KV!Respond, Store
    <3>3. QED
      BY <3>2 DEF KV!Next
  <2>5. QED
    BY <2>2, <2>3, <2>4
<1>11. ASSUME NEW t \in Threads, Return(t)
       PROVE  [KV!Next]_(KV!kvvars)
  <2>1. UNCHANGED <<Store, survive>>
    BY <1>11, <1>d DEF QuietStep
  <2>2. /\ rsp[t] \notin {NoRsp, "applied"}
        /\ req' = [req EXCEPT ![t] = NoReq] /\ rsp' = [rsp EXCEPT ![t] = NoRsp]
    BY <1>11, <1>b DEF Return
  <2>3. KV!Return(t)
    BY <2>1, <2>2 DEF KV!Return, Store
  <2>4. QED
    BY <2>3 DEF KV!Next
<1>12. CASE ProcessCrash
  <2>1. UNCHANGED <<vol, data, survive>> /\ KV!Forget
    BY <1>12 DEF ProcessCrash, NewProcess, fsvars, All, KV!Forget
  <2>2. UNCHANGED Store
    BY <2>1, StoreKept DEF ValueOf, Exists
  <2>3. KV!Restart
    BY <2>1, <2>2 DEF KV!Restart, Store
  <2>4. QED
    BY <2>3 DEF KV!Next
<1>13. CASE PowerLoss
  <2>1. LosePower /\ survive' = [k \in Keys |-> {ValueOf(k)'}] /\ KV!Forget
    BY <1>13 DEF PowerLoss, NewProcess, All, KV!Forget
  <2>2. \A k \in Keys : ValueOf(k)' = SurvivingValue(k)
    BY <1>a, <2>1, LosePowerKeeps DEF StoreInv
  <2>3. \A k \in Keys : ValueOf(k)' \in survive[k]
    BY <1>a, <2>2 DEF DurableInv
  <2>4. KV!PowerLoss
    BY <2>1, <2>3 DEF KV!PowerLoss
  <2>5. QED
    BY <2>4 DEF KV!Next
<1>14. CASE KernelWriteback
  <2>1. UNCHANGED <<survive, req, rsp>> /\ \A k \in Keys : ValueOf(k)' = ValueOf(k)
    BY <1>14, <1>a, WritebackSteps
  <2>2. QED
    BY <1>e, <2>1, StoreKept
<1>15. CASE UNCHANGED vars
  <2>1. UNCHANGED <<vol, data, survive, req, rsp>>
    BY <1>15 DEF vars, fsvars, hist
  <2>2. QED
    BY <1>e, <2>1, StoreKept DEF ValueOf, Exists
<1>16. QED
  BY <1>1, <1>2, <1>3, <1>4, <1>5, <1>6, <1>7, <1>8, <1>9, <1>10, <1>11, <1>12, <1>13, <1>14, <1>15
     DEF Next, Step

\* One store on directories that exist implements the abstract key-value
\* store, for any number of threads, keys and values, with crashes, power
\* losses and failing system calls: each read, write and remove takes effect
\* at one instant, and a write or a non-lazy removal of a value is not undone
\* once it returned Ok.  A remove that sees no file, or cannot tell, returns Ok
\* and promises nothing (RemoveMissing, RemoveUnchecked).
THEOREM StoreImplementsKV ==
    ASSUME OneStore, DirsPresent
    PROVE  Spec => ImplementsKVStore
<1>1. Init => KV!Init
  <2> SUFFICES ASSUME Init
               PROVE  KV!Init
    OBVIOUS
  <2>1. \A k \in Keys : ValueOf(k) = Missing
    BY KeyPaths DEF Init, FsInit, ValueOf, Exists
  <2>2. QED
    BY <2>1 DEF Init, All, KV!Init
<1>2. DiskStoreInv /\ [Next]_vars => [KV!Next]_(KV!kvvars)
  BY KVStep
<1>3. Spec => []DiskStoreInv
  BY DurableHolds
<1>4. QED
  BY <1>1, <1>2, <1>3, PTL DEF Spec, ImplementsKVStore, KV!Spec
=============================================================================
