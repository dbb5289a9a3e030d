--------------------------- MODULE FilesystemStore ---------------------------
(***************************************************************************)
(* FilesystemStore (filesystem_store.rs): the key-value store in which the *)
(* node keeps its channel monitors, channel manager, payments, graph and   *)
(* scorer.  Threads call read, write, remove and list; each call is a      *)
(* sequence of steps, one per system call or lock operation, that other    *)
(* threads, the kernel's write-back, a process crash or a power loss may   *)
(* interleave with.                                                        *)
(*                                                                         *)
(* A store is one FilesystemStore value: its lock table, temporary-file    *)
(* counter and garbage-collection counter.  main.rs creates two on the     *)
(* same data_dir (fs_store at line 695, persister at line 1051), so the    *)
(* files are shared by all stores and the locks are not.                   *)
(***************************************************************************)
EXTENDS Naturals, FiniteSets

CONSTANTS
    Threads, Stores,
    Keys,               \* paths of valid keys, namespaces included
    Dirs, DirOf,        \* the namespaces' directories; [Keys -> Dirs]
    PresentDirs,        \* the directories that exist before the first write
    Values, Missing, Empty, Torn,
    NoReq, NoRsp,
    LockIds, NoLock,    \* Arc<RwLock<()>> allocations
    GC_LOCK_INTERVAL,
    Inodes,
    MaxWrites,          \* bound: writes per store and process lifetime
    MaxCrashes,         \* bound: process crashes and power losses
    IoErrors            \* whether system calls may fail

ASSUME StoreAssumption ==
    /\ GC_LOCK_INTERVAL \in Nat \ {0}
    /\ NoLock \notin LockIds
    /\ DirOf \in [Keys -> Dirs]
    /\ MaxWrites \in Nat
    /\ MaxCrashes \in Nat
    /\ IoErrors \in BOOLEAN
    /\ Inodes \subseteq Nat \ {0}
    /\ Missing \notin Values

VARIABLES
    vol, dur, data, ddata, dirs,    \* the file system, see PosixFs
    locks,       \* [Stores -> [Keys -> LockIds \cup {NoLock}]], the HashMap
    tmpCounter,  \* [Stores -> Nat], tmp_file_counter
    gcCounter,   \* [Stores -> Nat], gc_counter modulo GC_LOCK_INTERVAL
    pc, req, rsp,\* per thread: next step, request, result
    ref,         \* per thread: the Arc it holds (inner_lock_ref)
    guard,       \* per thread: the guard it holds on that lock
    tmp,         \* per thread: number of its temporary file
    handle,      \* per thread: inode it has open
    scan,        \* per thread: directory entries still to be visited
    raced,       \* history: a key the thread was about to list was removed
    survive,     \* history: values a power loss may leave, see KVStore
    crashes

(***************************************************************************)
(* Paths.  <<k, 0>> is the file of key k, <<k, n + 1>> its temporary file  *)
(* "k.n.tmp".  A valid key contains no ".", so set_extension only appends, *)
(* no key is taken for a temporary file, and the names list finds are      *)
(* valid keys again (get_key_from_dir_entry).                              *)
(***************************************************************************)
Paths == Keys \X (0 .. MaxWrites)
PathDir == [p \in Paths |-> DirOf[p[1]]]
KeyPath(k) == <<k, 0>>
TmpPath(k, n) == <<k, n + 1>>
IsTmp(p) == p[2] > 0

INSTANCE PosixFs WITH Contents <- Values \cup {Torn}

ReadReqs == [kind : {"read"}, store : Stores, key : Keys]
WriteReqs == [kind : {"write"}, store : Stores, key : Keys, val : Values]
RemoveReqs == [kind : {"remove"}, store : Stores, key : Keys, lazy : BOOLEAN]
\* A list request names its namespace by one of the keys in it.
ListReqs == [kind : {"list"}, store : Stores, key : Keys]
\* A request of any kind whose names are those of the key but for what makes
\* them invalid: a character outside the alphabet, a name too long, an empty
\* key, a secondary namespace without a primary one.
InvalidReqs == [kind : {"invalid"}, store : Stores, key : Keys]
Requests == ReadReqs \cup WriteReqs \cup RemoveReqs \cup ListReqs \cup InvalidReqs

ASSUME RequestAssumption == NoReq \notin Requests

\* What a file may hold, and no file.  It is told apart from the other results
\* of a call, and those from none.
FileValues == Values \cup {Missing, Empty, Torn}
Answers == {"applied", "ok", "err"}

ASSUME ResultAssumption ==
    FileValues \cap Answers = {} /\ NoRsp \notin FileValues \cup Answers

fsvars == <<vol, dur, data, ddata, dirs>>
lockvars == <<locks, ref, guard>>
counters == <<tmpCounter, gcCounter>>
hist == <<raced, survive, crashes>>
vars == <<fsvars, lockvars, counters, pc, req, rsp, tmp, handle, scan, hist>>

Steps == {"idle", "refuse", "mkdir", "create", "fill", "syncTmp", "lock", "acquire",
          "rename", "syncDir", "open", "readAll", "isFile", "unlink",
          "readDir", "scan", "gcTick", "gcSweep", "ret"}

\* FilesystemStore::new for every store, with no thread inside it.
NewLocks == [s \in Stores |-> [k \in Keys |-> NoLock]]
NewTmpCounter == [s \in Stores |-> 0]
NewGcCounter == [s \in Stores |-> 1 % GC_LOCK_INTERVAL]
All(x) == [t \in Threads |-> x]

Init ==
    /\ FsInit(PresentDirs)
    /\ locks = NewLocks /\ tmpCounter = NewTmpCounter /\ gcCounter = NewGcCounter
    /\ pc = All("idle") /\ req = All(NoReq) /\ rsp = All(NoRsp)
    /\ ref = All(NoLock) /\ guard = All("none")
    /\ tmp = All(0) /\ handle = All(NoInode) /\ scan = All({}) /\ raced = All(FALSE)
    /\ survive = [k \in Keys |-> {Missing}]
    /\ crashes = 0

-----------------------------------------------------------------------------
(***************************************************************************)
(* Control: every action of a thread is At(t, step) and then one of these. *)
(***************************************************************************)
At(t, step) == pc[t] = step
Goto(t, step) == pc' = [pc EXCEPT ![t] = step]
Respond(t, x) == rsp' = [rsp EXCEPT ![t] = x]

\* The end of the block that holds the guard: guard and Arc are dropped.
Unlock(t) ==
    /\ guard' = [guard EXCEPT ![t] = "none"]
    /\ ref' = [ref EXCEPT ![t] = NoLock]
    /\ UNCHANGED locks

\* Mutant: the guard outlives an early return.
EarlyReturnLeak(t, x) ==
    /\ Respond(t, x)
    /\ Goto(t, "ret")
    /\ UNCHANGED lockvars

\* An early return (`?` or `return`): the guard and the Arc, if held, are
\* dropped, and garbage_collect_locks is skipped.
EarlyReturn(t, x) ==
    /\ Respond(t, x)
    /\ Unlock(t)
    /\ Goto(t, "ret")

MyKey(t) == req[t].key
MyStore(t) == req[t].store
MyDir(t) == DirOf[req[t].key]

-----------------------------------------------------------------------------
FirstStep(kind) ==
    CASE kind = "read" -> "lock"
      [] kind = "write" -> "mkdir"
      [] kind = "remove" -> "isFile"
      [] kind = "list" -> "readDir"
      [] kind = "invalid" -> "refuse"

\* Writes of store s that have not taken a temporary-file number yet.
Numberless(s) == {u \in Threads : pc[u] = "mkdir" /\ req[u].store = s}

\* A thread calls the store; check_namespace_key_validity comes first.
Call(t) ==
    /\ At(t, "idle")
    /\ \E r \in Requests :
          /\ r.kind = "write" =>
                tmpCounter[r.store] + Cardinality(Numberless(r.store)) < MaxWrites
          /\ req' = [req EXCEPT ![t] = r]
          /\ Goto(t, FirstStep(r.kind))
    /\ UNCHANGED <<fsvars, lockvars, counters, rsp, tmp, handle, scan, hist>>

\* check_namespace_key_validity fails, before anything is touched.  A build
\* with debug assertions aborts here (ProcessCrash).
Refuse(t) ==
    /\ At(t, "refuse")
    /\ EarlyReturn(t, "err")
    /\ UNCHANGED <<fsvars, counters, req, tmp, handle, scan, hist>>

\* Mutant: the counter is loaded, not fetched and incremented.
MakeParentLoad(t) ==
    /\ At(t, "mkdir")
    /\ MakeDir(MyDir(t))
    /\ tmp' = [tmp EXCEPT ![t] = tmpCounter[MyStore(t)]]
    /\ Goto(t, "create")
    /\ UNCHANGED <<lockvars, counters, req, rsp, handle, scan, hist>>

\* write: create_dir_all, then a number for the temporary file.
MakeParent(t) ==
    /\ At(t, "mkdir")
    /\ tmpCounter[MyStore(t)] < MaxWrites
    /\ MakeDir(MyDir(t))
    /\ tmp' = [tmp EXCEPT ![t] = tmpCounter[MyStore(t)]]
    /\ tmpCounter' = [tmpCounter EXCEPT ![MyStore(t)] = @ + 1]
    /\ Goto(t, "create")
    /\ UNCHANGED <<lockvars, gcCounter, req, rsp, handle, scan, hist>>

MyTmp(t) == TmpPath(MyKey(t), tmp[t])
OpenInodes == {handle[t] : t \in Threads}

\* write: File::create on the temporary path.
CreateTmp(t) ==
    /\ At(t, "create")
    /\ \/ /\ Exists(MyTmp(t))
          /\ OpenTruncate(MyTmp(t), vol[MyTmp(t)])
          /\ handle' = [handle EXCEPT ![t] = vol[MyTmp(t)]]
       \/ /\ ~Exists(MyTmp(t))
          /\ FreeInodes(OpenInodes) # {}
          /\ LET i == CHOOSE i \in FreeInodes(OpenInodes) : TRUE
             IN  /\ OpenTruncate(MyTmp(t), i)
                 /\ handle' = [handle EXCEPT ![t] = i]
    /\ Goto(t, "fill")
    /\ UNCHANGED <<lockvars, counters, req, rsp, tmp, scan, hist>>

\* write: write_all.  The handle writes from offset 0: over what another
\* handle put there, a shorter buffer leaves the tail of the longer one.
FillTmp(t) ==
    /\ At(t, "fill")
    /\ \/ WriteFile(handle[t], req[t].val)
       \/ /\ data[handle[t]] \notin {Empty, req[t].val}
          /\ WriteFile(handle[t], Torn)
    /\ Goto(t, "syncTmp")
    /\ UNCHANGED <<lockvars, counters, req, rsp, tmp, handle, scan, hist>>

\* Mutant: the temporary file is not synced.
SyncTmpSkipped(t) ==
    /\ At(t, "syncTmp")
    /\ handle' = [handle EXCEPT ![t] = NoInode]
    /\ Goto(t, "lock")
    /\ UNCHANGED <<fsvars, lockvars, counters, req, rsp, tmp, scan, hist>>

\* write: sync_all on the temporary file, which is then closed.
SyncTmp(t) ==
    /\ At(t, "syncTmp")
    /\ SyncFile(handle[t])
    /\ handle' = [handle EXCEPT ![t] = NoInode]
    /\ Goto(t, "lock")
    /\ UNCHANGED <<lockvars, counters, req, rsp, tmp, scan, hist>>

-----------------------------------------------------------------------------
(***************************************************************************)
(* The lock table.  Its outer Mutex is held only inside one action.        *)
(***************************************************************************)
LocksInUse == {ref[t] : t \in Threads} \cup {locks[s][k] : s \in Stores, k \in Keys}
FreeLocks == LockIds \ LocksInUse

\* outer_lock.entry(path).or_default(), cloned.
GetLock(t) ==
    /\ At(t, "lock")
    /\ LET held == locks[MyStore(t)][MyKey(t)]
           l == IF held # NoLock THEN held ELSE CHOOSE x \in FreeLocks : TRUE
       IN  /\ held # NoLock \/ FreeLocks # {}
           /\ locks' = [locks EXCEPT ![MyStore(t)][MyKey(t)] = l]
           /\ ref' = [ref EXCEPT ![t] = l]
    /\ Goto(t, "acquire")
    /\ UNCHANGED <<fsvars, guard, counters, req, rsp, tmp, handle, scan, hist>>

\* No other thread holds a guard of one of these kinds on t's lock.
NoGuard(t, kinds) ==
    \A u \in Threads \ {t} : ref[u] = ref[t] => guard[u] \notin kinds

\* inner_lock_ref.read() in read, .write() in write and remove.
Acquire(t) ==
    /\ At(t, "acquire")
    /\ \/ /\ req[t].kind = "read"
          /\ NoGuard(t, {"write"})
          /\ guard' = [guard EXCEPT ![t] = "read"]
          /\ Goto(t, "open")
       \/ /\ req[t].kind = "write"
          /\ NoGuard(t, {"read", "write"})
          /\ guard' = [guard EXCEPT ![t] = "write"]
          /\ Goto(t, "rename")
       \/ /\ req[t].kind = "remove"
          /\ NoGuard(t, {"read", "write"})
          /\ guard' = [guard EXCEPT ![t] = "write"]
          /\ Goto(t, "unlink")
    /\ UNCHANGED <<fsvars, locks, ref, counters, req, rsp, tmp, handle, scan, hist>>

\* Mutant: the interval is forgotten in the test of the counter.
GcTickNoModulo(t) ==
    /\ At(t, "gcTick")
    /\ gcCounter' = [gcCounter EXCEPT ![MyStore(t)] = @ + 1]
    /\ Goto(t, IF gcCounter[MyStore(t)] = GC_LOCK_INTERVAL THEN "gcSweep" ELSE "ret")
    /\ UNCHANGED <<fsvars, lockvars, tmpCounter, req, rsp, tmp, handle, scan, hist>>

\* garbage_collect_locks: fetch_add, and every GC_LOCK_INTERVAL-th call ...
GcTick(t) ==
    /\ At(t, "gcTick")
    /\ gcCounter' = [gcCounter EXCEPT ![MyStore(t)] = (@ + 1) % GC_LOCK_INTERVAL]
    /\ Goto(t, IF gcCounter[MyStore(t)] = 0 THEN "gcSweep" ELSE "ret")
    /\ UNCHANGED <<fsvars, lockvars, tmpCounter, req, rsp, tmp, handle, scan, hist>>

\* Mutant: the whole table is cleared.
ReferencedNever(l) == FALSE

\* ... retain(strong_count > 1): the entries some thread holds an Arc of.
Referenced(l) == \E u \in Threads : ref[u] = l

GcSweep(t) ==
    /\ At(t, "gcSweep")
    /\ locks' = [locks EXCEPT ![MyStore(t)] =
                    [k \in Keys |-> IF Referenced(@[k]) THEN @[k] ELSE NoLock]]
    /\ Goto(t, "ret")
    /\ UNCHANGED <<fsvars, ref, guard, counters, req, rsp, tmp, handle, scan, hist>>

-----------------------------------------------------------------------------
(***************************************************************************)
(* What is done under the guard.                                           *)
(***************************************************************************)
\* read: File::open; NotFound returns early.
OpenKey(t) ==
    /\ At(t, "open")
    /\ \/ /\ Exists(KeyPath(MyKey(t)))
          /\ handle' = [handle EXCEPT ![t] = vol[KeyPath(MyKey(t))]]
          /\ Goto(t, "readAll")
          /\ UNCHANGED <<lockvars, rsp>>
       \/ /\ ~Exists(KeyPath(MyKey(t)))
          /\ EarlyReturn(t, Missing)
          /\ UNCHANGED handle
    /\ UNCHANGED <<fsvars, counters, req, tmp, scan, hist>>

\* read: read_to_end, end of the guarded block.
ReadAll(t) ==
    /\ At(t, "readAll")
    /\ Respond(t, data[handle[t]])
    /\ handle' = [handle EXCEPT ![t] = NoInode]
    /\ Unlock(t)
    /\ Goto(t, "gcTick")
    /\ UNCHANGED <<fsvars, counters, req, tmp, scan, hist>>

\* From here on a power loss may find x under key k.
MaySurvive(k, x) == survive' = [survive EXCEPT ![k] = @ \cup {x}]

\* write: rename the temporary file to the key's; NotFound returns early.
RenameTmp(t) ==
    /\ At(t, "rename")
    /\ \/ /\ Exists(MyTmp(t))
          /\ RenameFile(MyTmp(t), KeyPath(MyKey(t)))
          /\ Respond(t, "applied")
          /\ MaySurvive(MyKey(t), req[t].val)
          /\ Goto(t, "syncDir")
          /\ UNCHANGED lockvars
       \/ /\ ~Exists(MyTmp(t))
          /\ EarlyReturn(t, "err")
          /\ UNCHANGED <<fsvars, survive>>
    /\ tmp' = [tmp EXCEPT ![t] = 0]
    /\ UNCHANGED <<counters, req, handle, scan, raced, crashes>>

ValueOf(k) == IF Exists(KeyPath(k)) THEN data[vol[KeyPath(k)]] ELSE Missing

\* Mutant: the directory is not synced after the rename.
SyncParentSkipped(t) ==
    /\ At(t, "syncDir")
    /\ survive' = [survive EXCEPT ![MyKey(t)] = {ValueOf(MyKey(t))}]
    /\ Respond(t, "ok")
    /\ Unlock(t)
    /\ Goto(t, "gcTick")
    /\ UNCHANGED <<fsvars, counters, req, tmp, handle, scan, raced, crashes>>

\* write and non-lazy remove: sync_all on the parent directory, end of the
\* guarded block.
SyncParent(t) ==
    /\ At(t, "syncDir")
    /\ SyncDirectory(MyDir(t))
    /\ survive' = [survive EXCEPT ![MyKey(t)] = {ValueOf(MyKey(t))}]
    /\ Respond(t, "ok")
    /\ Unlock(t)
    /\ Goto(t, "gcTick")
    /\ UNCHANGED <<counters, req, tmp, handle, scan, raced, crashes>>

\* remove: the is_file() check, made before any lock is taken.  A file that is
\* not there, or whose stat fails, is a success: nothing is unlinked, and the
\* directory is not synced, so survive keeps what an unlink by another caller
\* (a lazy one, or one still before its fsync) has left in it.
IsFile(t) ==
    /\ At(t, "isFile")
    /\ \/ /\ Exists(KeyPath(MyKey(t)))
          /\ Goto(t, "lock")
          /\ UNCHANGED <<lockvars, rsp>>
       \/ /\ ~Exists(KeyPath(MyKey(t))) \/ IoErrors
          /\ EarlyReturn(t, "ok")
    /\ UNCHANGED <<fsvars, counters, req, tmp, handle, scan, hist>>

\* remove: remove_file; NotFound (another remover was faster) returns early.
UnlinkKey(t) ==
    /\ At(t, "unlink")
    /\ \/ /\ Exists(KeyPath(MyKey(t)))
          /\ UnlinkFile(KeyPath(MyKey(t)))
          /\ MaySurvive(MyKey(t), Missing)
          /\ raced' = [u \in Threads |-> raced[u] \/ KeyPath(MyKey(t)) \in scan[u]]
          /\ \/ /\ req[t].lazy
                /\ Respond(t, "ok")
                /\ Unlock(t)
                /\ Goto(t, "gcTick")
             \/ /\ ~req[t].lazy
                /\ Respond(t, "applied")
                /\ Goto(t, "syncDir")
                /\ UNCHANGED lockvars
       \/ /\ ~Exists(KeyPath(MyKey(t)))
          /\ EarlyReturn(t, "err")
          /\ UNCHANGED <<fsvars, survive, raced>>
    /\ UNCHANGED <<counters, req, tmp, handle, scan, crashes>>

-----------------------------------------------------------------------------
(***************************************************************************)
(* list takes no lock.                                                     *)
(***************************************************************************)
\* exists() and read_dir: the entries the iteration will visit.  A directory
\* whose stat fails is taken for one that is not there.
ReadDir(t) ==
    /\ At(t, "readDir")
    /\ \/ /\ dirs[MyDir(t)] = "absent" \/ IoErrors
          /\ Respond(t, "ok")
          /\ Goto(t, "ret")
          /\ UNCHANGED scan
       \/ /\ dirs[MyDir(t)] # "absent"
          /\ scan' = [scan EXCEPT ![t] = {p \in Paths : PathDir[p] = MyDir(t) /\ Exists(p)}]
          /\ Goto(t, "scan")
          /\ UNCHANGED rsp
    /\ UNCHANGED <<fsvars, lockvars, counters, req, tmp, handle, hist>>

\* Mutant: metadata is asked for before the extension is looked at.
EntryFailsOnTmp(p) == ~Exists(p)

\* dir_entry_is_key: a "tmp" extension is skipped before metadata is asked
\* for, and metadata fails when the file has been removed meanwhile.
EntryFails(p) == ~IsTmp(p) /\ ~Exists(p)

VisitEntry(t) ==
    /\ At(t, "scan")
    /\ \E p \in scan[t] :
          \/ /\ EntryFails(p)
             /\ scan' = [scan EXCEPT ![t] = {}]
             /\ Respond(t, "err")
             /\ Goto(t, "ret")
          \/ /\ ~EntryFails(p)
             /\ scan' = [scan EXCEPT ![t] = @ \ {p}]
             /\ UNCHANGED <<rsp, pc>>
    /\ UNCHANGED <<fsvars, lockvars, counters, req, tmp, handle, hist>>

ListDone(t) ==
    /\ At(t, "scan")
    /\ scan[t] = {}
    /\ Respond(t, "ok")
    /\ Goto(t, "gcTick")
    /\ UNCHANGED <<fsvars, lockvars, counters, req, tmp, handle, scan, hist>>

-----------------------------------------------------------------------------
\* Mutant: the error is dropped and the call reports success.
IoErrorSwallowed(t) ==
    /\ IoErrors
    /\ pc[t] \in {"rename", "syncDir", "unlink"}
    /\ EarlyReturn(t, "ok")
    /\ tmp' = [tmp EXCEPT ![t] = 0]
    /\ UNCHANGED <<fsvars, counters, req, handle, scan, hist>>

\* Any system call may fail; `?` returns the error.  The stat calls of is_file()
\* and exists() are not among them: their errors are dropped (IsFile, ReadDir).
IoError(t) ==
    /\ IoErrors
    /\ pc[t] \in {"mkdir", "create", "fill", "syncTmp", "rename", "syncDir",
                  "open", "readAll", "unlink", "readDir", "scan"}
    /\ EarlyReturn(t, "err")
    /\ tmp' = [tmp EXCEPT ![t] = 0]
    /\ handle' = [handle EXCEPT ![t] = NoInode]
    /\ scan' = [scan EXCEPT ![t] = {}]
    /\ UNCHANGED <<fsvars, counters, req, hist>>

Return(t) ==
    /\ At(t, "ret")
    /\ req' = [req EXCEPT ![t] = NoReq]
    /\ Respond(t, NoRsp)
    /\ raced' = [raced EXCEPT ![t] = FALSE]
    /\ Goto(t, "idle")
    /\ UNCHANGED <<fsvars, lockvars, counters, tmp, handle, scan, survive, crashes>>

\* The process stops wherever its threads are and is started again.
NewProcess ==
    /\ crashes < MaxCrashes
    /\ crashes' = crashes + 1
    /\ locks' = NewLocks /\ tmpCounter' = NewTmpCounter /\ gcCounter' = NewGcCounter
    /\ pc' = All("idle") /\ req' = All(NoReq) /\ rsp' = All(NoRsp)
    /\ ref' = All(NoLock) /\ guard' = All("none")
    /\ tmp' = All(0) /\ handle' = All(NoInode) /\ scan' = All({}) /\ raced' = All(FALSE)

\* The build aborts on panic: new stores, the same files.
ProcessCrash == NewProcess /\ UNCHANGED <<fsvars, survive>>

PowerLoss ==
    /\ NewProcess
    /\ LosePower
    /\ survive' = [k \in Keys |-> {ValueOf(k)'}]

KernelWriteback ==
    /\ MaxCrashes > crashes
    /\ Writeback
    /\ UNCHANGED <<lockvars, counters, pc, req, rsp, tmp, handle, scan, hist>>

Step(t) ==
    \/ Refuse(t)
    \/ MakeParent(t) \/ CreateTmp(t) \/ FillTmp(t) \/ SyncTmp(t)
    \/ GetLock(t) \/ Acquire(t)
    \/ OpenKey(t) \/ ReadAll(t)
    \/ RenameTmp(t) \/ SyncParent(t)
    \/ IsFile(t) \/ UnlinkKey(t)
    \/ ReadDir(t) \/ VisitEntry(t) \/ ListDone(t)
    \/ GcTick(t) \/ GcSweep(t) \/ Return(t)

Next ==
    \/ \E t \in Threads : Call(t) \/ Step(t) \/ IoError(t)
    \/ ProcessCrash \/ PowerLoss \/ KernelWriteback

Spec == Init /\ [][Next]_vars

\* Threads inside the store are scheduled, and an RwLock that becomes free
\* again and again is eventually handed to each waiter (std's futex lock
\* blocks new readers while a writer waits).
Fairness == \A t \in Threads : SF_vars(Step(t))
LiveSpec == Spec /\ Fairness

-----------------------------------------------------------------------------
(***************************************************************************)
(* Properties.                                                             *)
(***************************************************************************)
LockTypeOK ==
    /\ locks \in [Stores -> [Keys -> LockIds \cup {NoLock}]]
    /\ ref \in [Threads -> LockIds \cup {NoLock}]
    /\ guard \in [Threads -> {"none", "read", "write"}]
    /\ gcCounter \in [Stores -> 0 .. GC_LOCK_INTERVAL - 1]

CallTypeOK ==
    /\ pc \in [Threads -> Steps]
    /\ req \in [Threads -> Requests \cup {NoReq}]
    /\ tmpCounter \in [Stores -> 0 .. MaxWrites]
    /\ tmp \in [Threads -> 0 .. MaxWrites]
    /\ handle \in [Threads -> Inodes \cup {NoInode}]
    /\ scan \in [Threads -> SUBSET Paths]

ResultTypeOK ==
    /\ rsp \in [Threads -> FileValues \cup {NoRsp, "applied", "ok", "err"}]
    /\ raced \in [Threads -> BOOLEAN]
    /\ survive \in [Keys -> SUBSET FileValues]
    /\ crashes \in 0 .. MaxCrashes

\* Every variable keeps its type; the bounds on the counters are the bounds
\* garbage_collect_locks and write keep them in.
TypeOK == FsTypeOK /\ LockTypeOK /\ CallTypeOK /\ ResultTypeOK

SamePath(t, u) ==
    /\ req[t] # NoReq /\ req[u] # NoReq
    /\ MyStore(t) = MyStore(u) /\ MyKey(t) = MyKey(u)

\* While a thread renames or removes a key's file under the write guard, no
\* other thread of the same store reads, renames or removes it.  It rests on
\* garbage_collect_locks never dropping an entry some thread still holds.
MutualExclusion ==
    \A t, u \in Threads :
        t # u /\ SamePath(t, u) /\ guard[t] = "write" => guard[u] = "none"

\* Each thread inside write has a temporary file of its own from the moment
\* it creates it until it has renamed it.
UniqueTmpFiles ==
    \A t, u \in Threads :
        /\ t # u
        /\ \A x \in {t, u} : /\ req[x] \in WriteReqs
                             /\ pc[x] \in {"create", "fill", "syncTmp", "lock",
                                           "acquire", "rename"}
        => MyTmp(t) # MyTmp(u)

\* What key k would be after a power loss in this state.
SurvivingValue(k) ==
    IF Surviving(KeyPath(k)) = NoInode THEN Missing ELSE ddata[Surviving(KeyPath(k))]

\* At no instant can a power loss leave a key with anything but what the last
\* write or remove that synced its directory left there, or what a rename or an
\* unlink since then made of it: never an older value, never a partly written
\* file.  A remove that returned Ok because is_file() saw no file synced nothing
\* and is not among them, see RemovedStaysRemoved.
PowerLossKeepsSynced == \A k \in Keys : SurvivingValue(k) \in survive[k]

\* "In order to assert we permanently removed the file": a non-lazy remove that
\* returns Ok leaves no value to a power loss, unless a write came since.  It is
\* false of this code: the remove finds the file unlinked by a caller that has
\* not synced the directory, returns Ok at is_file(), and the old value is back
\* after a power loss.
RemovedStaysRemoved ==
    \A t \in Threads :
        /\ req[t] \in RemoveReqs /\ ~req[t].lazy
        /\ pc[t] = "ret" /\ rsp[t] = "ok" /\ ValueOf(MyKey(t)) = Missing
        => survive[MyKey(t)] = {Missing}

\* The file of a key is never seen partly written: it holds the whole value of
\* some write, or does not exist.
CompleteFiles == \A k \in Keys : ValueOf(k) \in Values \cup {Missing}

\* list of a valid namespace fails only when a key it was about to visit was
\* removed (no system call failing otherwise): neither
\* writers replacing keys nor their temporary files coming and going disturb it.
ListFailsOnlyOnRemove ==
    \A t \in Threads :
        req[t] \in ListReqs /\ rsp[t] = "err" => raced[t]

KV == INSTANCE KVStore WITH store <- [k \in Keys |-> ValueOf(k)]

\* The store implements the abstract key-value store: reads, writes and
\* removes are atomic, and a write, or a remove that unlinked the key itself
\* and was not lazy, is not undone by a power loss once it returned Ok.
ImplementsKVStore == KV!Spec

\* Every call returns: no deadlock among the table's mutex, the per-path locks
\* and the callers, whatever mix of calls runs.
EveryCallReturns == \A t \in Threads : pc[t] # "idle" ~> pc[t] = "idle"
=============================================================================
