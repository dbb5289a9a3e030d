------------------------------- MODULE PosixFs -------------------------------
(***************************************************************************)
(* The operating system's file system, as far as filesystem_store.rs uses  *)
(* it.  External to the repository: every operator is one system call.     *)
(*                                                                         *)
(* A directory entry maps a path to an inode, an inode holds contents.     *)
(* Both exist twice: in the page cache (vol, data), which is what system   *)
(* calls see, and on the medium (dur, ddata), which is what a power loss   *)
(* leaves.  fsync copies from the first to the second; the kernel may do   *)
(* so at any moment without being asked.  The entries of one directory are *)
(* written back together, so a rename reaches the medium whole or not at   *)
(* all.  The entry of a directory in its own parent is cached too.         *)
(***************************************************************************)
EXTENDS Naturals

CONSTANTS Paths,    \* every path the program may name
          Inodes,   \* a set of positive integers
          Dirs,     \* the directories
          PathDir,  \* [Paths -> Dirs], the parent of a path
          Contents, \* complete file contents
          Empty     \* the contents of a file that is not completely written

VARIABLES vol,      \* [Paths -> Inodes \cup {NoInode}], cached entries
          dur,      \* the same on the medium
          data,     \* [Inodes -> Contents \cup {Empty}], cached contents
          ddata,    \* the same on the medium
          dirs      \* [Dirs -> {"absent", "cached", "durable"}]

NoInode == 0

FsTypeOK ==
    /\ vol \in [Paths -> Inodes \cup {NoInode}]
    /\ dur \in [Paths -> Inodes \cup {NoInode}]
    /\ data \in [Inodes -> Contents \cup {Empty}]
    /\ ddata \in [Inodes -> Contents \cup {Empty}]
    /\ dirs \in [Dirs -> {"absent", "cached", "durable"}]

\* A file system without files; the directories in present exist on the medium.
FsInit(present) ==
    /\ vol = [p \in Paths |-> NoInode]
    /\ dur = vol
    /\ data = [i \in Inodes |-> Empty]
    /\ ddata = data
    /\ dirs = [d \in Dirs |-> IF d \in present THEN "durable" ELSE "absent"]

Exists(p) == vol[p] # NoInode

\* Inodes neither named in the cache or on the medium nor held open.
FreeInodes(open) ==
    {i \in Inodes : i \notin open /\ \A p \in Paths : vol[p] # i /\ dur[p] # i}

\* mkdir -p
MakeDir(d) ==
    /\ dirs' = [dirs EXCEPT ![d] = IF @ = "absent" THEN "cached" ELSE @]
    /\ UNCHANGED <<vol, dur, data, ddata>>

\* open(O_CREAT | O_TRUNC) yielding inode i: an existing file is emptied.
OpenTruncate(p, i) ==
    /\ vol' = [vol EXCEPT ![p] = i]
    /\ data' = [data EXCEPT ![i] = Empty]
    /\ ddata' = IF Exists(p) THEN ddata ELSE [ddata EXCEPT ![i] = Empty]
    /\ UNCHANGED <<dur, dirs>>

\* write(2) of the whole buffer through an open handle on i.
WriteFile(i, c) ==
    /\ data' = [data EXCEPT ![i] = c]
    /\ UNCHANGED <<vol, dur, ddata, dirs>>

\* fsync on a file.
SyncFile(i) ==
    /\ ddata' = [ddata EXCEPT ![i] = data[i]]
    /\ UNCHANGED <<vol, dur, data, dirs>>

\* rename(2), replacing the target atomically.
RenameFile(from, to) ==
    /\ vol' = [vol EXCEPT ![to] = vol[from], ![from] = NoInode]
    /\ UNCHANGED <<dur, data, ddata, dirs>>

\* unlink(2)
UnlinkFile(p) ==
    /\ vol' = [vol EXCEPT ![p] = NoInode]
    /\ UNCHANGED <<dur, data, ddata, dirs>>

\* fsync on a directory: its entries reach the medium (its own entry in the
\* parent directory need not).
SyncDirectory(d) ==
    /\ dur' = [p \in Paths |-> IF PathDir[p] = d THEN vol[p] ELSE dur[p]]
    /\ UNCHANGED <<vol, data, ddata, dirs>>

\* The kernel writes back a directory, a file, or a directory's own entry.
WritebackEntries == \E d \in Dirs : SyncDirectory(d) /\ dur' # dur
WritebackFile ==
    \E p \in Paths : \E i \in {vol[p], dur[p]} \ {NoInode} :
        SyncFile(i) /\ ddata' # ddata
WritebackDir ==
    /\ \E d \in Dirs : dirs[d] = "cached" /\ dirs' = [dirs EXCEPT ![d] = "durable"]
    /\ UNCHANGED <<vol, dur, data, ddata>>
Writeback == WritebackEntries \/ WritebackFile \/ WritebackDir

\* What a power loss leaves of the entries: those of durable directories.
Surviving(p) == IF dirs[PathDir[p]] = "durable" THEN dur[p] ELSE NoInode

\* The machine loses power and comes back: the cache is what the medium held.
LosePower ==
    /\ vol' = [p \in Paths |-> Surviving(p)]
    /\ dur' = vol'
    /\ data' = ddata
    /\ dirs' = [d \in Dirs |-> IF dirs[d] = "cached" THEN "absent" ELSE dirs[d]]
    /\ UNCHANGED ddata
=============================================================================
