------------------------------ MODULE Migration ------------------------------
(***************************************************************************)
(* migrate_deprecated_spendable_outputs (sweep.rs), a task that every      *)
(* start of the node spawns: descriptors of spendable outputs that an      *)
(* older version left in three directories are handed to LDK's             *)
(* OutputSweeper, and the directories are removed.  An unwrap that fails   *)
(* aborts the node (panic = "abort"); so may anything else at any step,    *)
(* and the next start runs the migration again on what it finds.           *)
(***************************************************************************)
EXTENDS FiniteSets, Naturals

CONSTANTS
    Outputs,       \* descriptors; a file of the pending directory holds one
    MaxCrashes     \* bound: crashes that are not failed unwraps

ASSUME MigrationAssumption ==
    IsFiniteSet(Outputs) /\ MaxCrashes \in Nat

VARIABLES
    pc,          \* the task's next step; "start" before it runs, "down" without a process
    dirs,        \* the directories that exist
    pending,     \* pending_spendable_outputs: its 64-character files
    processing,  \* processing_spendable_outputs: its files
    spendable,   \* spendable_outputs: the contents of its files
    outputs,     \* the local variable outputs
    tracked,     \* descriptors the sweeper has, persisted before it returns
    failedAt,    \* the unwrap that aborted the node last
    crashes

vars == <<pc, dirs, pending, processing, spendable, outputs, tracked, failedAt, crashes>>
files == <<dirs, pending, processing, spendable>>

Dirs == {"pending", "processing", "spendable"}

\* What a file of spendable_outputs, final or temporary, holds: whole
\* descriptors, and possibly the beginning of another one.
File(os, torn) == [outs |-> os, torn |-> torn]
Contents(fs) == UNION {f.outs : f \in fs}

\* The older version never removed its pending directory, and moved files
\* through the other two like this one does.
Init ==
    /\ pc = "start"
    /\ pending \in SUBSET Outputs /\ processing \in SUBSET (Outputs \ pending)
    /\ spendable = {File({o}, FALSE) : o \in Outputs \ (pending \cup processing)}
    /\ dirs = {"pending"} \cup (IF processing = {} THEN {} ELSE {"processing"})
                          \cup (IF spendable = {} THEN {} ELSE {"spendable"})
    /\ outputs = {} /\ tracked = {} /\ failedAt = "none" /\ crashes = 0

Goto(l) == pc' = l

\* A failed unwrap.
Abort(where) == pc' = "down" /\ failedAt' = where /\ outputs' = {}

-----------------------------------------------------------------------------
\* None of the directories exists: nothing to do.  If the pending directory
\* can be read its files are moved, else the next part follows.
Begin ==
    /\ pc = "start"
    /\ Goto(IF dirs = {} THEN "done" ELSE IF "pending" \in dirs THEN "move" ELSE "collect")
    /\ UNCHANGED <<files, outputs, tracked, failedAt, crashes>>

MoveFile(o) ==
    /\ pc = "move" /\ o \in pending
    /\ dirs' = dirs \cup {"processing"}
    /\ pending' = pending \ {o} /\ processing' = processing \cup {o}
    /\ UNCHANGED <<pc, spendable, outputs, tracked, failedAt, crashes>>

\* Mutant: what was moved is written only when there was nothing to move.
ConcatenateInverted ==
    /\ pc = "move" /\ pending = {}
    /\ outputs' = processing
    /\ Goto(IF processing # {} THEN "collect" ELSE "create")
    /\ UNCHANGED <<files, tracked, failedAt, crashes>>

\* Every file of the processing directory is read, those of an earlier start
\* included; without any there is nothing to write.
Concatenate ==
    /\ pc = "move" /\ pending = {}
    /\ outputs' = processing
    /\ Goto(IF processing = {} THEN "collect" ELSE "create")
    /\ UNCHANGED <<files, tracked, failedAt, crashes>>

\* persister.write: a temporary file in spendable_outputs ...
CreateFile ==
    /\ pc = "create"
    /\ dirs' = dirs \cup {"spendable"}
    /\ spendable' = spendable \cup {File({}, FALSE)}
    /\ Goto("fill")
    /\ UNCHANGED <<pending, processing, outputs, tracked, failedAt, crashes>>

\* ... is filled; its rename changes nothing that the migration looks at.
FillFile ==
    /\ pc = "fill"
    /\ spendable' = (spendable \ {File({}, FALSE)}) \cup {File(outputs, FALSE)}
    /\ Goto("dropProcessing")
    /\ UNCHANGED <<dirs, pending, processing, outputs, tracked, failedAt, crashes>>

\* The write ends early: its error is unwrapped, the temporary file stays.
FillFails ==
    /\ pc = "fill"
    /\ \E os \in SUBSET outputs :
          spendable' = (spendable \ {File({}, FALSE)}) \cup {File(os, TRUE)}
    /\ Abort("write")
    /\ UNCHANGED <<dirs, pending, processing, tracked, crashes>>

\* remove_dir_all(processing): its files one by one, then the directory.
DropProcessingFile ==
    /\ pc = "dropProcessing" /\ processing # {}
    /\ \E o \in processing : processing' = processing \ {o}
    /\ UNCHANGED <<pc, dirs, pending, spendable, outputs, tracked, failedAt, crashes>>

DropProcessing ==
    /\ pc = "dropProcessing" /\ processing = {}
    /\ dirs' = dirs \ {"processing"}
    /\ Goto("collect")
    /\ UNCHANGED <<pending, processing, spendable, outputs, tracked, failedAt, crashes>>

\* Mutant: each file's descriptors replace those of the file before it.
CollectLast ==
    /\ pc = "collect" /\ \A f \in spendable : ~f.torn
    /\ outputs' \in {{}} \cup {f.outs : f \in spendable}
    /\ Goto("track")
    /\ UNCHANGED <<files, tracked, failedAt, crashes>>

\* Every file of spendable_outputs is parsed, a temporary one included.
Collect ==
    /\ pc = "collect"
    /\ \/ /\ \A f \in spendable : ~f.torn
          /\ outputs' = Contents(spendable) /\ Goto("track")
          /\ UNCHANGED failedAt
       \/ (\E f \in spendable : f.torn) /\ Abort("parse")
    /\ UNCHANGED <<files, tracked, crashes>>

\* track_spendable_outputs skips what it has and persists before it returns.
Track ==
    /\ pc = "track"
    /\ tracked' = tracked \cup outputs
    /\ Goto("dropSpendable")
    /\ UNCHANGED <<files, outputs, failedAt, crashes>>

DropSpendableFile ==
    /\ pc = "dropSpendable" /\ spendable # {}
    /\ \E f \in spendable : spendable' = spendable \ {f}
    /\ UNCHANGED <<pc, dirs, pending, processing, outputs, tracked, failedAt, crashes>>

\* remove_dir_all on an emptied directory; it fails on one that is not there.
RemoveDir(d, next) ==
    \/ d \in dirs /\ dirs' = dirs \ {d} /\ Goto(next) /\ UNCHANGED <<outputs, failedAt>>
    \/ d \notin dirs /\ Abort("remove") /\ UNCHANGED dirs

DropSpendable ==
    /\ pc = "dropSpendable" /\ spendable = {}
    /\ RemoveDir("spendable", "dropPending")
    /\ UNCHANGED <<pending, processing, spendable, tracked, crashes>>

DropPending ==
    /\ pc = "dropPending"
    /\ RemoveDir("pending", "done")
    /\ UNCHANGED <<pending, processing, spendable, tracked, crashes>>

\* The node dies for another reason, after the migration too.
Crash ==
    /\ pc # "down" /\ crashes < MaxCrashes
    /\ crashes' = crashes + 1
    /\ pc' = "down" /\ outputs' = {}
    /\ UNCHANGED <<files, tracked, failedAt>>

Restart ==
    /\ pc = "down"
    /\ Goto("start")
    /\ UNCHANGED <<files, outputs, tracked, failedAt, crashes>>

\* The task has returned and the node runs on.
Finished == pc = "done" /\ UNCHANGED vars

Step ==
    \/ Begin \/ (\E o \in Outputs : MoveFile(o)) \/ Concatenate
    \/ CreateFile \/ FillFile \/ DropProcessingFile \/ DropProcessing
    \/ Collect \/ Track \/ DropSpendableFile \/ DropSpendable \/ DropPending
Next == Step \/ FillFails \/ Crash \/ Restart \/ Finished

Spec == Init /\ [][Next]_vars

\* The runtime polls the task and the operator starts a dead node again.
LiveSpec == Spec /\ WF_vars(Step) /\ WF_vars(Restart)

-----------------------------------------------------------------------------
\* Types; a directory that does not exist has no files.
TypeOK ==
    /\ pc \in {"start", "move", "create", "fill", "dropProcessing", "collect", "track",
               "dropSpendable", "dropPending", "done", "down"}
    /\ dirs \subseteq Dirs
    /\ pending \subseteq Outputs /\ processing \subseteq Outputs
    /\ spendable \subseteq [outs : SUBSET Outputs, torn : BOOLEAN]
    /\ outputs \subseteq Outputs /\ tracked \subseteq Outputs
    /\ pending # {} => "pending" \in dirs
    /\ processing # {} => "processing" \in dirs
    /\ spendable # {} => "spendable" \in dirs
    /\ failedAt \in {"none", "write", "parse", "remove"}

\* Whatever crashes and reruns there are, a descriptor the older version left
\* is with the sweeper or in one of the files, until the sweeper has it.
NothingLost ==
    Outputs \subseteq tracked \cup pending \cup processing \cup Contents(spendable)

\* "migrate away from the old sweep persistence": every descriptor reaches the
\* sweeper, over as many starts of the node as that takes, unless a write that
\* ran out of space left a torn temporary file in spendable_outputs, on which
\* every later start aborts.
EventuallyTracked == <>(Outputs \subseteq tracked \/ \E f \in spendable : f.torn)

\* The unwraps of the last two removals state that both directories are there
\* whenever the migration gets that far.  They are not after a crash between the
\* two, and then every start aborts.
RemovalsSucceed == failedAt # "remove"

\* That abort, which repeats itself at every start, keeps no descriptor from the
\* sweeper: when the removal fails none is waiting any more.
RemovalFailsOnlyWhenTracked == failedAt = "remove" => Outputs \subseteq tracked
==============================================================================
