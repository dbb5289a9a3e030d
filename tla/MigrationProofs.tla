--------------------------- MODULE MigrationProofs ---------------------------
(***************************************************************************)
(* NothingLost and RemovalFailsOnlyWhenTracked for every set of            *)
(* descriptors and any number of crashes.                                  *)
(*                                                                         *)
(* NothingLost is not inductive: why a directory may go depends on where   *)
(* the task is.  Progress says what each step already has in a safe place, *)
(* and TypeOK is needed because only an empty directory may stop existing. *)
(* For the other property Emptied says when nothing is waiting any more.   *)
(***************************************************************************)
EXTENDS Migration, TLAPS

\* Where the task is, and what that tells about the files: nothing is pending
\* once the files were moved; what is being written is what is processed; the
\* processed files are in spendable_outputs when they go, and the files there
\* are with the sweeper when those go.
Progress ==
    /\ pc \in {"create", "fill", "dropProcessing", "collect", "track", "dropSpendable",
               "dropPending"} => pending = {}
    /\ pc \in {"create", "fill"} => outputs = processing
    /\ pc = "fill" => "spendable" \in dirs
    /\ pc = "dropProcessing" => processing \subseteq Contents(spendable)
    /\ pc = "track" => outputs = Contents(spendable)
    /\ pc = "dropSpendable" => Contents(spendable) \subseteq tracked

Inv == TypeOK /\ NothingLost /\ Progress

-----------------------------------------------------------------------------
\* The descriptors of a set of files, element by element.
LEMMA ContentsElement ==
  ASSUME NEW S, NEW x
  PROVE  x \in Contents(S) <=> \E f \in S : x \in f.outs
BY DEF Contents

\* What the fields of a file are.
LEMMA FileFields ==
  ASSUME NEW os, NEW torn
  PROVE  File(os, torn).outs = os
BY DEF File

\* The files written are files in the sense of the type invariant.
LEMMA FileType ==
  ASSUME NEW os \in SUBSET Outputs, NEW torn \in BOOLEAN
  PROVE  File(os, torn) \in [outs : SUBSET Outputs, torn : BOOLEAN]
BY DEF File

\* An empty file adds nothing.
LEMMA ContentsAddEmpty ==
  ASSUME NEW S
  PROVE  Contents(S \cup {File({}, FALSE)}) = Contents(S)
<1>1. File({}, FALSE).outs = {}
  BY FileFields
<1>2. ASSUME NEW x PROVE x \in Contents(S \cup {File({}, FALSE)}) <=> x \in Contents(S)
  <2>1. (\E f \in S \cup {File({}, FALSE)} : x \in f.outs) <=> \E f \in S : x \in f.outs
    BY <1>1
  <2> QED
    BY <2>1, ContentsElement
<1> QED
  BY <1>2

\* Replacing an empty file by another one loses no descriptor.
LEMMA ContentsReplaceEmpty ==
  ASSUME NEW S, NEW os, NEW torn
  PROVE  Contents((S \ {File({}, FALSE)}) \cup {File(os, torn)}) = Contents(S) \cup os
<1>1. File({}, FALSE).outs = {} /\ File(os, torn).outs = os
  BY FileFields
<1> DEFINE T == (S \ {File({}, FALSE)}) \cup {File(os, torn)}
<1>2. ASSUME NEW x PROVE x \in Contents(T) <=> x \in Contents(S) \cup os
  <2>1. (\E f \in T : x \in f.outs) <=> (\E f \in S : x \in f.outs) \/ x \in os
    BY <1>1
  <2> HIDE DEF T
  <2> QED
    BY <2>1, ContentsElement
<1> QED
  BY <1>2

\* Fewer files hold fewer descriptors.
LEMMA ContentsRemove ==
  ASSUME NEW S, NEW f
  PROVE  Contents(S \ {f}) \subseteq Contents(S)
BY DEF Contents

\* No files hold none.
LEMMA ContentsEmpty == Contents({}) = {}
BY DEF Contents

-----------------------------------------------------------------------------
\* Every descriptor starts out in one of the three directories.
LEMMA InitInv == Init => Inv
<1> SUFFICES ASSUME Init PROVE Inv
  OBVIOUS
<1> DEFINE Rest == Outputs \ (pending \cup processing)
<1>1. spendable = {File({o}, FALSE) : o \in Rest}
  BY DEF Init
<1>2. \A o \in Rest : o \in Contents(spendable)
  <2> SUFFICES ASSUME NEW o \in Rest PROVE o \in Contents(spendable)
    OBVIOUS
  <2>1. File({o}, FALSE) \in spendable
    BY <1>1
  <2>2. o \in File({o}, FALSE).outs
    BY DEF File
  <2> QED
    BY <2>1, <2>2, ContentsElement
<1>3. TypeOK
  <2>1. spendable \subseteq [outs : SUBSET Outputs, torn : BOOLEAN]
    <3> SUFFICES ASSUME NEW f \in spendable PROVE f \in [outs : SUBSET Outputs, torn : BOOLEAN]
      OBVIOUS
    <3>1. PICK o \in Rest : f = File({o}, FALSE)
      BY <1>1
    <3> QED
      BY <3>1, FileType
  <2>2. dirs \subseteq Dirs /\ "pending" \in dirs
        /\ (processing # {} => "processing" \in dirs) /\ (spendable # {} => "spendable" \in dirs)
    BY DEF Init, Dirs
  <2>3. pending \subseteq Outputs /\ processing \subseteq Outputs /\ outputs = {} /\ tracked = {}
        /\ pc = "start" /\ failedAt = "none"
    BY DEF Init
  <2> QED
    BY <2>1, <2>2, <2>3 DEF TypeOK
<1>4. NothingLost
  BY <1>2 DEF NothingLost
<1>5. Progress
  BY DEF Init, Progress
<1> QED
  BY <1>3, <1>4, <1>5 DEF Inv

\* Every step preserves the invariant.
LEMMA StepInv == Inv /\ [Next]_vars => Inv'
<1> SUFFICES ASSUME Inv, [Next]_vars PROVE Inv'
  OBVIOUS
<1>0. TypeOK /\ NothingLost /\ Progress
  BY DEF Inv
<1>1. CASE Begin
  BY <1>0, <1>1 DEF Begin, Goto, files, Inv, TypeOK, NothingLost, Progress
<1>2. ASSUME NEW o \in Outputs, MoveFile(o) PROVE Inv'
  BY <1>0, <1>2 DEF MoveFile, Dirs, Inv, TypeOK, NothingLost, Progress
<1>3. CASE Concatenate
  BY <1>0, <1>3 DEF Concatenate, Goto, files, Inv, TypeOK, NothingLost, Progress
<1>4. CASE CreateFile
  <2>1. Contents(spendable') = Contents(spendable)
    BY <1>4, ContentsAddEmpty DEF CreateFile
  <2>2. File({}, FALSE) \in [outs : SUBSET Outputs, torn : BOOLEAN]
    BY FileType
  <2>3. TypeOK'
    BY <1>0, <1>4, <2>2 DEF CreateFile, Goto, Dirs, TypeOK
  <2>4. NothingLost' /\ Progress'
    BY <1>0, <1>4, <2>1 DEF CreateFile, Goto, NothingLost, Progress
  <2> QED
    BY <2>3, <2>4 DEF Inv
<1>5. CASE FillFile
  <2>1. Contents(spendable') = Contents(spendable) \cup outputs
    BY <1>5, ContentsReplaceEmpty DEF FillFile
  <2>2. File(outputs, FALSE) \in [outs : SUBSET Outputs, torn : BOOLEAN]
    BY <1>0, FileType DEF TypeOK
  <2>3. TypeOK'
    BY <1>0, <1>5, <2>2 DEF FillFile, Goto, TypeOK, Progress
  <2>4. NothingLost' /\ Progress'
    BY <1>0, <1>5, <2>1 DEF FillFile, Goto, NothingLost, Progress
  <2> QED
    BY <2>3, <2>4 DEF Inv
<1>6. CASE FillFails
  <2>1. PICK os \in SUBSET outputs :
           spendable' = (spendable \ {File({}, FALSE)}) \cup {File(os, TRUE)}
    BY <1>6 DEF FillFails
  <2>2. Contents(spendable') = Contents(spendable) \cup os
    BY <2>1, ContentsReplaceEmpty
  <2>3. File(os, TRUE) \in [outs : SUBSET Outputs, torn : BOOLEAN]
    BY <1>0, FileType DEF TypeOK
  <2>4. TypeOK'
    BY <1>0, <1>6, <2>1, <2>3 DEF FillFails, Abort, TypeOK, Progress
  <2>5. NothingLost' /\ Progress'
    BY <1>0, <1>6, <2>2 DEF FillFails, Abort, NothingLost, Progress
  <2> QED
    BY <2>4, <2>5 DEF Inv
<1>7. CASE DropProcessingFile
  BY <1>0, <1>7 DEF DropProcessingFile, Inv, TypeOK, NothingLost, Progress
<1>8. CASE DropProcessing
  BY <1>0, <1>8 DEF DropProcessing, Goto, Inv, TypeOK, NothingLost, Progress
<1>9. CASE Collect
  <2>1. Contents(spendable) \subseteq Outputs
    BY <1>0 DEF TypeOK, Contents
  <2>2. TypeOK'
    BY <1>0, <1>9, <2>1 DEF Collect, Abort, Goto, files, TypeOK
  <2>3. NothingLost' /\ Progress'
    BY <1>0, <1>9 DEF Collect, Abort, Goto, files, NothingLost, Progress
  <2> QED
    BY <2>2, <2>3 DEF Inv
<1>10. CASE Track
  BY <1>0, <1>10 DEF Track, Goto, files, Inv, TypeOK, NothingLost, Progress
<1>11. CASE DropSpendableFile
  <2>1. PICK f \in spendable : spendable' = spendable \ {f}
    BY <1>11 DEF DropSpendableFile
  <2>2. Contents(spendable') \subseteq Contents(spendable)
    BY <2>1, ContentsRemove
  <2>3. TypeOK'
    BY <1>0, <1>11, <2>1 DEF DropSpendableFile, TypeOK
  <2>4. NothingLost' /\ Progress'
    BY <1>0, <1>11, <2>2 DEF DropSpendableFile, NothingLost, Progress
  <2> QED
    BY <2>3, <2>4 DEF Inv
<1>12. CASE DropSpendable
  <2>1. TypeOK'
    BY <1>0, <1>12 DEF DropSpendable, RemoveDir, Abort, Goto, TypeOK
  <2>2. NothingLost' /\ Progress'
    BY <1>0, <1>12 DEF DropSpendable, RemoveDir, Abort, Goto, NothingLost, Progress
  <2> QED
    BY <2>1, <2>2 DEF Inv
<1>13. CASE DropPending
  <2>1. TypeOK'
    BY <1>0, <1>13 DEF DropPending, RemoveDir, Abort, Goto, TypeOK, Progress
  <2>2. NothingLost' /\ Progress'
    BY <1>0, <1>13 DEF DropPending, RemoveDir, Abort, Goto, NothingLost, Progress
  <2> QED
    BY <2>1, <2>2 DEF Inv
<1>14. CASE Crash
  BY <1>0, <1>14 DEF Crash, files, Inv, TypeOK, NothingLost, Progress
<1>15. CASE Restart
  BY <1>0, <1>15 DEF Restart, Goto, files, Inv, TypeOK, NothingLost, Progress
<1>16. CASE UNCHANGED vars
  BY <1>0, <1>16 DEF vars, Inv, TypeOK, NothingLost, Progress
<1> QED
  BY <1>1, <1>2, <1>3, <1>4, <1>5, <1>6, <1>7, <1>8, <1>9, <1>10, <1>11, <1>12, <1>13,
     <1>14, <1>15, <1>16 DEF Next, Step, Finished

\* migrate_deprecated_spendable_outputs never loses a descriptor, for every
\* set of descriptors, however often the node dies or a write fails.
THEOREM NoDescriptorLost == Spec => []NothingLost
<1>1. Inv => NothingLost
  BY DEF Inv
<1> QED
  BY InitInv, StepInv, <1>1, PTL DEF Spec

-----------------------------------------------------------------------------
\* What the two removals rest on: the pending directory goes last, so that
\* nothing is being processed without it, and behind the writing of
\* spendable_outputs nothing is.
Emptied ==
    /\ "pending" \notin dirs => processing = {}
    /\ pc \in {"collect", "track", "dropSpendable", "dropPending"} => processing = {}
    /\ pc = "dropPending" => spendable = {}

\* Every step preserves it, and a removal fails only when no descriptor is
\* waiting.
LEMMA StepEmptied ==
    Inv /\ Emptied /\ RemovalFailsOnlyWhenTracked /\ [Next]_vars
        => Emptied' /\ RemovalFailsOnlyWhenTracked'
<1> SUFFICES ASSUME Inv, Emptied, RemovalFailsOnlyWhenTracked, [Next]_vars
             PROVE  Emptied' /\ RemovalFailsOnlyWhenTracked'
  OBVIOUS
<1>0. TypeOK /\ NothingLost /\ Progress
  BY DEF Inv
<1> USE DEF Emptied, RemovalFailsOnlyWhenTracked
<1>1. CASE Begin
  BY <1>0, <1>1 DEF Begin, Goto, files
<1>2. ASSUME NEW o \in Outputs, MoveFile(o)
      PROVE  Emptied' /\ RemovalFailsOnlyWhenTracked'
  BY <1>0, <1>2 DEF MoveFile, TypeOK
<1>3. CASE Concatenate \/ CreateFile \/ FillFile
  BY <1>0, <1>3 DEF Concatenate, CreateFile, FillFile, Goto, files
<1>4. CASE FillFails
  BY <1>4 DEF FillFails, Abort
<1>5. CASE DropProcessingFile
  BY <1>5 DEF DropProcessingFile
<1>6. CASE DropProcessing
  BY <1>6 DEF DropProcessing, Goto
<1>7. CASE Collect
  BY <1>7 DEF Collect, Abort, Goto, files
<1>8. CASE Track
  BY <1>8 DEF Track, Goto, files
<1>9. CASE DropSpendableFile
  BY <1>9 DEF DropSpendableFile
<1>10. CASE DropSpendable
  <2>1. Outputs \subseteq tracked
    BY <1>0, <1>10, ContentsEmpty DEF DropSpendable, NothingLost, Progress
  <2>2. QED
    BY <1>10, <2>1 DEF DropSpendable, RemoveDir, Abort, Goto
<1>11. CASE DropPending
  <2>1. Outputs \subseteq tracked
    BY <1>0, <1>11, ContentsEmpty DEF DropPending, NothingLost, Progress
  <2>2. QED
    BY <1>11, <2>1 DEF DropPending, RemoveDir, Abort, Goto
<1>12. CASE Crash \/ Restart
  BY <1>12 DEF Crash, Restart, Goto, files
<1>13. CASE UNCHANGED vars
  BY <1>13 DEF vars
<1>14. QED
  BY <1>1, <1>2, <1>3, <1>4, <1>5, <1>6, <1>7, <1>8, <1>9, <1>10, <1>11, <1>12,
     <1>13 DEF Next, Step, Finished

\* The unwrap of a failed remove_dir_all, which aborts the node at every start
\* from then on, keeps no descriptor from the sweeper.
THEOREM FailedRemovalLosesNothing == Spec => []RemovalFailsOnlyWhenTracked
<1>1. Init => Emptied /\ RemovalFailsOnlyWhenTracked
  BY DEF Init, Emptied, RemovalFailsOnlyWhenTracked
<1>2. Inv /\ Emptied /\ RemovalFailsOnlyWhenTracked /\ [Next]_vars
         => Inv' /\ Emptied' /\ RemovalFailsOnlyWhenTracked'
  BY StepInv, StepEmptied
<1>3. QED
  BY InitInv, <1>1, <1>2, PTL DEF Spec
==============================================================================
