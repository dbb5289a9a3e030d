---------------------------- MODULE ChainSyncProofs ----------------------------
(***************************************************************************)
(* No block is skipped or given twice, and a node that read its manager    *)
(* watches every channel, for every set of channels, every tree of blocks  *)
(* and any number of crashes and failed reads.                             *)
(*                                                                         *)
(* Neither is inductive: that the listeners are together, and all there,   *)
(* when the poller starts is the work of start-up, step by step.           *)
(***************************************************************************)
EXTENDS ChainSync, SequenceTheorems, TLAPS

\* TypeOK; a listener waits for the poller's block only while there is one, and
\* start-up has made the manager and the sweeper before it goes on.
Types ==
    /\ TypeOK
    /\ at # "poll" => pc = "running" /\ chainTip # target
    /\ pc \in {"sweeper", "sync", "syncing", "watch", "running"} => best["manager"] # None
    /\ pc \in {"sync", "syncing", "watch", "running"} => best["sweeper"] # None

\* Between blocks every listener is at the poller's tip; during a block the
\* monitors are ahead first, then the manager too.
AtPoller ==
    LET next == Toward(chainTip, target) IN
    pc = "running" =>
        /\ \A c \in watched : best[c] = IF at = "poll" THEN chainTip ELSE next
        /\ best["manager"] = IF at = "sweeper" THEN next ELSE chainTip
        /\ restarting => best["sweeper"] = chainTip

\* Steps 11 to 14 of start_ldk.
Restoring == {"sweeper", "sync", "syncing", "watch"}

\* What start-up has done so far: the monitors on disk are read; a restarted node
\* has synced them before it watches them; a fresh one has a manager at the
\* polled tip and syncs nothing.
Followed ==
    /\ pc \in {"tip", "manager"} \cup Restoring =>
           \A c \in Channels : disk[c] # None => best[c] # None
    /\ pc \in Restoring /\ ~restarting => pc # "syncing" /\ best["manager"] = polled
    /\ pc = "watch" /\ ~restarting => chainTip = polled
    /\ pc = "watch" /\ restarting => \A l \in Listeners : best[l] # None => best[l] = chainTip
    /\ AtPoller
    /\ EveryChannelWatched

Inv == Types /\ Followed

-----------------------------------------------------------------------------
\* The chain begins with a block.
LEMMA EmptyBlock ==
  <<>> \in Blocks
<1>1. <<>> \in [1..0 -> Branches] /\ 0 \in 0..MaxHeight
  BY SyncAssumption
<1> QED
  BY <1>1 DEF Blocks, SeqOf

\* The first choices of a sequence of them are a block.
LEMMA PrefixBlock ==
  ASSUME NEW s, NEW k \in 0..MaxHeight, \A n \in 1..k : s[n] \in Branches
  PROVE  SubSeq(s, 1, k) \in Blocks
<1>1. k \in Nat
  BY SyncAssumption
<1> DEFINE r == SubSeq(s, 1, k)
<1>2. r \in Seq(Branches) /\ Len(r) = k
  BY <1>1, SubSeqProperties
<1> HIDE DEF r
<1>3. r \in [1..k -> Branches]
  BY <1>2
<1> QED
  BY <1>3 DEF Blocks, SeqOf, r

\* A step towards another block, back or forth, leads to a block.
LEMMA TowardBlock ==
  ASSUME NEW b \in Blocks, NEW t \in Blocks, b # t
  PROVE  Toward(b, t) \in Blocks
<1>1. PICK m \in 0..MaxHeight : b \in [1..m -> Branches]
  BY DEF Blocks, SeqOf
<1>2. PICK n \in 0..MaxHeight : t \in [1..n -> Branches]
  BY DEF Blocks, SeqOf
<1>3. m \in Nat /\ n \in Nat /\ MaxHeight \in Nat
  BY SyncAssumption
<1>4. b \in Seq(Branches) /\ Len(b) = m /\ t \in Seq(Branches) /\ Len(t) = n
  BY <1>1, <1>2, <1>3
<1>5. CASE IsPrefix(b, t)
  <2>1. m <= n /\ SubSeq(b, 1, m) = SubSeq(t, 1, m)
    BY <1>4, <1>5 DEF IsPrefix
  <2>2. m # n
    <3>1. SUFFICES ASSUME m = n PROVE FALSE
      OBVIOUS
    <3>2. SubSeq(b, 1, m) = b /\ SubSeq(t, 1, m) = t
      BY <1>1, <1>2, <1>3, <1>4, <3>1
    <3> QED
      BY <2>1, <3>2
  <2>3. m + 1 \in 0..MaxHeight /\ \A i \in 1..(m + 1) : t[i] \in Branches
    BY <1>2, <1>3, <2>1, <2>2
  <2>4. SubSeq(t, 1, m + 1) \in Blocks
    BY <2>3, PrefixBlock
  <2> QED
    BY <1>4, <1>5, <2>4 DEF Toward
<1>6. CASE ~IsPrefix(b, t)
  <2>1. m # 0
    <3>1. SUFFICES ASSUME m = 0 PROVE FALSE
      OBVIOUS
    <3>2. SubSeq(b, 1, 0) = SubSeq(t, 1, 0)
      BY <1>4
    <3> QED
      BY <1>3, <1>4, <1>6, <3>1, <3>2 DEF IsPrefix
  <2>2. m - 1 \in 0..MaxHeight /\ \A i \in 1..(m - 1) : b[i] \in Branches
    BY <1>1, <1>3, <2>1
  <2>3. SubSeq(b, 1, m - 1) \in Blocks
    BY <2>2, PrefixBlock
  <2> QED
    BY <1>4, <1>6, <2>3 DEF Toward, Front
<1> QED
  BY <1>5, <1>6

\* Every step keeps the types.
LEMMA StepTypes ==
  ASSUME Types, [Next]_vars
  PROVE  Types'
<1> USE SyncAssumption DEF Types, TypeOK, Listeners, persisted, locals, Goto
<1>0. CASE UNCHANGED vars
  BY <1>0 DEF vars
<1>1. CASE ReadSeed
  BY <1>1 DEF ReadSeed
<1>2. CASE WriteSeed
  BY <1>2 DEF WriteSeed
<1>3. CASE ReadMonitors
  BY <1>3 DEF ReadMonitors
<1>4. CASE PollTip
  BY <1>4 DEF PollTip, BestBlock
<1>5. CASE ReadManager
  <2>1. CASE pc' = "sweeper" /\ restarting'
    BY <1>5, <2>1 DEF ReadManager, Gone
  <2>2. CASE pc' = "sweeper" /\ ~restarting'
    BY <1>5, <2>2 DEF ReadManager, Gone
  <2>3. CASE foreign /\ Gone
    BY <1>5, <2>3, EmptyBlock DEF ReadManager, Gone
  <2> QED
    BY <1>5, <2>1, <2>2, <2>3 DEF ReadManager
<1>6. CASE ReadSweeper
  BY <1>6 DEF ReadSweeper
<1>7. CASE BeginSync
  BY <1>7 DEF BeginSync, BestBlock
<1>8. ASSUME NEW l \in Listeners, SyncListener(l) PROVE Types'
  <2>1. Toward(best[l], target) \in Blocks
    BY <1>8, TowardBlock DEF SyncListener, Loaded
  <2> QED
    BY <1>8, <2>1 DEF SyncListener, Loaded
<1>9. CASE EndSync
  BY <1>9 DEF EndSync, Loaded
<1>10. CASE Watch
  BY <1>10 DEF Watch, Loaded
<1>11. CASE Poll
  BY <1>11 DEF Poll, BestBlock
<1>12. CASE BlockToMonitors
  <2>1. Toward(chainTip, target) \in Blocks
    BY <1>12, TowardBlock DEF BlockToMonitors
  <2> QED
    BY <1>12, <2>1 DEF BlockToMonitors
<1>13. CASE BlockToManager
  <2>1. Toward(chainTip, target) \in Blocks
    BY <1>13, TowardBlock DEF BlockToManager
  <2> QED
    BY <1>13, <2>1 DEF BlockToManager
<1>14. CASE BlockToSweeper
  <2>1. Toward(chainTip, target) \in Blocks
    BY <1>14, TowardBlock DEF BlockToSweeper
  <2> QED
    BY <1>14, <2>1 DEF BlockToSweeper
<1>15. ASSUME NEW l \in {"manager", "sweeper"}, Refuse(l) PROVE Types'
  BY <1>15, EmptyBlock DEF Refuse, Gone
<1>16. CASE PersistManager
  BY <1>16 DEF PersistManager
<1>17. CASE SpendableOutputs
  BY <1>17 DEF SpendableOutputs
<1>18. CASE Crash
  BY <1>18, EmptyBlock DEF Crash, Gone
<1>19. ASSUME NEW b \in Blocks, NewTip(b) PROVE Types'
  BY <1>19 DEF NewTip
<1>20. ASSUME NEW c \in Channels, OpenChannel(c) PROVE Types'
  BY <1>20 DEF OpenChannel
<1>21. ASSUME NEW c \in Channels, PersistMonitor(c) PROVE Types'
  BY <1>21 DEF PersistMonitor
<1> QED
  BY <1>0, <1>1, <1>2, <1>3, <1>4, <1>5, <1>6, <1>7, <1>8, <1>9, <1>10, <1>11, 
     <1>12, <1>13, <1>14, <1>15, <1>16, <1>17, <1>18, <1>19, <1>20, <1>21
     DEF Next, StartUp, Poller

\* Every step of start-up prepares the next one, and the poller's steps keep the
\* listeners together.
LEMMA StepFollowed ==
  ASSUME Types, Followed, [Next]_vars
  PROVE  Followed'
<1> USE SyncAssumption DEF Types, TypeOK, Listeners, persisted, locals, Goto, Followed, AtPoller, EveryChannelWatched,
            Restoring
<1>0. CASE UNCHANGED vars
  BY <1>0 DEF vars
<1>1. CASE ReadSeed
  BY <1>1 DEF ReadSeed
<1>2. CASE WriteSeed
  BY <1>2 DEF WriteSeed
<1>3. CASE ReadMonitors
  BY <1>3 DEF ReadMonitors
<1>4. CASE PollTip
  BY <1>4 DEF PollTip, BestBlock
<1>5. CASE ReadManager
  BY <1>5, EmptyBlock DEF ReadManager, Gone
<1>6. CASE ReadSweeper
  BY <1>6 DEF ReadSweeper
<1>7. CASE BeginSync
  BY <1>7 DEF BeginSync, BestBlock
<1>8. ASSUME NEW l \in Listeners, SyncListener(l) PROVE Followed'
  <2>1. Toward(best[l], target) \in Blocks
    BY <1>8, TowardBlock DEF SyncListener, Loaded
  <2> QED
    BY <1>8, <2>1 DEF SyncListener, Loaded
<1>9. CASE EndSync
  BY <1>9 DEF EndSync, Loaded
<1>10. CASE Watch
  BY <1>10 DEF Watch, Loaded
<1>11. CASE Poll
  BY <1>11 DEF Poll, BestBlock
<1>12. CASE BlockToMonitors
  <2>1. Toward(chainTip, target) \in Blocks
    BY <1>12, TowardBlock DEF BlockToMonitors
  <2> QED
    BY <1>12, <2>1 DEF BlockToMonitors
<1>13. CASE BlockToManager
  <2>1. Toward(chainTip, target) \in Blocks
    BY <1>13, TowardBlock DEF BlockToManager
  <2> QED
    BY <1>13, <2>1 DEF BlockToManager
<1>14. CASE BlockToSweeper
  <2>1. Toward(chainTip, target) \in Blocks
    BY <1>14, TowardBlock DEF BlockToSweeper
  <2> QED
    BY <1>14, <2>1 DEF BlockToSweeper
<1>15. ASSUME NEW l \in {"manager", "sweeper"}, Refuse(l) PROVE Followed'
  BY <1>15, EmptyBlock DEF Refuse, Gone
<1>16. CASE PersistManager
  BY <1>16 DEF PersistManager
<1>17. CASE SpendableOutputs
  BY <1>17 DEF SpendableOutputs
<1>18. CASE Crash
  BY <1>18, EmptyBlock DEF Crash, Gone
<1>19. ASSUME NEW b \in Blocks, NewTip(b) PROVE Followed'
  BY <1>19 DEF NewTip
<1>20. ASSUME NEW c \in Channels, OpenChannel(c) PROVE Followed'
  BY <1>20 DEF OpenChannel
<1>21. ASSUME NEW c \in Channels, PersistMonitor(c) PROVE Followed'
  BY <1>21 DEF PersistMonitor
<1> QED
  BY <1>0, <1>1, <1>2, <1>3, <1>4, <1>5, <1>6, <1>7, <1>8, <1>9, <1>10, <1>11, 
     <1>12, <1>13, <1>14, <1>15, <1>16, <1>17, <1>18, <1>19, <1>20, <1>21
     DEF Next, StartUp, Poller

\* Before its first start the node has nothing on disk.
LEMMA InitInv ==
  Init => Inv
<1> SUFFICES ASSUME Init PROVE Inv
  OBVIOUS
<1>1. Types
  BY EmptyBlock DEF Init, Types, TypeOK, Listeners
<1>2. Followed
  BY DEF Init, Followed, AtPoller, EveryChannelWatched, Restoring, Listeners
<1> QED
  BY <1>1, <1>2 DEF Inv

\* The inductive invariant.
LEMMA InvHolds ==
  Spec => []Inv
<1>1. Inv /\ [Next]_vars => Inv'
  BY StepTypes, StepFollowed DEF Inv
<1> QED
  BY <1>1, InitInv, PTL DEF Spec

-----------------------------------------------------------------------------
\* Types hold throughout; a node that got past its seed has it on disk in full,
\* wherever earlier starts died and whichever reads failed.
THEOREM TypeCorrect ==
  Spec => []TypeOK
<1>1. Inv => TypeOK
  BY DEF Inv, Types
<1> QED
  BY <1>1, InvHolds, PTL

\* Whatever blocks the listeners were persisted at, and however bitcoind's chain
\* is reorganised while start-up reads its tip twice: when the poller runs, the
\* manager, every watched monitor and, on a restarted node, the sweeper get each
\* block exactly once.
THEOREM BlocksInOrder ==
  Spec => []NoBlockSkipped
<1>1. Inv => NoBlockSkipped
  BY DEF Inv, Followed, AtPoller, NoBlockSkipped, AtTip
<1> QED
  BY <1>1, InvHolds, PTL

\* A running node that read its manager watches every channel that has a monitor
\* on disk: those a run before it left unwatched because it found no manager, and
\* those whose monitor was persisted before any manager that knows of them.
THEOREM AllWatched ==
  Spec => []EveryChannelWatched
<1>1. Inv => EveryChannelWatched
  BY DEF Inv, Followed
<1> QED
  BY <1>1, InvHolds, PTL
================================================================================
