------------------------------- MODULE ChainSync -------------------------------
(***************************************************************************)
(* Start-up (steps 4 to 14 of start_ldk) and the chain poller (step 18):   *)
(* the seed file, reading what LDK persisted at different blocks, catching *)
(* up with bitcoind's chain, and then handing every block to the channel   *)
(* monitors, the ChannelManager and the OutputSweeper.                     *)
(*                                                                         *)
(* A block is the sequence of the choices that lead to it, so its parent   *)
(* is its Front, and a longer block has more work.                         *)
(*                                                                         *)
(* External: bitcoind; lightning_block_sync, which walks a listener from   *)
(* its block to another; LDK, whose manager is persisted from time to time *)
(* by the background processor and not read under another node key, whose  *)
(* monitors are persisted lazily and whose sweeper persists itself with    *)
(* every block.                                                            *)
(***************************************************************************)
EXTENDS SequencesExt, Naturals

CONSTANTS
    Channels,     \* the channels that may be opened
    Branches,     \* the blocks that may follow a block
    None,         \* no block
    MaxHeight,    \* bound: height of the chain
    MaxCrashes    \* bound: deaths of the process

Blocks == SeqOf(Branches, MaxHeight)

ASSUME SyncAssumption ==
    /\ MaxHeight \in Nat /\ MaxCrashes \in Nat /\ None \notin Blocks
    /\ Channels \cap {"manager", "sweeper"} = {}

Listeners == Channels \cup {"manager", "sweeper"}

VARIABLES
    pc,        \* the step of start_ldk; "running" from step 18 on
    tip,       \* bitcoind's best block
    seed,      \* keys_seed: "none", "empty", "written"
    disk,      \* [Listeners -> its persisted best block, or None]
    foreign,   \* the manager on disk is of a seed that is gone
    best,      \* [Listeners -> its best block in memory, or None]
    restarting,  \* restarting_node
    polled,    \* polled_chain_tip
    target,    \* the tip that synchronize_listeners or the poller goes to
    chainTip,  \* chain_tip, then SpvClient's
    watched,   \* the channels that ChainMonitor has
    at,        \* the listener that gets the poller's current block next
    refused,   \* the listener whose assertion on the block order aborted last
    crashes

persisted == <<seed, disk, foreign>>
locals == <<restarting, polled, target, chainTip>>
vars == <<pc, tip, persisted, best, locals, watched, at, refused, crashes>>

Init ==
    /\ pc = "down" /\ tip = <<>>
    /\ seed = "none" /\ disk = [l \in Listeners |-> None] /\ foreign = FALSE
    /\ best = [l \in Listeners |-> None] /\ restarting = FALSE
    /\ polled = <<>> /\ target = <<>> /\ chainTip = <<>>
    /\ watched = {} /\ at = "poll" /\ refused = None /\ crashes = 0

\* What bitcoind answers when it is asked for its best block.
BestBlock == tip

Goto(step) == pc' = step

\* The way from a block to another: back to the fork, then up.
Toward(b, t) == IF IsPrefix(b, t) THEN SubSeq(t, 1, Len(b) + 1) ELSE Front(b)

-----------------------------------------------------------------------------
(***************************************************************************)
(* External: bitcoind's chain grows, or a longer branch takes over.        *)
(***************************************************************************)
NewTip(b) ==
    /\ Len(b) > Len(tip)
    /\ IsPrefix(tip, b) => Len(b) = Len(tip) + 1
    /\ tip' = b
    /\ UNCHANGED <<pc, persisted, best, locals, watched, at, refused, crashes>>

-----------------------------------------------------------------------------
(***************************************************************************)
(* Start-up.                                                               *)
(***************************************************************************)
\* The operator starts the node; the arguments are in order and bitcoind is
\* on the right network.  A read that fails for any reason is taken for a first
\* start, and File::create truncates what is there; a seed file of another
\* length fails the assertion.
ReadSeed ==
    /\ pc = "down"
    /\ \/ seed' = "empty" /\ foreign' = (disk["manager"] # None) /\ Goto("seed")
       \/ seed = "empty" /\ UNCHANGED <<seed, foreign, pc>>
       \/ seed = "written" /\ Goto("monitors") /\ UNCHANGED <<seed, foreign>>
    /\ UNCHANGED <<tip, disk, best, locals, watched, at, refused, crashes>>

\* Mutant: the seed is not written.
WriteSeedSkipped ==
    /\ pc = "seed" /\ Goto("monitors")
    /\ UNCHANGED <<tip, persisted, best, locals, watched, at, refused, crashes>>

\* write_all and sync_all of the new seed.
WriteSeed ==
    /\ pc = "seed"
    /\ seed' = "written" /\ Goto("monitors")
    /\ UNCHANGED <<tip, disk, foreign, best, locals, watched, at, refused, crashes>>

\* Steps 5 to 7: every persisted monitor is read.
ReadMonitors ==
    /\ pc = "monitors" /\ Goto("tip")
    /\ best' = [l \in Listeners |-> IF l \in Channels THEN disk[l] ELSE None]
    /\ UNCHANGED <<tip, persisted, locals, watched, at, refused, crashes>>

\* Step 8.
PollTip ==
    /\ pc = "tip" /\ Goto("manager")
    /\ polled' = BestBlock
    /\ UNCHANGED <<tip, persisted, best, restarting, target, chainTip, watched, at, refused, crashes>>

\* The process is gone, and with it everything in memory.
Gone ==
    /\ pc' = "down" /\ best' = [l \in Listeners |-> None]
    /\ restarting' = FALSE /\ polled' = <<>> /\ target' = <<>> /\ chainTip' = <<>>
    /\ watched' = {} /\ at' = "poll"

\* Step 11: the manager is read; one of another seed is refused and aborts.
\* File::open failing for any reason is taken for a fresh node, whose manager
\* is at the polled tip.
ReadManager ==
    /\ pc = "manager"
    /\ \/ /\ disk["manager"] # None /\ ~foreign
          /\ restarting' = TRUE /\ best' = [best EXCEPT !["manager"] = disk["manager"]]
          /\ Goto("sweeper") /\ UNCHANGED <<polled, target, chainTip, watched, at>>
       \/ /\ restarting' = FALSE /\ best' = [best EXCEPT !["manager"] = polled]
          /\ Goto("sweeper") /\ UNCHANGED <<polled, target, chainTip, watched, at>>
       \/ foreign /\ Gone
    /\ UNCHANGED <<tip, persisted, refused, crashes>>

\* Step 12: the sweeper is read, or a new one made at the manager's block.
ReadSweeper ==
    /\ pc = "sweeper" /\ Goto("sync")
    /\ best' = [best EXCEPT !["sweeper"] =
                    IF disk["sweeper"] = None THEN best["manager"] ELSE disk["sweeper"]]
    /\ UNCHANGED <<tip, persisted, locals, watched, at, refused, crashes>>

\* Step 13: a fresh node takes the polled tip; a restarted one asks bitcoind
\* again and goes there.
BeginSync ==
    /\ pc = "sync"
    /\ \/ restarting /\ target' = BestBlock /\ Goto("syncing") /\ UNCHANGED chainTip
       \/ ~restarting /\ chainTip' = polled /\ Goto("watch") /\ UNCHANGED target
    /\ UNCHANGED <<tip, persisted, best, restarting, polled, watched, at, refused, crashes>>

Loaded == {l \in Listeners : best[l] # None}

\* A listener is given its next block; only the sweeper persists it.
SyncListener(l) ==
    /\ pc = "syncing" /\ l \in Loaded /\ best[l] # target
    /\ best' = [best EXCEPT ![l] = Toward(@, target)]
    /\ disk' = IF l = "sweeper" THEN [disk EXCEPT ![l] = best'[l]] ELSE disk
    /\ UNCHANGED <<pc, tip, seed, foreign, locals, watched, at, refused, crashes>>

\* Mutant: chain_tip is the tip of step 8.
EndSyncPolled ==
    /\ pc = "syncing" /\ \A l \in Loaded : best[l] = target
    /\ chainTip' = polled /\ Goto("watch")
    /\ UNCHANGED <<tip, persisted, best, restarting, polled, target, watched, at, refused, crashes>>

EndSync ==
    /\ pc = "syncing" /\ \A l \in Loaded : best[l] = target
    /\ chainTip' = target /\ Goto("watch")
    /\ UNCHANGED <<tip, persisted, best, restarting, polled, target, watched, at, refused, crashes>>

\* Mutant: the monitors are not handed over.
WatchNone ==
    /\ pc = "watch" /\ Goto("running")
    /\ target' = chainTip
    /\ UNCHANGED <<tip, persisted, best, restarting, polled, chainTip, watched, at, refused, crashes>>

\* Step 14: watch_channel persists each monitor; step 18 starts the poller.
\* The monitors of a fresh node are not handed over.
Watch ==
    /\ pc = "watch" /\ Goto("running")
    /\ watched' = (IF restarting THEN Loaded \cap Channels ELSE {})
    /\ disk' = [l \in Listeners |-> IF l \in watched' THEN best[l] ELSE disk[l]]
    /\ target' = chainTip
    /\ UNCHANGED <<tip, seed, foreign, best, restarting, polled, chainTip, at, refused, crashes>>

-----------------------------------------------------------------------------
(***************************************************************************)
(* The chain poller: each block goes to the monitors, then to the manager, *)
(* then to the sweeper.                                                    *)
(***************************************************************************)
\* Mutant: the tip is polled once, without the loop.
PollOnce ==
    /\ pc = "running" /\ at = "poll" /\ chainTip = target /\ Len(tip) > Len(chainTip)
    /\ chainTip = polled
    /\ target' = tip
    /\ UNCHANGED <<pc, tip, persisted, best, restarting, polled, chainTip, watched, at, refused, crashes>>

\* poll_best_tip finds a better tip; else the poller sleeps.
Poll ==
    /\ pc = "running" /\ at = "poll" /\ chainTip = target /\ Len(BestBlock) > Len(chainTip)
    /\ target' = BestBlock
    /\ UNCHANGED <<pc, tip, persisted, best, restarting, polled, chainTip, watched, at, refused, crashes>>

BlockToMonitors ==
    /\ pc = "running" /\ at = "poll" /\ chainTip # target
    /\ best' = [l \in Listeners |-> IF l \in watched THEN Toward(chainTip, target) ELSE best[l]]
    /\ at' = "manager"
    /\ UNCHANGED <<pc, tip, persisted, locals, watched, refused, crashes>>

\* Both listeners assert that the block follows the one they have.
Refuse(l) ==
    /\ pc = "running" /\ at = l /\ best[l] # chainTip
    /\ refused' = l /\ Gone
    /\ UNCHANGED <<tip, persisted, crashes>>

BlockToManager ==
    /\ pc = "running" /\ at = "manager" /\ best["manager"] = chainTip
    /\ best' = [best EXCEPT !["manager"] = Toward(chainTip, target)]
    /\ at' = "sweeper"
    /\ UNCHANGED <<pc, tip, persisted, locals, watched, refused, crashes>>

BlockToSweeper ==
    /\ pc = "running" /\ at = "sweeper" /\ best["sweeper"] = chainTip
    /\ chainTip' = Toward(chainTip, target)
    /\ best' = [best EXCEPT !["sweeper"] = chainTip']
    /\ disk' = [disk EXCEPT !["sweeper"] = chainTip']
    /\ at' = "poll"
    /\ UNCHANGED <<pc, tip, seed, foreign, restarting, polled, target, watched, refused, crashes>>

-----------------------------------------------------------------------------
(***************************************************************************)
(* The rest of the node, and its death.                                    *)
(***************************************************************************)
PersistManager ==
    /\ pc = "running"
    /\ disk' = [disk EXCEPT !["manager"] = best["manager"]] /\ foreign' = FALSE
    /\ UNCHANGED <<pc, tip, seed, best, locals, watched, at, refused, crashes>>

\* A monitor is persisted by ChainMonitor when it sees fit.
PersistMonitor(c) ==
    /\ pc = "running" /\ c \in watched
    /\ disk' = [disk EXCEPT ![c] = best[c]]
    /\ UNCHANGED <<pc, tip, seed, foreign, best, locals, watched, at, refused, crashes>>

\* SpendableOutputs: track_spendable_outputs persists the sweeper.
SpendableOutputs ==
    /\ pc = "running" /\ watched # {}
    /\ disk' = [disk EXCEPT !["sweeper"] = best["sweeper"]]
    /\ UNCHANGED <<pc, tip, seed, foreign, best, locals, watched, at, refused, crashes>>

\* A channel is funded: its monitor starts at the manager's block and is
\* persisted at once, the manager when the background processor gets to it.
OpenChannel(c) ==
    /\ pc = "running" /\ at = "poll" /\ disk[c] = None
    /\ best' = [best EXCEPT ![c] = best["manager"]]
    /\ disk' = [disk EXCEPT ![c] = best["manager"]]
    /\ watched' = watched \cup {c}
    /\ UNCHANGED <<pc, tip, seed, foreign, locals, at, refused, crashes>>

\* At any step; the unwraps on failed calls to bitcoind (steps 7, 8, 13 and
\* the poller) are among the causes.
Crash ==
    /\ pc # "down" /\ crashes < MaxCrashes
    /\ crashes' = crashes + 1 /\ Gone
    /\ UNCHANGED <<tip, persisted, refused>>

StartUp ==
    \/ ReadSeed \/ WriteSeed \/ ReadMonitors \/ PollTip \/ ReadManager \/ ReadSweeper
    \/ BeginSync \/ (\E l \in Listeners : SyncListener(l)) \/ EndSync \/ Watch
Poller ==
    \/ Poll \/ BlockToMonitors \/ BlockToManager \/ BlockToSweeper
    \/ \E l \in {"manager", "sweeper"} : Refuse(l)

Next ==
    \/ StartUp \/ Poller \/ PersistManager \/ SpendableOutputs \/ Crash
    \/ \E b \in Blocks : NewTip(b)
    \/ \E c \in Channels : OpenChannel(c) \/ PersistMonitor(c)

Spec == Init /\ [][Next]_vars

\* The operator starts a dead node; start-up and the poller's task go on.
LiveSpec == Spec /\ WF_vars(StartUp) /\ WF_vars(Poller)

-----------------------------------------------------------------------------
\* Types; whatever the node reads or writes after its seed, it does with a seed
\* that is on disk in full, and memory is empty without a process.
TypeOK ==
    /\ pc \in {"down", "seed", "monitors", "tip", "manager", "sweeper", "sync", "syncing",
               "watch", "running"}
    /\ seed \in {"none", "empty", "written"}
    /\ tip \in Blocks /\ polled \in Blocks /\ target \in Blocks /\ chainTip \in Blocks
    /\ disk \in [Listeners -> Blocks \cup {None}] /\ best \in [Listeners -> Blocks \cup {None}]
    /\ restarting \in BOOLEAN /\ foreign \in BOOLEAN /\ watched \subseteq Channels
    /\ at \in {"poll", "manager", "sweeper"} /\ refused \in {None, "manager", "sweeper"}
    /\ pc \notin {"down", "seed"} => seed = "written"
    /\ \A l \in Listeners : (disk[l] # None => seed # "none") /\ (best[l] # None => pc # "down")

\* "Sync ChannelMonitors, ChannelManager and OutputSweeper to chain tip": once
\* the poller runs, between blocks, every listener is at the poller's tip, so
\* that no block is skipped or given twice.  The sweeper is the exception on a
\* node that found no manager: it may have a file of its own, from a run that
\* died after the sweeper's first write and before the manager's, and is not
\* brought to the tip.
AtTip(l) == pc = "running" /\ at = "poll" => best[l] = chainTip
NoBlockSkipped ==
    AtTip("manager") /\ (\A c \in watched : AtTip(c)) /\ (restarting => AtTip("sweeper"))

\* The same of the sweeper without the exception.  It fails as described.
SweeperSynced == AtTip("sweeper")

\* A node that read its manager watches every channel that has a monitor on
\* disk, be it from an earlier run, opened since, or persisted before a manager
\* that knows of it.  A node that found no manager, or failed to open it, is the
\* exception: step 13 leaves the monitors it read out of what step 14 hands over.
EveryChannelWatched ==
    pc = "running" /\ restarting => \A c \in Channels : disk[c] # None => c \in watched

\* The same without the exception.  It fails: a channel is opened, its monitor is
\* persisted, and the node dies before the background processor writes the
\* manager; or the manager's file cannot be opened once.
EveryMonitorWatched ==
    pc = "running" => \A c \in Channels : disk[c] # None => c \in watched

\* A seed once written is never replaced.  It fails: a read that fails for another
\* reason than a missing file makes a new one.
SeedKept == [][seed = "written" => seed' = "written"]_vars

\* The node comes up again after every death and reaches bitcoind's tip, with the
\* channels it watches and, when it read its manager, with every channel on disk
\* and the sweeper; unless it died while it made its seed file, or made a new
\* seed beside a manager of the old one.
CaughtUp ==
    /\ pc = "running" /\ \A l \in watched \cup {"manager"} : best[l] = tip
    /\ restarting => best["sweeper"] = tip /\ \A c \in Channels : disk[c] # None => c \in watched
CatchesUp == []<>(CaughtUp \/ seed = "empty" \/ foreign)
================================================================================
