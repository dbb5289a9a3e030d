------------------------------- MODULE Shutdown -------------------------------
(***************************************************************************)
(* The running node's tasks and how it stops: the listener and the         *)
(* reconnect task (main.rs), connections that commands and events ask for  *)
(* (cli.rs, main.rs), the tasks that forward HTLCs after a pause, the file *)
(* of channel peers (disk.rs) that openchannel appends to and the          *)
(* reconnect task reads, LDK's background processor,                       *)
(* the command loop, and the end of start_ldk that waits for the last two  *)
(* and then disconnects peers and stops the background processor.          *)
(*                                                                         *)
(* External: PeerManager (connections), process_events_async (the          *)
(* background processor, which persists the ChannelManager), and tokio,    *)
(* which cancels tasks when main returns but waits for blocking threads.   *)
(* Blocks also change the manager; they are fetched again after a restart  *)
(* and left out.                                                           *)
(***************************************************************************)
EXTENDS FiniteSets, Naturals

CONSTANTS
    Peers,        \* channel peers whose address is in the peer file at start
    Moved,        \* those of them whose address there is not theirs any more
    Strangers,    \* other nodes
    Callers,      \* nodes that connect to us
    MaxUpdates    \* bound: changes to channel data, made or due from a sleeping task

ASSUME ShutdownAssumption ==
    /\ IsFiniteSet(Peers) /\ Moved \subseteq Peers
    /\ Callers \subseteq Peers \cup Strangers
    /\ MaxUpdates \in Nat

VARIABLES
    main,       \* start_ldk: the step it is at
    cli,        \* the command loop: "running", "connect", "open", "create",
                \* "record", "exited"
    cliPeer,    \* the node that connectpeer or openchannel is about
    cliAddr,    \* and the address typed for it: "good" or "bad"
    dialing,    \* the nodes that ConnectionNeeded tasks connect to
    forwarding, \* how many PendingHTLCsForwardable tasks sleep
    bp,         \* background processor: "work", "sleep", "final", "ok", "err"
    exitSent,   \* bp_exit: whether main has sent
    stop,       \* stop_listen_connect
    listener,   \* whether the listener task runs
    setups,     \* callers in setup_inbound that PeerManager does not know yet
    recon,      \* the reconnect task: [pc, todo, peer, info]
    connected,  \* the nodes PeerManager has a connection to
    chans,      \* the nodes list_channels names
    file,       \* the last address the peer file has for each node: "none",
                \* "good", "bad"
    torn,       \* whether a line of the peer file is incomplete
    mgr, saved, \* version of the channel data, and of its last persisted copy
    begun,      \* attempts <<task, node>> of the listener and the reconnect
                \* task past their look at stop when it was set, not over yet
    late,       \* who brought up connections after disconnect_all_peers:
                \* "begun" for those attempts, else the task
    asleep      \* whether one of those slept when the background processor
                \* wrote last

typed == <<cliPeer, cliAddr>>
spawned == <<dialing, forwarding>>
tasks == <<typed, spawned, listener, setups, recon>>
data == <<mgr, saved, chans>>
peerFile == <<file, torn>>
history == <<begun, late, asleep>>
vars == <<main, cli, bp, exitSent, stop, tasks, connected, peerFile, data, history>>

NoPeer == "none"
Nodes == Peers \cup Strangers
Tick == [pc |-> "tick", todo |-> {}, peer |-> NoPeer, info |-> [n \in Nodes |-> "none"]]

\* The node runs: its channel peers are in the file, some with an address they
\* have left.
Init ==
    /\ main = "select" /\ cli = "running" /\ cliPeer = NoPeer /\ cliAddr = "none" /\ dialing = {}
    /\ forwarding = 0
    /\ bp = "work" /\ exitSent = FALSE /\ stop = FALSE
    /\ listener = TRUE /\ setups = {} /\ recon = Tick
    /\ connected = {} /\ chans = Peers /\ mgr = 0 /\ saved = 0 /\ torn = FALSE
    /\ file = [n \in Nodes |-> IF n \in Moved THEN "bad" ELSE IF n \in Peers THEN "good" ELSE "none"]
    /\ begun = {} /\ late = {} /\ asleep = FALSE

\* Tasks of the runtime run until start_ldk returns or panics; the command
\* thread runs until it ends or the process does.
Alive == main \notin {"returned", "panicked", "ended"}
CliAt(pc) == main \notin {"panicked", "ended"} /\ cli = pc
BpDone == bp \in {"ok", "err"}

\* Within the bound, channel data can still change.
Room == mgr + forwarding < MaxUpdates

\* A connection that task asked for comes up.
Up(task, n) ==
    /\ connected' = connected \cup {n}
    /\ late' = IF main \in {"select", "disconnect"} \/ n \in connected THEN late
               ELSE late \cup {IF <<task, n>> \in begun THEN "begun" ELSE task}
    /\ begun' = begun \ {<<task, n>>} /\ UNCHANGED asleep

-----------------------------------------------------------------------------
(***************************************************************************)
(* Step 17: the listener.                                                  *)
(***************************************************************************)
ListenUnchanged ==
    UNCHANGED <<main, cli, bp, exitSent, stop, typed, spawned, recon, peerFile, data>>

\* Mutant: the flag is not looked at.
AcceptUnchecked(c) ==
    /\ Alive /\ listener /\ c \in Callers \ (setups \cup connected)
    /\ setups' = setups \cup {c}
    /\ ListenUnchanged /\ UNCHANGED <<listener, connected, history>>

\* A stream is accepted: the listener returns if stop is set and else spawns
\* setup_inbound.
Accept(c) ==
    /\ Alive /\ listener /\ c \in Callers \ (setups \cup connected)
    /\ \/ stop /\ listener' = FALSE /\ UNCHANGED setups
       \/ ~stop /\ setups' = setups \cup {c} /\ UNCHANGED listener
    /\ ListenUnchanged /\ UNCHANGED <<connected, history>>

SetupInbound(c) ==
    /\ Alive /\ c \in setups
    /\ setups' = setups \ {c}
    /\ Up("listener", c)
    /\ ListenUnchanged /\ UNCHANGED listener

-----------------------------------------------------------------------------
(***************************************************************************)
(* The reconnect task.                                                     *)
(***************************************************************************)
ReconUnchanged ==
    UNCHANGED <<main, cli, bp, exitSent, stop, typed, spawned, listener, setups, peerFile, data>>

\* Mutant: the peer file is read in the first round only.
ReconTickCached ==
    /\ Alive /\ recon.pc = "tick"
    /\ recon' = [recon EXCEPT !.pc = "loop", !.todo = chans,
                              !.info = [n \in Nodes |-> IF n \in Peers THEN file[n] ELSE "none"]]
    /\ ReconUnchanged /\ UNCHANGED <<connected, history>>

\* A tick: read_channel_peer_data, then list_channels.  The reading fails as a
\* whole if one line does not parse or its host name does not resolve; the task
\* then only waits for the next tick.
ReconTick ==
    /\ Alive /\ recon.pc = "tick" /\ ~torn
    /\ recon' = [recon EXCEPT !.pc = "loop", !.todo = chans, !.info = file]
    /\ ReconUnchanged /\ UNCHANGED <<connected, history>>

\* One channel's peer: passed over when it is connected by now; else stop is
\* looked at, and the peer dialled if the file had an address for it.
ReconNext(p) ==
    /\ Alive /\ recon.pc = "loop" /\ p \in recon.todo
    /\ \/ p \in connected /\ recon' = [recon EXCEPT !.todo = @ \ {p}]
       \/ p \notin connected /\ stop /\ recon' = [Tick EXCEPT !.pc = "returned"]
       \/ p \notin connected /\ ~stop
          /\ recon' = IF recon.info[p] = "none" THEN [recon EXCEPT !.todo = @ \ {p}]
                      ELSE [recon EXCEPT !.pc = "dial", !.todo = @ \ {p}, !.peer = p]
    /\ ReconUnchanged /\ UNCHANGED <<connected, history>>

ReconRoundOver ==
    /\ Alive /\ recon.pc = "loop" /\ recon.todo = {}
    /\ recon' = Tick
    /\ ReconUnchanged /\ UNCHANGED <<connected, history>>

\* do_connect_peer: the connection came up ...
ReconConnected ==
    /\ Alive /\ recon.pc = "dial" /\ recon.info[recon.peer] = "good"
    /\ recon' = [recon EXCEPT !.pc = "loop", !.peer = NoPeer]
    /\ Up("reconnect", recon.peer)
    /\ ReconUnchanged

\* Mutant: the peer that failed is kept.
ReconFailedKeepsPeer ==
    /\ Alive /\ recon.pc = "dial"
    /\ recon' = [recon EXCEPT !.pc = "loop"]
    /\ ReconUnchanged /\ UNCHANGED <<connected, history>>

\* ... or it failed, which the task ignores.
ReconFailed ==
    /\ Alive /\ recon.pc = "dial"
    /\ recon' = [recon EXCEPT !.pc = "loop", !.peer = NoPeer]
    /\ begun' = begun \ {<<"reconnect", recon.peer>>}
    /\ ReconUnchanged /\ UNCHANGED <<connected, late, asleep>>

-----------------------------------------------------------------------------
(***************************************************************************)
(* Commands, ConnectionNeeded and PendingHTLCsForwardable.  None looks at  *)
(* stop.                                                                   *)
(***************************************************************************)
CliUnchanged == UNCHANGED <<main, bp, exitSent, stop, spawned, listener, setups, recon, saved>>
CliDone == cli' = "running" /\ cliPeer' = NoPeer /\ cliAddr' = "none"

\* connectpeer: connect_peer_if_necessary answers at once for a peer.  With a
\* bad address it only fails, as it may with a good one.
ConnectPeer(n) ==
    /\ CliAt("running") /\ n \notin connected
    /\ cli' = "connect" /\ cliPeer' = n /\ cliAddr' = "good"
    /\ CliUnchanged /\ UNCHANGED <<connected, peerFile, mgr, chans, history>>

\* openchannel connects first, if necessary: the address is not looked at for
\* a node that is connected.
OpenChannel(n, a) ==
    /\ CliAt("running")
    /\ cli' = (IF n \in connected THEN "create" ELSE "open") /\ cliPeer' = n /\ cliAddr' = a
    /\ CliUnchanged /\ UNCHANGED <<connected, peerFile, mgr, chans, history>>

\* The attempt of either command ends; once the runtime is gone it only can
\* fail.  openchannel goes on if it succeeded.
ConnectPeerEnds ==
    /\ CliAt("connect") \/ CliAt("open")
    /\ \/ /\ Alive /\ (cliAddr = "good" \/ cliPeer \in connected) /\ Up("other", cliPeer)
          /\ IF cli = "open" THEN cli' = "create" /\ UNCHANGED typed ELSE CliDone
       \/ CliDone /\ UNCHANGED <<connected, history>>
    /\ CliUnchanged /\ UNCHANGED <<peerFile, mgr, chans>>

\* open_channel: create_channel refuses a node that is not connected by then.
\* A flag that openchannel does not know changes nothing: the continue only
\* goes on with the next one.
CreateChannel ==
    /\ CliAt("create")
    /\ \/ /\ cliPeer \in connected /\ Room
          /\ mgr' = mgr + 1 /\ chans' = chans \cup {cliPeer}
          /\ cli' = "record" /\ UNCHANGED typed
       \/ CliDone /\ UNCHANGED <<mgr, chans>>
    /\ CliUnchanged /\ UNCHANGED <<connected, peerFile, history>>

\* persist_channel_peer appends the line as it was typed, to be the last of its
\* node.  It may fail before it wrote anything, or half way; the command goes on
\* in any case.  What is appended to half a line is part of that line.
PersistChannelPeer ==
    /\ CliAt("record")
    /\ CliDone
    /\ \/ ~torn /\ file' = [file EXCEPT ![cliPeer] = cliAddr] /\ UNCHANGED torn
       \/ torn' = TRUE /\ UNCHANGED file
       \/ UNCHANGED peerFile
    /\ CliUnchanged /\ UNCHANGED <<connected, mgr, chans, history>>

\* ConnectionNeeded, handled by the background processor, spawns a task.
ConnectionNeeded(n) ==
    /\ Alive /\ bp = "work" /\ n \in Strangers \ dialing
    /\ dialing' = dialing \cup {n}
    /\ UNCHANGED <<main, cli, bp, exitSent, stop, typed, forwarding, listener, setups, recon, connected,
                   peerFile, data, history>>

\* It finds the node connected, connects, or fails at every address.
ConnectionNeededEnds(n) ==
    /\ Alive /\ n \in dialing
    /\ dialing' = dialing \ {n}
    /\ \/ n \notin connected /\ Up("other", n)
       \/ UNCHANGED <<connected, history>>
    /\ UNCHANGED <<main, cli, bp, exitSent, stop, typed, forwarding, listener, setups, recon, peerFile,
                   data>>

ForwardUnchanged ==
    UNCHANGED <<main, cli, bp, exitSent, stop, typed, dialing, listener, setups, recon, connected,
                peerFile, saved, chans, history>>

\* PendingHTLCsForwardable spawns a task, which sleeps ...
PendingHTLCsForwardable ==
    /\ Alive /\ bp = "work" /\ Room
    /\ forwarding' = forwarding + 1
    /\ ForwardUnchanged /\ UNCHANGED mgr

\* ... and then forwards what is pending: nothing, if another one did.
ProcessPendingHtlcForwards ==
    /\ Alive /\ forwarding > 0
    /\ forwarding' = forwarding - 1 /\ mgr' \in {mgr, mgr + 1}
    /\ ForwardUnchanged

\* disconnectpeer refuses a node that has a channel.
DisconnectPeer(n) ==
    /\ CliAt("running") /\ n \in connected \ chans
    /\ connected' = connected \ {n}
    /\ CliUnchanged /\ UNCHANGED <<cli, typed, peerFile, mgr, chans, history>>

\* closechannel begins to close a channel, forceclosechannel closes it.
CloseChannel(n) ==
    /\ CliAt("running") /\ Room /\ n \in chans
    /\ mgr' = mgr + 1 /\ chans' \in {chans, chans \ {n}}
    /\ CliUnchanged /\ UNCHANGED <<cli, typed, connected, peerFile, history>>

\* quit, exit or end of input.
Quit ==
    /\ CliAt("running") /\ cli' = "exited"
    /\ CliUnchanged /\ UNCHANGED <<typed, connected, peerFile, mgr, chans, history>>

-----------------------------------------------------------------------------
(***************************************************************************)
(* External: peers and the background processor.                           *)
(***************************************************************************)
\* A peer's message changes channel data; it may open a channel, which
\* OpenChannelRequest accepts and nobody puts into the peer file, or close one.
PeerUpdate(n) ==
    /\ Alive /\ n \in connected /\ Room
    /\ mgr' = mgr + 1 /\ chans' \in {chans, chans \cup {n}, chans \ {n}}
    /\ UNCHANGED <<main, cli, bp, exitSent, stop, tasks, connected, peerFile, saved, history>>

PeerDrops(n) ==
    /\ Alive /\ n \in connected
    /\ connected' = connected \ {n}
    /\ UNCHANGED <<main, cli, bp, exitSent, stop, tasks, peerFile, data, history>>

BpUnchanged ==
    UNCHANGED <<main, cli, exitSent, stop, tasks, connected, peerFile, mgr, chans, begun, late>>

\* One turn of its loop ends with the persistence of the manager.
BpPersist ==
    /\ Alive /\ bp \in {"work", "final"}
    /\ \/ bp = "work" /\ saved' = mgr /\ bp' = "sleep" /\ UNCHANGED asleep
       \/ bp = "final" /\ saved' = mgr /\ bp' = "ok" /\ asleep' = (forwarding # 0)
       \/ bp' = "err" /\ UNCHANGED <<saved, asleep>>
    /\ BpUnchanged

\* The sleeper main.rs passes: false after the given time, true once main has
\* sent; the watch channel keeps what was sent while nobody waited.
BpWake == Alive /\ bp = "sleep" /\ bp' = "work" /\ BpUnchanged /\ UNCHANGED <<saved, asleep>>
BpExit ==
    /\ Alive /\ bp = "sleep" /\ exitSent /\ bp' = "final"
    /\ BpUnchanged /\ UNCHANGED <<saved, asleep>>

-----------------------------------------------------------------------------
(***************************************************************************)
(* The end of start_ldk.                                                   *)
(***************************************************************************)
\* The select ends with the command loop or the background processor; then
\* stop is set.
Select ==
    /\ main = "select" /\ (cli = "exited" \/ BpDone)
    /\ stop' = TRUE /\ main' = "disconnect"
    /\ begun' = {<<"listener", c>> : c \in setups}
                    \cup (IF recon.pc = "dial" THEN {<<"reconnect", recon.peer>>} ELSE {})
    /\ UNCHANGED <<cli, bp, exitSent, tasks, connected, peerFile, data, late, asleep>>

\* Mutant: peers are left connected.
DisconnectAllSkipped ==
    /\ main = "disconnect"
    /\ main' = "check"
    /\ UNCHANGED <<cli, bp, exitSent, stop, tasks, connected, peerFile, data, history>>

DisconnectAll ==
    /\ main = "disconnect"
    /\ connected' = {} /\ main' = "check"
    /\ UNCHANGED <<cli, bp, exitSent, stop, tasks, peerFile, data, history>>

\* start_ldk returns, and with it main: the runtime drops its tasks.
Return ==
    /\ main' = "returned"
    /\ dialing' = {} /\ forwarding' = 0 /\ listener' = FALSE /\ setups' = {}
    /\ recon' = [Tick EXCEPT !.pc = "returned"]
runtime == <<spawned, listener, setups, recon>>

\* bg_res is Ok(Ok), or Ok(Err) after an I/O error: an Err would be a panic of
\* the background processor, and panics abort.  So the last-ditch write never
\* runs, and what follows depends on bp_exit.is_closed().
CheckResult ==
    /\ main = "check"
    /\ \/ BpDone /\ Return
       \/ ~BpDone /\ main' = "send" /\ UNCHANGED runtime
    /\ UNCHANGED <<cli, bp, exitSent, stop, typed, connected, peerFile, data, history>>

\* Mutant: main waits without sending.
SendExitSkipped ==
    /\ main = "send"
    /\ main' = "await"
    /\ UNCHANGED <<cli, bp, exitSent, stop, tasks, connected, peerFile, data, history>>

\* bp_exit.send(()).unwrap(): without a receiver it panics.
SendExit ==
    /\ main = "send"
    /\ \/ ~BpDone /\ exitSent' = TRUE /\ main' = "await"
       \/ BpDone /\ main' = "panicked" /\ UNCHANGED exitSent
    /\ UNCHANGED <<cli, bp, stop, tasks, connected, peerFile, data, history>>

\* background_processor.await.unwrap().unwrap()
AwaitBp ==
    /\ main = "await"
    /\ \/ bp = "ok" /\ Return
       \/ bp = "err" /\ main' = "panicked" /\ UNCHANGED runtime
    /\ UNCHANGED <<cli, bp, exitSent, stop, typed, connected, peerFile, data, history>>

\* The runtime still waits for the command thread, which nothing but the user
\* ends.  After a panic the process is gone at once.
ProcessEnds ==
    /\ main = "panicked" \/ (main = "returned" /\ cli = "exited")
    /\ main' = "ended" /\ connected' = {} /\ cli' = "exited" /\ cliPeer' = NoPeer /\ cliAddr' = "none"
    /\ dialing' = {} /\ forwarding' = 0 /\ listener' = FALSE /\ setups' = {}
    /\ recon' = [Tick EXCEPT !.pc = "returned"]
    /\ UNCHANGED <<bp, exitSent, stop, peerFile, data, history>>

Ended == main = "ended" /\ UNCHANGED vars

MainStep == Select \/ DisconnectAll \/ CheckResult \/ SendExit \/ AwaitBp \/ ProcessEnds
ReconStep == ReconTick \/ (\E p \in Nodes : ReconNext(p)) \/ ReconRoundOver \/ ReconConnected \/ ReconFailed
CliStep == ConnectPeerEnds \/ CreateChannel \/ PersistChannelPeer

Next ==
    \/ MainStep \/ ReconStep \/ CliStep \/ Quit \/ BpPersist \/ BpWake \/ BpExit \/ Ended
    \/ PendingHTLCsForwardable \/ ProcessPendingHtlcForwards
    \/ \E c \in Callers : Accept(c) \/ SetupInbound(c)
    \/ \E n \in Nodes :
          \/ ConnectPeer(n) \/ OpenChannel(n, "good") \/ OpenChannel(n, "bad") \/ CloseChannel(n)
          \/ DisconnectPeer(n) \/ ConnectionNeeded(n) \/ ConnectionNeededEnds(n)
          \/ PeerUpdate(n) \/ PeerDrops(n)

Spec == Init /\ [][Next]_vars

\* Tasks and threads are scheduled; a peer file without a half line can be read
\* again and again (its host names resolve); a dial ends (PeerManager drops a
\* handshake that stalls), and at the peer's address not always in failure; the
\* sleeper's select does not ignore a ready branch for ever.  The user owes
\* nothing.
Fairness ==
    /\ WF_vars(MainStep) /\ WF_vars(BpPersist)
    /\ WF_vars(BpWake) /\ SF_vars(BpExit)
    /\ WF_vars(CliStep)
    /\ WF_vars(ReconStep)
    /\ \A n \in Nodes : SF_vars(ReconConnected /\ recon.peer = n)
LiveSpec == Spec /\ Fairness

-----------------------------------------------------------------------------
Addresses == {"none", "good", "bad"}

\* Changes to channel data: made and due within the bound, saved behind made.
Numbers ==
    /\ mgr \in Nat /\ forwarding \in Nat /\ mgr + forwarding <= MaxUpdates
    /\ saved \in 0..mgr

\* Types; the command loop and the reconnect task have a peer exactly while
\* they deal with it.
TypeOK ==
    /\ main \in {"select", "disconnect", "check", "send", "await", "returned",
                 "panicked", "ended"}
    /\ cli \in {"running", "connect", "open", "create", "record", "exited"}
    /\ IF cli \in {"running", "exited"} THEN cliPeer = NoPeer /\ cliAddr = "none"
       ELSE cliPeer \in Nodes /\ cliAddr \in {"good", "bad"}
    /\ bp \in {"work", "sleep", "final", "ok", "err"}
    /\ exitSent \in BOOLEAN /\ stop \in BOOLEAN /\ listener \in BOOLEAN
    /\ setups \subseteq Callers /\ dialing \subseteq Strangers
    /\ asleep \in BOOLEAN
    /\ recon.pc \in {"tick", "loop", "dial", "returned"} /\ recon.todo \subseteq Nodes
    /\ IF recon.pc = "dial" THEN recon.peer \in Nodes ELSE recon.peer = NoPeer
    /\ recon.info \in [Nodes -> Addresses]
    /\ connected \subseteq Nodes /\ chans \subseteq Nodes
    /\ file \in [Nodes -> Addresses] /\ torn \in BOOLEAN
    /\ Numbers

\* Once stop is set the listener and the reconnect task bring up only what
\* they had already begun, and each of these attempts at most one connection.
OnlyCheckedConnectLate == late \subseteq {"begun", "other"}

\* A clean exit loses nothing: when start_ldk returns after the background
\* processor's last write, what was written is the final channel data.  There
\* are two exceptions, both tasks that do not look at stop: a connection that
\* came up after disconnect_all_peers, and a PendingHTLCsForwardable task that
\* slept during the last write and woke before the runtime was gone.
SavedAtExit ==
    main \in {"returned", "ended"} /\ bp = "ok" /\ late = {} /\ ~asleep => saved = mgr

\* The same without the second exception.  It fails as described.
ForwardsSaved == main \in {"returned", "ended"} /\ bp = "ok" /\ late = {} => saved = mgr

\* quit ends the process, whatever the background processor is doing or
\* whether it fails meanwhile.
QuitEndsProcess == cli = "exited" ~> main = "ended"

\* "Regularly reconnect to channel peers": a node with a channel whose address
\* the peer file has, from before or from an openchannel of this run, is
\* connected again, whatever the other peers do, unless the node stops or half a
\* line spoils the file.
PeersReconnect ==
    \A n \in Nodes : []<>(\/ n \in connected \/ n \notin chans \/ file[n] # "good"
                          \/ torn \/ main # "select")

\* What PeersReconnect leaves out: an openchannel never replaces the address a
\* peer can be connected at.  It can, with a mistyped one while the peer is
\* connected.
GoodAddressKept == [][\A n \in Nodes : file[n] = "good" => file'[n] = "good"]_vars

\* "Exit if either CLI polling exits or the background processor exits", as
\* the comment above the select at the end of start_ldk says.
ExitsWithBackground == BpDone ~> main = "ended"
===============================================================================
