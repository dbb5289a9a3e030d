----------------------------- MODULE ShutdownProofs -----------------------------
(***************************************************************************)
(* How the node stops, for every set of peers, strangers and callers and   *)
(* any number of changes to channel data.                                  *)
(*                                                                         *)
(* OnlyCheckedConnectLate speaks of who connects after the disconnect; it  *)
(* holds because every attempt under way when stop is set is in begun.     *)
(* SavedAtExit speaks of the end; it holds because the last write comes    *)
(* after the command loop has ended and, but for the exceptions, with no   *)
(* peer connected and no forwarding task asleep that could still change    *)
(* the data.                                                               *)
(***************************************************************************)
EXTENDS Shutdown, TLAPS

ReconType ==
    [pc : {"tick", "loop", "dial", "returned"}, todo : SUBSET Nodes,
     peer : Nodes \cup {NoPeer}, info : [Nodes -> Addresses]]

\* TypeOK, with the reconnect task as a record; stop is set exactly when the
\* select has ended.
Types ==
    /\ TypeOK
    /\ recon \in ReconType
    /\ stop <=> main # "select"

\* Every attempt that is under way after Select was under way then.
Checked ==
    /\ OnlyCheckedConnectLate
    /\ main # "select" =>
        /\ \A c \in setups : <<"listener", c>> \in begun
        /\ recon.pc = "dial" => <<"reconnect", recon.peer>> \in begun

\* The select ends because the user has quit or the background processor has
\* failed; the processor is sent away only after that, and ends well only when it
\* was sent away; after DisconnectAll a connection is a late one, and only a
\* working processor spawns forwarding tasks; so nothing changes the data after
\* the last write unless there was a late connection or a task slept then.
Quiet ==
    /\ main # "select" => cli = "exited" \/ bp = "err"
    /\ bp \in {"final", "ok"} => exitSent
    /\ exitSent => main \notin {"select", "disconnect", "check", "send"}
    /\ main \notin {"select", "disconnect"} /\ late = {} => connected = {}
    /\ bp = "ok" /\ ~asleep => forwarding = 0
    /\ bp = "ok" /\ late = {} /\ ~asleep => saved = mgr

Inv == Types /\ Checked /\ Quiet

-----------------------------------------------------------------------------
\* The reconnect task between two rounds, and when it has returned.
LEMMA TickType ==
  /\ Tick \in ReconType
  /\ Tick.pc = "tick" /\ Tick.todo = {} /\ Tick.peer = NoPeer
BY DEF Tick, ReconType, NoPeer, Addresses

LEMMA ReturnedType ==
  LET r == [Tick EXCEPT !.pc = "returned"] IN
  /\ r \in ReconType
  /\ r.pc = "returned" /\ r.todo = {} /\ r.peer = NoPeer
BY DEF Tick, ReconType, NoPeer, Addresses

\* Every step keeps the changes within their bound, and what was saved behind them.
LEMMA StepNumbers ==
  ASSUME Numbers, [Next]_vars
  PROVE  Numbers'
<1> USE ShutdownAssumption DEF Numbers, Room, data, typed, spawned, tasks, runtime
<1>1. CASE UNCHANGED <<mgr, forwarding, saved>>
  BY <1>1
<1>2. CASE CreateChannel \/ \E n \in Nodes : CloseChannel(n)
  BY <1>2 DEF CreateChannel, CloseChannel, CliUnchanged
<1>3. CASE \E n \in Nodes : PeerUpdate(n)
  BY <1>3 DEF PeerUpdate
<1>4. CASE PendingHTLCsForwardable \/ ProcessPendingHtlcForwards
  BY <1>4 DEF PendingHTLCsForwardable, ProcessPendingHtlcForwards, ForwardUnchanged
<1>5. CASE BpPersist
  BY <1>5 DEF BpPersist, BpUnchanged
<1>6. CASE CheckResult \/ AwaitBp \/ ProcessEnds
  BY <1>6 DEF CheckResult, AwaitBp, ProcessEnds, Return
<1>7. CASE Select \/ DisconnectAll \/ SendExit \/ Ended \/ BpWake \/ BpExit \/ UNCHANGED vars
  BY <1>7, <1>1 DEF Select, DisconnectAll, SendExit, Ended, BpWake, BpExit, BpUnchanged, vars
<1>8. CASE ReconStep
  BY <1>8, <1>1 DEF ReconStep, ReconTick, ReconNext, ReconRoundOver, ReconConnected, ReconFailed, ReconUnchanged
<1>9. CASE ConnectPeerEnds \/ PersistChannelPeer \/ Quit
  BY <1>9, <1>1 DEF ConnectPeerEnds, PersistChannelPeer, Quit, CliUnchanged
<1>10. CASE \E c \in Callers : Accept(c) \/ SetupInbound(c)
  BY <1>10, <1>1 DEF Accept, SetupInbound, ListenUnchanged
<1>11. CASE \E n \in Nodes : \/ ConnectPeer(n) \/ OpenChannel(n, "good") \/ OpenChannel(n, "bad")
                            \/ DisconnectPeer(n)
  BY <1>11, <1>1 DEF ConnectPeer, OpenChannel, DisconnectPeer, CliUnchanged
<1>12. CASE \E n \in Nodes : ConnectionNeeded(n) \/ ConnectionNeededEnds(n) \/ PeerDrops(n)
  BY <1>12, <1>1 DEF ConnectionNeeded, ConnectionNeededEnds, PeerDrops
<1> QED
  BY <1>2, <1>3, <1>4, <1>5, <1>6, <1>7, <1>8, <1>9, <1>10, <1>11, <1>12
     DEF Next, MainStep, CliStep

\* Every step keeps the types.
LEMMA StepTypes ==
  ASSUME Types, [Next]_vars
  PROVE  Types'
<1> USE ShutdownAssumption DEF Types, TypeOK, ReconType, Nodes, NoPeer, Tick, Addresses, Alive, CliAt,
            typed, spawned, tasks, data, peerFile, history
<1> Numbers'
  BY StepNumbers
<1>0. CASE UNCHANGED vars
  BY <1>0 DEF vars
<1>1. CASE Select
  BY <1>1 DEF Select, BpDone
<1>2. CASE DisconnectAll
  BY <1>2 DEF DisconnectAll
<1>3. CASE CheckResult
  <2>1. CASE main' = "returned"
    BY <1>3, <2>1, ReturnedType DEF CheckResult, Return, runtime, BpDone
  <2>2. CASE main' # "returned"
    BY <1>3, <2>2 DEF CheckResult, Return, runtime, BpDone
  <2> QED
    BY <2>1, <2>2
<1>4. CASE SendExit
  <2>1. main' \in {"await", "panicked"} /\ exitSent' \in BOOLEAN
    BY <1>4 DEF SendExit, BpDone
  <2> QED
    BY <1>4, <2>1 DEF SendExit, BpDone
<1>5. CASE AwaitBp
  <2>1. CASE main' = "returned"
    BY <1>5, <2>1, ReturnedType DEF AwaitBp, Return, runtime
  <2>2. CASE main' # "returned"
    BY <1>5, <2>2 DEF AwaitBp, Return, runtime
  <2> QED
    BY <2>1, <2>2
<1>6. CASE ProcessEnds
  BY <1>6 DEF ProcessEnds
<1>7. CASE ReconTick
  BY <1>7 DEF ReconTick, ReconUnchanged
<1>8. ASSUME NEW p \in Nodes, ReconNext(p) PROVE Types'
  <2>1. CASE p \in connected
    BY <1>8, <2>1 DEF ReconNext, ReconUnchanged
  <2>2. CASE p \notin connected /\ stop
    BY <1>8, <2>2, ReturnedType DEF ReconNext, ReconUnchanged
  <2>3. CASE p \notin connected /\ ~stop
    <3>1. CASE recon.info[p] = "none"
      BY <1>8, <2>3, <3>1 DEF ReconNext, ReconUnchanged
    <3>2. CASE recon.info[p] # "none"
      <4>1. recon' = [recon EXCEPT !.pc = "dial", !.todo = recon.todo \ {p}, !.peer = p]
        BY <1>8, <2>3, <3>2, Zenon DEF ReconNext
      <4>2. recon.todo \ {p} \in SUBSET Nodes
        OBVIOUS
      <4>3. /\ recon' \in ReconType /\ recon'.pc = "dial" /\ recon'.peer = p
            /\ recon'.todo \subseteq Nodes /\ recon'.info = recon.info
        BY <4>1, <4>2
      <4> QED
        BY <1>8, <4>3 DEF ReconNext, ReconUnchanged
    <3> QED
      BY <3>1, <3>2
  <2> QED
    BY <2>1, <2>2, <2>3
<1>9. CASE ReconRoundOver
  BY <1>9 DEF ReconRoundOver, ReconUnchanged
<1>10. CASE ReconConnected
  <2>1. recon' = [recon EXCEPT !.pc = "loop", !.peer = NoPeer] /\ connected' = connected \cup {recon.peer}
    BY <1>10 DEF ReconConnected, Up
  <2>2. recon' \in ReconType /\ recon'.pc = "loop" /\ recon'.peer = NoPeer /\ recon'.todo = recon.todo
    BY <2>1
  <2>3. connected' \subseteq Nodes
    BY <1>10, <2>1 DEF ReconConnected
  <2> QED
    BY <1>10, <2>2, <2>3 DEF ReconConnected, ReconUnchanged, Up
<1>11. CASE ReconFailed
  <2>1. recon' = [recon EXCEPT !.pc = "loop", !.peer = NoPeer]
    BY <1>11 DEF ReconFailed
  <2>2. recon' \in ReconType /\ recon'.pc = "loop" /\ recon'.peer = NoPeer /\ recon'.todo = recon.todo
    BY <2>1
  <2> QED
    BY <1>11, <2>2 DEF ReconFailed, ReconUnchanged
<1>12. CASE ConnectPeerEnds
  BY <1>12 DEF ConnectPeerEnds, Up, CliUnchanged, CliDone
<1>13. CASE CreateChannel
  BY <1>13 DEF CreateChannel, CliUnchanged, CliDone
<1>14. CASE PersistChannelPeer
  <2>1. file' \in [Nodes -> Addresses] /\ torn' \in BOOLEAN
    BY <1>14 DEF PersistChannelPeer, CliUnchanged, CliDone
  <2> QED
    BY <1>14, <2>1 DEF PersistChannelPeer, CliUnchanged, CliDone
<1>15. CASE Quit
  BY <1>15 DEF Quit, CliUnchanged, CliDone
<1>16. CASE BpPersist
  <2>1. bp' \in {"sleep", "ok", "err"}
    BY <1>16, Zenon DEF BpPersist
  <2>2. (forwarding # 0) \in BOOLEAN
    BY Zenon
  <2>3. asleep' \in BOOLEAN
    BY <1>16, <2>2, Zenon DEF BpPersist
  <2> QED
    BY <1>16, <2>1, <2>3 DEF BpPersist, BpUnchanged
<1>17. CASE BpWake
  BY <1>17 DEF BpWake, BpUnchanged
<1>18. CASE BpExit
  BY <1>18 DEF BpExit, BpUnchanged
<1>19. CASE Ended
  BY <1>19 DEF Ended, vars
<1>20. ASSUME NEW c \in Callers, Accept(c) PROVE Types'
  <2>1. listener' \in BOOLEAN /\ setups' \subseteq Callers
    BY <1>20 DEF Accept, ListenUnchanged
  <2> QED
    BY <1>20, <2>1 DEF Accept, ListenUnchanged
<1>21. ASSUME NEW c \in Callers, SetupInbound(c) PROVE Types'
  BY <1>21 DEF SetupInbound, ListenUnchanged, Up
<1>22. ASSUME NEW n \in Nodes, ConnectPeer(n) PROVE Types'
  BY <1>22 DEF ConnectPeer, CliUnchanged, CliDone
<1>23. ASSUME NEW n \in Nodes, NEW a \in {"good", "bad"}, OpenChannel(n, a) PROVE Types'
  BY <1>23 DEF OpenChannel, CliUnchanged, CliDone
<1>24. ASSUME NEW n \in Nodes, CloseChannel(n) PROVE Types'
  BY <1>24 DEF CloseChannel, CliUnchanged, CliDone
<1>25. ASSUME NEW n \in Nodes, DisconnectPeer(n) PROVE Types'
  BY <1>25 DEF DisconnectPeer, CliUnchanged, CliDone
<1>26. ASSUME NEW n \in Nodes, ConnectionNeeded(n) PROVE Types'
  BY <1>26 DEF ConnectionNeeded
<1>27. ASSUME NEW n \in Nodes, ConnectionNeededEnds(n) PROVE Types'
  BY <1>27 DEF ConnectionNeededEnds, Up
<1>28. ASSUME NEW n \in Nodes, PeerUpdate(n) PROVE Types'
  BY <1>28 DEF PeerUpdate
<1>29. ASSUME NEW n \in Nodes, PeerDrops(n) PROVE Types'
  BY <1>29 DEF PeerDrops
<1>30. CASE PendingHTLCsForwardable
  BY <1>30 DEF PendingHTLCsForwardable, ForwardUnchanged
<1>31. CASE ProcessPendingHtlcForwards
  BY <1>31 DEF ProcessPendingHtlcForwards, ForwardUnchanged
<1> QED
  BY <1>0, <1>1, <1>2, <1>3, <1>4, <1>5, <1>6, <1>7, <1>8, <1>9, <1>10, <1>11, <1>12, <1>13, 
     <1>14, <1>15, <1>16, <1>17, <1>18, <1>19, <1>20, <1>21, <1>22, <1>23, <1>24, <1>25, <1>26, <1>27, <1>28, <1>29,
     <1>30, <1>31
     DEF Next, MainStep, ReconStep, CliStep

\* After Select no attempt is begun, and those that were end in begun.
LEMMA StepChecked ==
  ASSUME Types, Checked, [Next]_vars
  PROVE  Checked'
<1> USE DEF Types, TypeOK, ReconType, Checked, OnlyCheckedConnectLate, Nodes, NoPeer, Tick, Room, Alive,
            CliAt, typed, spawned, tasks, data, peerFile, history
<1>0. CASE UNCHANGED vars
  BY <1>0 DEF vars
<1>1. CASE Select
  BY <1>1 DEF Select, BpDone
<1>2. CASE DisconnectAll
  BY <1>2 DEF DisconnectAll
<1>3. CASE CheckResult
  BY <1>3 DEF CheckResult, Return, runtime, BpDone
<1>4. CASE SendExit
  BY <1>4 DEF SendExit, BpDone
<1>5. CASE AwaitBp
  BY <1>5 DEF AwaitBp, Return, runtime
<1>6. CASE ProcessEnds
  BY <1>6 DEF ProcessEnds
<1>7. CASE ReconTick
  BY <1>7 DEF ReconTick, ReconUnchanged
<1>8. ASSUME NEW p \in Nodes, ReconNext(p) PROVE Checked'
  BY <1>8 DEF ReconNext, ReconUnchanged
<1>9. CASE ReconRoundOver
  BY <1>9 DEF ReconRoundOver, ReconUnchanged
<1>10. CASE ReconConnected
  BY <1>10 DEF ReconConnected, ReconUnchanged, Up
<1>11. CASE ReconFailed
  BY <1>11 DEF ReconFailed, ReconUnchanged
<1>12. CASE ConnectPeerEnds
  BY <1>12 DEF ConnectPeerEnds, Up, CliUnchanged, CliDone
<1>13. CASE CreateChannel
  BY <1>13 DEF CreateChannel, CliUnchanged, CliDone
<1>14. CASE PersistChannelPeer
  BY <1>14 DEF PersistChannelPeer, CliUnchanged, CliDone
<1>15. CASE Quit
  BY <1>15 DEF Quit, CliUnchanged, CliDone
<1>16. CASE BpPersist
  BY <1>16 DEF BpPersist, BpUnchanged
<1>17. CASE BpWake
  BY <1>17 DEF BpWake, BpUnchanged
<1>18. CASE BpExit
  BY <1>18 DEF BpExit, BpUnchanged
<1>19. CASE Ended
  BY <1>19 DEF Ended, vars
<1>20. ASSUME NEW c \in Callers, Accept(c) PROVE Checked'
  BY <1>20 DEF Accept, ListenUnchanged
<1>21. ASSUME NEW c \in Callers, SetupInbound(c) PROVE Checked'
  BY <1>21 DEF SetupInbound, ListenUnchanged, Up
<1>22. ASSUME NEW n \in Nodes, ConnectPeer(n) PROVE Checked'
  BY <1>22 DEF ConnectPeer, CliUnchanged, CliDone
<1>23. ASSUME NEW n \in Nodes, NEW a \in {"good", "bad"}, OpenChannel(n, a) PROVE Checked'
  BY <1>23 DEF OpenChannel, CliUnchanged, CliDone
<1>24. ASSUME NEW n \in Nodes, CloseChannel(n) PROVE Checked'
  BY <1>24 DEF CloseChannel, CliUnchanged, CliDone
<1>25. ASSUME NEW n \in Nodes, DisconnectPeer(n) PROVE Checked'
  BY <1>25 DEF DisconnectPeer, CliUnchanged, CliDone
<1>26. ASSUME NEW n \in Nodes, ConnectionNeeded(n) PROVE Checked'
  BY <1>26 DEF ConnectionNeeded
<1>27. ASSUME NEW n \in Nodes, ConnectionNeededEnds(n) PROVE Checked'
  BY <1>27 DEF ConnectionNeededEnds, Up
<1>28. ASSUME NEW n \in Nodes, PeerUpdate(n) PROVE Checked'
  BY <1>28 DEF PeerUpdate
<1>29. ASSUME NEW n \in Nodes, PeerDrops(n) PROVE Checked'
  BY <1>29 DEF PeerDrops
<1>30. CASE PendingHTLCsForwardable
  BY <1>30 DEF PendingHTLCsForwardable, ForwardUnchanged
<1>31. CASE ProcessPendingHtlcForwards
  BY <1>31 DEF ProcessPendingHtlcForwards, ForwardUnchanged
<1> QED
  BY <1>0, <1>1, <1>2, <1>3, <1>4, <1>5, <1>6, <1>7, <1>8, <1>9, <1>10, <1>11, <1>12, <1>13, 
     <1>14, <1>15, <1>16, <1>17, <1>18, <1>19, <1>20, <1>21, <1>22, <1>23, <1>24, <1>25, <1>26, <1>27, <1>28, <1>29,
     <1>30, <1>31
     DEF Next, MainStep, ReconStep, CliStep

\* After DisconnectAll only a late connection or a forwarding task changes channel
\* data.
LEMMA StepQuiet ==
  ASSUME Types, Quiet, [Next]_vars
  PROVE  Quiet'
<1> USE DEF Types, TypeOK, Numbers, ReconType, Quiet, Nodes, NoPeer, Tick, Room, Alive, CliAt,
            typed, spawned, tasks, data, peerFile, history
<1>0. CASE UNCHANGED vars
  BY <1>0 DEF vars
<1>1. CASE Select
  BY <1>1 DEF Select, BpDone
<1>2. CASE DisconnectAll
  BY <1>2 DEF DisconnectAll
<1>3. CASE CheckResult
  BY <1>3 DEF CheckResult, Return, runtime, BpDone
<1>4. CASE SendExit
  BY <1>4 DEF SendExit, BpDone
<1>5. CASE AwaitBp
  BY <1>5 DEF AwaitBp, Return, runtime
<1>6. CASE ProcessEnds
  BY <1>6 DEF ProcessEnds
<1>7. CASE ReconTick
  BY <1>7 DEF ReconTick, ReconUnchanged
<1>8. ASSUME NEW p \in Nodes, ReconNext(p) PROVE Quiet'
  BY <1>8 DEF ReconNext, ReconUnchanged
<1>9. CASE ReconRoundOver
  BY <1>9 DEF ReconRoundOver, ReconUnchanged
<1>10. CASE ReconConnected
  BY <1>10 DEF ReconConnected, ReconUnchanged, Up
<1>11. CASE ReconFailed
  BY <1>11 DEF ReconFailed, ReconUnchanged
<1>12. CASE ConnectPeerEnds
  BY <1>12 DEF ConnectPeerEnds, Up, CliUnchanged, CliDone
<1>13. CASE CreateChannel
  BY <1>13 DEF CreateChannel, CliUnchanged, CliDone
<1>14. CASE PersistChannelPeer
  BY <1>14 DEF PersistChannelPeer, CliUnchanged, CliDone
<1>15. CASE Quit
  BY <1>15 DEF Quit, CliUnchanged, CliDone
<1>16. CASE BpPersist
  BY <1>16 DEF BpPersist, BpUnchanged
<1>17. CASE BpWake
  BY <1>17 DEF BpWake, BpUnchanged
<1>18. CASE BpExit
  BY <1>18 DEF BpExit, BpUnchanged
<1>19. CASE Ended
  BY <1>19 DEF Ended, vars
<1>20. ASSUME NEW c \in Callers, Accept(c) PROVE Quiet'
  BY <1>20 DEF Accept, ListenUnchanged
<1>21. ASSUME NEW c \in Callers, SetupInbound(c) PROVE Quiet'
  BY <1>21 DEF SetupInbound, ListenUnchanged, Up
<1>22. ASSUME NEW n \in Nodes, ConnectPeer(n) PROVE Quiet'
  BY <1>22 DEF ConnectPeer, CliUnchanged, CliDone
<1>23. ASSUME NEW n \in Nodes, NEW a \in {"good", "bad"}, OpenChannel(n, a) PROVE Quiet'
  BY <1>23 DEF OpenChannel, CliUnchanged, CliDone
<1>24. ASSUME NEW n \in Nodes, CloseChannel(n) PROVE Quiet'
  BY <1>24 DEF CloseChannel, CliUnchanged, CliDone
<1>25. ASSUME NEW n \in Nodes, DisconnectPeer(n) PROVE Quiet'
  BY <1>25 DEF DisconnectPeer, CliUnchanged, CliDone
<1>26. ASSUME NEW n \in Nodes, ConnectionNeeded(n) PROVE Quiet'
  BY <1>26 DEF ConnectionNeeded
<1>27. ASSUME NEW n \in Nodes, ConnectionNeededEnds(n) PROVE Quiet'
  BY <1>27 DEF ConnectionNeededEnds, Up
<1>28. ASSUME NEW n \in Nodes, PeerUpdate(n) PROVE Quiet'
  BY <1>28 DEF PeerUpdate
<1>29. ASSUME NEW n \in Nodes, PeerDrops(n) PROVE Quiet'
  BY <1>29 DEF PeerDrops
<1>30. CASE PendingHTLCsForwardable
  BY <1>30 DEF PendingHTLCsForwardable, ForwardUnchanged
<1>31. CASE ProcessPendingHtlcForwards
  BY <1>31 DEF ProcessPendingHtlcForwards, ForwardUnchanged
<1> QED
  BY <1>0, <1>1, <1>2, <1>3, <1>4, <1>5, <1>6, <1>7, <1>8, <1>9, <1>10, <1>11, <1>12, <1>13, 
     <1>14, <1>15, <1>16, <1>17, <1>18, <1>19, <1>20, <1>21, <1>22, <1>23, <1>24, <1>25, <1>26, <1>27, <1>28, <1>29,
     <1>30, <1>31
     DEF Next, MainStep, ReconStep, CliStep

\* The node is up, with its channel peers in the file.
LEMMA InitInv ==
  Init => Inv
<1> SUFFICES ASSUME Init PROVE Inv
  OBVIOUS
<1>1. Types
  <2>1. recon \in ReconType /\ recon.pc = "tick" /\ recon.todo = {} /\ recon.peer = NoPeer
    BY TickType DEF Init
  <2>2. recon.info \in [Nodes -> Addresses] /\ file \in [Nodes -> Addresses]
    BY <2>1 DEF Init, ReconType, Addresses
  <2>3. /\ chans \subseteq Nodes /\ Numbers
        /\ connected = {} /\ setups = {} /\ dialing = {} /\ ~asleep
    BY ShutdownAssumption DEF Init, Nodes, Numbers
  <2> QED
    BY <2>1, <2>2, <2>3 DEF Init, Types, TypeOK
<1>2. Checked
  BY DEF Init, Checked, OnlyCheckedConnectLate
<1>3. Quiet
  BY DEF Init, Quiet
<1> QED
  BY <1>1, <1>2, <1>3 DEF Inv

\* The inductive invariant.
LEMMA InvHolds ==
  Spec => []Inv
<1>1. Inv /\ [Next]_vars => Inv'
  BY StepTypes, StepChecked, StepQuiet DEF Inv
<1> QED
  BY <1>1, InitInv, PTL DEF Spec

-----------------------------------------------------------------------------
\* Types hold throughout; the command loop and the reconnect task have a peer
\* exactly while they deal with it.
THEOREM TypeCorrect ==
  Spec => []TypeOK
<1>1. Inv => TypeOK
  BY DEF Inv, Types
<1> QED
  BY <1>1, InvHolds, PTL

\* stop_listen_connect keeps its promise for any number of peers: the listener
\* and the reconnect task bring up nothing after disconnect_all_peers that was
\* not already past their look at the flag.
THEOREM FlagIsHeeded ==
  Spec => []OnlyCheckedConnectLate
<1>1. Inv => OnlyCheckedConnectLate
  BY DEF Inv, Checked
<1> QED
  BY <1>1, InvHolds, PTL

\* When start_ldk has returned after the background processor ended well, no
\* connection came up late and no forwarding task slept during the last write, the
\* channel data on disk is the final one.
THEOREM CleanExitSaves ==
  Spec => []SavedAtExit
<1>1. Inv => SavedAtExit
  BY DEF Inv, Quiet, SavedAtExit
<1> QED
  BY <1>1, InvHolds, PTL
=================================================================================
