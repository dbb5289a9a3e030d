-------------------------- MODULE InboundPaymentsProofs --------------------------
(***************************************************************************)
(* The safety properties of the record of inbound payments, for every set  *)
(* of payment hashes and any number of crashes.                            *)
(*                                                                         *)
(* They are not inductive: that a write keeps what the file has depends on *)
(* the map covering the file, and that a success is true on every queued   *)
(* PaymentClaimed, also one in the persisted manager, being so.            *)
(***************************************************************************)
EXTENDS InboundPayments, FiniteSetTheorems, TLAPS

EventSet == {"claimable", "claimed"} \X Hashes \cup {Forwardable}

\* TypeOK, with the queues as sequences; only a running node holds the Mutex.
Types ==
    /\ TypeOK
    /\ events \in Seq(EventSet) /\ saved \in Seq(EventSet)
    /\ ~up => mutex = "free"
    /\ mutex = "handler" => events # <<>> /\ Head(events) \in {"claimed"} \X Hashes

\* What is in the file is in the map, and so is the invoice being made.
Answered ==
    /\ AnsweredInvoicesKept
    /\ \A h \in Hashes : disk[h] # "absent" => mem[h] # "absent"
    /\ mutex = "cli" => mem[making] # "absent"

\* The events that are true: PaymentClaimed is of an HTLC that was claimed.
Truthful == {e \in EventSet : e[1] = "claimed" => htlc[e[2]] = "claimed"}

\* Nothing arrives for an invoice before it was printed, so that getinvoice
\* replaces no success; the events are true; a success in the file is in the map.
Honest ==
    /\ SucceededMeansClaimed
    /\ \A h \in Hashes : htlc[h] # "none" => h \in issued \cup Keysends
    /\ events \in Seq(Truthful) /\ saved \in Seq(Truthful)
    /\ \A h \in Hashes : disk[h] = "Succeeded" => mem[h] = "Succeeded"

Inv == Types /\ Answered /\ Honest

-----------------------------------------------------------------------------
\* A set of events, put in a sequence, is a sequence of them.
LEMMA EventsInSequence ==
  ASSUME NEW S \in SUBSET EventSet, NEW T, S \subseteq T
  PROVE  SetToSeq(S) \in Seq(T)
<1>1. IsFiniteSet(EventSet)
  <2>1. IsFiniteSet({"claimable"})
    BY FS_Singleton
  <2>2. {"claimable", "claimed"} = {"claimable"} \cup {"claimed"}
    OBVIOUS
  <2>3. IsFiniteSet({"claimable", "claimed"})
    BY <2>1, <2>2, FS_AddElement
  <2>4. IsFiniteSet({"claimable", "claimed"} \X Hashes)
    BY <2>3, FS_Product, InboundAssumption
  <2> QED
    BY <2>4, FS_AddElement DEF EventSet
<1>2. IsFiniteSet(S)
  BY <1>1, FS_Subset
<1> DEFINE n == Cardinality(S)
<1>3. n \in Nat /\ ExistsBijection(1..n, S)
  BY <1>2, FS_CardinalityType
<1>4. \E g \in [1..n -> S] : IsInjective(g)
  BY <1>3 DEF ExistsBijection, Bijection, Injection
<1>5. SetToSeq(S) \in [1..n -> S]
  BY <1>4 DEF SetToSeq
<1>6. SetToSeq(S) \in [1..n -> T]
  BY <1>5
<1> QED
  BY <1>3, <1>6

\* What LDK's queue holds after a restart are events, and true ones if the
\* persisted ones are.
LEMMA RestartEvents ==
  ASSUME Types
  PROVE  /\ EventsAfterRestart \in Seq(EventSet)
         /\ saved \in Seq(Truthful) => EventsAfterRestart \in Seq(Truthful)
<1> DEFINE New == {e \in Replayed : ~Queued(e, saved)}
<1>1. Replayed \subseteq Truthful
  <2>1. Forwardable \in Truthful
    BY DEF Truthful, EventSet, Forwardable
  <2>2. \A h \in Hashes : Claimable(h) \in Truthful
    BY DEF Truthful, EventSet, Claimable
  <2>3. \A h \in Hashes : htlc[h] = "claimed" => Claimed(h) \in Truthful
    BY DEF Truthful, EventSet, Claimed
  <2> QED
    BY <2>1, <2>2, <2>3 DEF Replayed
<1>2. New \subseteq EventSet /\ New \subseteq Truthful
  BY <1>1 DEF Truthful
<1>3. SetToSeq(New) \in Seq(EventSet) /\ SetToSeq(New) \in Seq(Truthful)
  BY <1>2, EventsInSequence
<1>4. EventsAfterRestart = saved \o SetToSeq(New)
  BY DEF EventsAfterRestart
<1> HIDE DEF New
<1> QED
  BY <1>3, <1>4 DEF Types

\* Every step keeps the types.
LEMMA StepTypes ==
  ASSUME Types, [Next]_vars
  PROVE  Types'
<1> USE DEF Types, TypeOK, Statuses, EventSet, Forwardable, Hashes, node, manager
<1>0. CASE UNCHANGED vars
  BY <1>0 DEF vars
<1>1. ASSUME NEW h \in Hashes, GetInvoice(h) PROVE Types'
  BY <1>1 DEF GetInvoice
<1>2. ASSUME NEW h \in Hashes, Receive(h) PROVE Types'
  <2>1. events' \in Seq(EventSet)
    BY <1>2 DEF Receive
  <2>2. \A n \in DOMAIN events' : events'[n] \in EventSet
    BY <2>1
  <2> QED
    BY <1>2, <2>1, <2>2 DEF Receive
<1>3. ASSUME NEW h \in Hashes, Expire(h) PROVE Types'
  BY <1>3 DEF Expire
<1>4. CASE GetInvoiceFails
  BY <1>4 DEF GetInvoiceFails
<1>5. CASE WriteInvoice
  BY <1>5 DEF WriteInvoice
<1>6. CASE HandleForwardable
  <2>1. events' \in Seq(EventSet)
    BY <1>6 DEF HandleForwardable
  <2>2. \A n \in DOMAIN events' : events'[n] \in EventSet
    BY <2>1
  <2> QED
    BY <1>6, <2>1, <2>2 DEF HandleForwardable
<1>7. CASE HandleClaimable
  <2>1. Head(events) \in EventSet /\ Head(events)[2] \in Hashes
    BY <1>7 DEF HandleClaimable
  <2>2. Tail(events) \in Seq(EventSet) /\ Claimed(Head(events)[2]) \in EventSet
    BY <1>7, <2>1 DEF HandleClaimable, Claimed
  <2>3. events' \in {Tail(events), Append(Tail(events), Claimed(Head(events)[2]))}
    BY <1>7 DEF HandleClaimable
  <2>4. events' \in Seq(EventSet)
    <3> DEFINE q == Tail(events)
               x == Claimed(Head(events)[2])
    <3> HIDE DEF q, x
    <3>1. q \in Seq(EventSet) /\ x \in EventSet
      BY <2>2 DEF q, x
    <3>2. Append(q, x) \in Seq(EventSet)
      BY <3>1
    <3> QED
      BY <2>3, <3>1, <3>2 DEF q, x
  <2>5. \A n \in DOMAIN events' : events'[n] \in EventSet
    BY <2>4
  <2> QED
    BY <1>7, <2>1, <2>4, <2>5 DEF HandleClaimable
<1>8. CASE HandleClaimed
  <2>1. Head(events) \in EventSet /\ Head(events)[2] \in Hashes
    BY <1>8 DEF HandleClaimed
  <2> QED
    BY <1>8, <2>1 DEF HandleClaimed, RecordClaimed
<1>9. CASE WriteClaimed
  <2>1. events' \in Seq(EventSet)
    BY <1>9 DEF WriteClaimed
  <2>2. \A n \in DOMAIN events' : events'[n] \in EventSet
    BY <2>1
  <2> QED
    BY <1>9, <2>1, <2>2 DEF WriteClaimed
<1>10. CASE ProcessForwards
  <2> DEFINE New == {Claimable(h) : h \in Arrived}
  <2>1. New \subseteq EventSet
    BY DEF Arrived, Claimable
  <2>2. SetToSeq(New) \in Seq(EventSet)
    BY <2>1, EventsInSequence
  <2>3. events' = events \o SetToSeq(New)
    BY <1>10 DEF ProcessForwards
  <2> HIDE DEF New
  <2>4. events' \in Seq(EventSet)
    BY <2>2, <2>3
  <2>5. \A n \in DOMAIN events' : events'[n] \in EventSet
    BY <2>4
  <2>6. events # <<>> => events' # <<>> /\ Head(events') = Head(events)
    BY <2>2, <2>3
  <2> QED
    BY <1>10, <2>4, <2>5, <2>6 DEF ProcessForwards
<1>11. CASE PersistManager
  BY <1>11 DEF PersistManager
<1>12. CASE Crash
  BY <1>12 DEF Crash
<1>13. CASE Start
  <2>1. events' \in Seq(EventSet)
    BY <1>13, RestartEvents DEF Start
  <2>2. \A n \in DOMAIN events' : events'[n] \in EventSet
    BY <2>1
  <2> QED
    BY <1>13, <2>1, <2>2 DEF Start
<1> QED
  BY <1>0, <1>1, <1>2, <1>3, <1>4, <1>5, <1>6, <1>7, <1>8, <1>9, <1>10, <1>11, <1>12, <1>13
     DEF Next, HandlerStep

\* No write loses an entry, and getinvoice writes the one it has inserted.
LEMMA StepAnswered ==
  ASSUME Types, Answered, [Next]_vars
  PROVE  Answered'
<1> USE DEF Types, TypeOK, Answered, AnsweredInvoicesKept, Statuses, EventSet, Forwardable, Hashes,
            node, manager
<1>0. CASE UNCHANGED vars
  BY <1>0 DEF vars
<1>1. ASSUME NEW h \in Hashes, GetInvoice(h) PROVE Answered'
  BY <1>1 DEF GetInvoice
<1>2. ASSUME NEW h \in Hashes, Receive(h) PROVE Answered'
  BY <1>2 DEF Receive
<1>3. ASSUME NEW h \in Hashes, Expire(h) PROVE Answered'
  BY <1>3 DEF Expire
<1>4. CASE GetInvoiceFails
  BY <1>4 DEF GetInvoiceFails
<1>5. CASE WriteInvoice
  BY <1>5 DEF WriteInvoice
<1>6. CASE HandleForwardable
  BY <1>6 DEF HandleForwardable
<1>7. CASE HandleClaimable
  BY <1>7 DEF HandleClaimable
<1>8. CASE HandleClaimed
  <2>1. Head(events) \in EventSet /\ Head(events)[2] \in Hashes
    BY <1>8 DEF HandleClaimed
  <2> QED
    BY <1>8, <2>1 DEF HandleClaimed, RecordClaimed
<1>9. CASE WriteClaimed
  BY <1>9 DEF WriteClaimed
<1>10. CASE ProcessForwards
  BY <1>10 DEF ProcessForwards, Arrived
<1>11. CASE PersistManager
  BY <1>11 DEF PersistManager
<1>12. CASE Crash
  BY <1>12 DEF Crash
<1>13. CASE Start
  BY <1>13 DEF Start
<1> QED
  BY <1>0, <1>1, <1>2, <1>3, <1>4, <1>5, <1>6, <1>7, <1>8, <1>9, <1>10, <1>11, <1>12, <1>13
     DEF Next, HandlerStep

\* A claimed HTLC stays claimed, so that a true event stays true.
LEMMA TruthStays ==
  ASSUME Types, Types', [Next]_vars
  PROVE  Truthful \subseteq Truthful'
<1>1. \A h \in Hashes : htlc[h] = "claimed" => htlc'[h] = "claimed"
  BY DEF Next, HandlerStep, vars, node, manager, GetInvoice, Receive, Expire, GetInvoiceFails,
         WriteInvoice, HandleForwardable, HandleClaimable, HandleClaimed, WriteClaimed,
         ProcessForwards, Arrived, PersistManager, Crash, Start, Types, TypeOK
<1> QED
  BY <1>1 DEF Truthful, EventSet, Forwardable

\* The events LDK queues are true, and so are those it replays.
LEMMA StepQueues ==
  ASSUME Types, Types', Honest, [Next]_vars
  PROVE  events' \in Seq(Truthful') /\ saved' \in Seq(Truthful')
<1>1. ASSUME NEW q \in Seq(Truthful) PROVE q \in Seq(Truthful')
  BY <1>1, TruthStays
<1>2. events \in Seq(Truthful') /\ saved \in Seq(Truthful')
  BY <1>1 DEF Honest
<1>3. saved' = saved \/ saved' = events
  BY DEF Next, HandlerStep, vars, node, manager, GetInvoice, Receive, Expire, GetInvoiceFails,
         WriteInvoice, HandleForwardable, HandleClaimable, HandleClaimed, WriteClaimed,
         ProcessForwards, PersistManager, Crash, Start
<1>4. events' \in Seq(Truthful')
  <2>1. ASSUME NEW h \in Hashes, Receive(h) PROVE events' \in Seq(Truthful')
    <3>1. Forwardable \in Truthful'
      BY DEF Truthful, EventSet, Forwardable
    <3> QED
      BY <1>2, <2>1, <3>1 DEF Receive
  <2>2. CASE HandleClaimable
    <3> DEFINE h == Head(events)[2]
               q == Tail(events)
    <3>1. Head(events) \in EventSet /\ h \in Hashes
      BY <2>2 DEF HandleClaimable, Types, EventSet, Forwardable
    <3>2. CASE htlc[h] = "held" /\ events' = Append(q, Claimed(h)) /\ htlc'[h] = "claimed"
      <4>1. Claimed(h) \in Truthful'
        BY <3>1, <3>2 DEF Truthful, EventSet, Claimed
      <4>2. q \in Seq(Truthful')
        BY <1>2, <2>2 DEF HandleClaimable
      <4> HIDE DEF h, q
      <4> QED
        BY <3>2, <4>1, <4>2
    <3>3. CASE events' = q
      BY <1>2, <2>2, <3>3 DEF HandleClaimable
    <3> QED
      BY <2>2, <3>1, <3>2, <3>3 DEF HandleClaimable, Types, TypeOK
  <2>3. CASE HandleForwardable \/ WriteClaimed
    <3>1. events' = Tail(events) /\ events # <<>>
      BY <2>3 DEF HandleForwardable, WriteClaimed, Types
    <3> QED
      BY <1>2, <3>1
  <2>4. CASE ProcessForwards
    <3> DEFINE New == {Claimable(h) : h \in Arrived}
    <3>1. New \subseteq EventSet /\ New \subseteq Truthful'
      BY DEF Arrived, Claimable, Truthful, EventSet
    <3>2. SetToSeq(New) \in Seq(Truthful')
      BY <3>1, EventsInSequence
    <3>3. events' = events \o SetToSeq(New)
      BY <2>4 DEF ProcessForwards
    <3> HIDE DEF New
    <3> QED
      BY <1>2, <3>2, <3>3
  <2>5. CASE Start
    <3>1. events' \in Seq(Truthful)
      BY <2>5, RestartEvents DEF Start, Honest
    <3> QED
      BY <1>1, <3>1
  <2>6. CASE UNCHANGED events
    BY <1>2, <2>6
  <2> QED
    BY <2>1, <2>2, <2>3, <2>4, <2>5, <2>6
       DEF Next, HandlerStep, vars, node, manager, GetInvoice, Expire, GetInvoiceFails,
           WriteInvoice, HandleClaimed, PersistManager, Crash
<1> QED
  BY <1>2, <1>3, <1>4

\* No step records a payment that was not claimed, nor replaces a success.
LEMMA StepHonest ==
  ASSUME Types, Types', Honest, [Next]_vars
  PROVE  Honest'
<1> DEFINE Rest == /\ SucceededMeansClaimed
                   /\ \A h \in Hashes : htlc[h] # "none" => h \in issued \cup Keysends
                   /\ \A h \in Hashes : disk[h] = "Succeeded" => mem[h] = "Succeeded"
<1> SUFFICES Rest'
  BY StepQueues DEF Honest
<1> USE DEF Types, TypeOK, Honest, SucceededMeansClaimed, Statuses, node, manager
<1>0. CASE UNCHANGED vars
  BY <1>0 DEF vars
<1>1. ASSUME NEW h \in Hashes, GetInvoice(h) PROVE Rest'
  <2>1. h \notin Keysends /\ htlc[h] = "none"
    BY <1>1, InboundAssumption DEF GetInvoice
  <2> QED
    BY <1>1, <2>1 DEF GetInvoice
<1>2. ASSUME NEW h \in Hashes, Receive(h) PROVE Rest'
  BY <1>2 DEF Receive
<1>3. ASSUME NEW h \in Hashes, Expire(h) PROVE Rest'
  BY <1>3 DEF Expire
<1>4. CASE GetInvoiceFails
  BY <1>4 DEF GetInvoiceFails
<1>5. CASE WriteInvoice
  BY <1>5 DEF WriteInvoice
<1>6. CASE HandleForwardable
  BY <1>6 DEF HandleForwardable
<1>7. CASE HandleClaimable
  BY <1>7 DEF HandleClaimable
<1>8. CASE HandleClaimed
  <2>1. Head(events) \in Truthful /\ Head(events)[1] = "claimed"
    BY <1>8 DEF HandleClaimed
  <2>2. Head(events)[2] \in Hashes /\ htlc[Head(events)[2]] = "claimed"
    BY <2>1 DEF Truthful, EventSet, Forwardable
  <2> QED
    BY <1>8, <2>2 DEF HandleClaimed, RecordClaimed
<1>9. CASE WriteClaimed
  BY <1>9 DEF WriteClaimed
<1>10. CASE ProcessForwards
  BY <1>10 DEF ProcessForwards, Arrived
<1>11. CASE PersistManager
  BY <1>11 DEF PersistManager
<1>12. CASE Crash
  BY <1>12 DEF Crash
<1>13. CASE Start
  BY <1>13 DEF Start
<1> QED
  BY <1>0, <1>1, <1>2, <1>3, <1>4, <1>5, <1>6, <1>7, <1>8, <1>9, <1>10, <1>11, <1>12, <1>13
     DEF Next, HandlerStep

\* The node starts without invoices, payments or events.
LEMMA InitInv ==
  Init => Inv
<1> SUFFICES ASSUME Init PROVE Inv
  OBVIOUS
<1>1. Types
  <2>1. events \in Seq(EventSet) /\ saved \in Seq(EventSet)
    BY DEF Init
  <2>2. \A q \in {events, saved} : DOMAIN q = {}
    BY DEF Init
  <2> QED
    BY <2>1, <2>2 DEF Init, Types, TypeOK, Statuses
<1>2. Answered
  BY DEF Init, Answered, AnsweredInvoicesKept
<1>3. Honest
  BY DEF Init, Honest, SucceededMeansClaimed
<1> QED
  BY <1>1, <1>2, <1>3 DEF Inv

\* The inductive invariant.
LEMMA InvHolds ==
  Spec => []Inv
<1>1. Inv /\ [Next]_vars => Inv'
  BY StepTypes, StepAnswered, StepHonest DEF Inv
<1> QED
  BY <1>1, InitInv, PTL DEF Spec

-----------------------------------------------------------------------------
\* Types hold throughout; getinvoice holds the Mutex exactly while it has an
\* invoice to write.
THEOREM TypeCorrect ==
  Spec => []TypeOK
<1>1. Inv => TypeOK
  BY DEF Inv, Types
<1> QED
  BY <1>1, InvHolds, PTL

\* What getinvoice answered with is in the file for ever, whichever of the
\* writers of inbound_payments writes next and wherever the node dies.
THEOREM InvoicesKept ==
  Spec => []AnsweredInvoicesKept
<1>1. Inv => AnsweredInvoicesKept
  BY DEF Inv, Answered
<1> QED
  BY <1>1, InvHolds, PTL

\* What is recorded as received has its preimage in a channel monitor, however
\* LDK replays PaymentClaimable and PaymentClaimed.
THEOREM ReceivedMeansClaimed ==
  Spec => []SucceededMeansClaimed
<1>1. Inv => SucceededMeansClaimed
  BY DEF Inv, Honest
<1> QED
  BY <1>1, InvHolds, PTL

\* A receipt in the file is never undone: every write is of the map, and the
\* map has it.
THEOREM ReceiptIsFinal ==
  Spec => ReceivedStays
<1>1. ASSUME Inv, [Next]_vars
      PROVE  \A h \in Hashes : disk[h] = "Succeeded" => disk'[h] = "Succeeded"
  <2>1. disk' = disk \/ disk' = mem
    BY <1>1 DEF Next, HandlerStep, vars, node, manager, GetInvoice, Receive, Expire,
         GetInvoiceFails, WriteInvoice, HandleForwardable, HandleClaimable, HandleClaimed,
         WriteClaimed, ProcessForwards, PersistManager, Crash, Start
  <2> QED
    BY <1>1, <2>1 DEF Inv, Honest
<1> QED
  BY <1>1, InvHolds, PTL DEF Spec, ReceivedStays
==================================================================================
