----------------------- MODULE OutboundPaymentsProofs -----------------------
(***************************************************************************)
(* The safety properties of the record of outbound payments, for every set *)
(* of payment ids and any number of payments and crashes.                  *)
(*                                                                         *)
(* None of them is inductive.  Recorded follows an id from the map through *)
(* the two ways to the file; Backed follows what a Pending entry is owed   *)
(* to; Once says, for a node that pays nothing twice and no offers, that   *)
(* an HTLC's fate, LDK's state, the queued events and both copies of the   *)
(* map agree.                                                              *)
(***************************************************************************)
EXTENDS OutboundPayments, FiniteSetTheorems, TLAPS

EventSet == {"sent", "failed"} \X Ids
LdkStates == {"none", "awaiting", "pending", "fulfilled"}
Offering == {"offerEncode", "offerWrite", "offerPay"}
Pcs == {"idle", "record", "send", "recordErr", "confirm", "exited"} \cup Offering

\* TypeOK, and the types of what it leaves open: the command loop, the queues,
\* the persisted manager.  Outside of "up" only main.rs runs.
Types ==
    /\ TypeOK
    /\ cli \in [pc : Pcs, id : Ids \cup {"none"}]
    /\ cli.pc \in Offering => cli.id \in Offers
    /\ events \in Seq(EventSet)
    /\ saved \in [ldk : [Ids -> LdkStates], events : Seq(EventSet)]
    /\ phase # "up" => cli = Idle /\ handler = "idle" /\ mutex = "free"
    /\ handler = "write" => events # <<>>

\* What LDK has, now or after a restart, is in the file; what is in the file is
\* in the map, and the copy an offer is about to write has the entries of the
\* map; a command gets to the call of LDK only with its id in the file.
Recorded ==
    /\ RecordedBeforeSent
    /\ \A i \in Ids : saved.ldk[i] # "none" => disk[i] # "absent"
    /\ \A i \in Ids : disk[i] # "absent" => mem[i] # "absent"
    /\ cli.pc = "offerWrite" => \A i \in Ids : snap[i] = "absent" <=> mem[i] = "absent"
    /\ cli.pc \in {"record", "send", "recordErr"} \cup Offering => mem[cli.id] # "absent"
    /\ cli.pc \in {"send", "offerPay"} => disk[cli.id] # "absent"

\* For a node that pays each invoice once and no offers.  An HTLC's fate is
\* final and an event tells the truth about it; a settled payment has its event
\* queued or its success in the file; a success in the file is in the map.
Once ==
    /\ cli.pc \notin Offering
    /\ cli.pc \in {"record", "send", "recordErr"} => net[cli.id] = "none"
    /\ cli.pc \in {"record", "send"} => mem[cli.id] = "Pending"
    /\ cli.pc = "send" => disk[cli.id] = "Pending"
    /\ \A i \in Ids :
        /\ ldk[i] # "awaiting" /\ saved.ldk[i] # "awaiting"
        /\ net[i] = "inflight" => ldk[i] = "pending"
        /\ Queued(Sent(i), events) \/ Queued(Sent(i), saved.events) => net[i] = "settled"
        /\ Queued(Failed(i), events) \/ Queued(Failed(i), saved.events) => net[i] = "failed"
        /\ Queued(Sent(i), events) => ldk[i] = "fulfilled"
        /\ net[i] = "settled" => Queued(Sent(i), events) \/ disk[i] = "Succeeded"
        /\ disk[i] = "Succeeded" => mem[i] = "Succeeded"
        /\ mem[i] = "Succeeded" => net[i] = "settled"
    /\ handler = "write" /\ Head(events)[1] = "sent" => mem[Head(events)[2]] = "Succeeded"
    /\ FailedMeansUnpaid

\* What stands behind a Pending entry once start-up has gone through the map.
\* The command that inserted it does until it has called LDK.
Owed(i) ==
    \/ cli.pc \in {"record", "send"} \cup Offering /\ cli.id = i
    \/ ldk[i] # "none" \/ Queued(Sent(i), events) \/ Queued(Failed(i), events)
    \/ i \in refused \/ (~PaidOnce /\ net[i] = "settled")

Backed ==
    /\ phase \in {"reconciled", "up"} => \A i \in Ids : mem[i] = "Pending" => Owed(i)
    /\ handler = "write" => mem[Head(events)[2]] # "Pending"
    /\ cli.pc = "recordErr" => mem[cli.id] # "Pending"
    /\ \A i \in Ids : ldk[i] = "fulfilled" => net[i] = "settled"

Inv == Types /\ Recorded /\ (PaidOnce => Once) /\ Backed

-----------------------------------------------------------------------------
(***************************************************************************)
(* The queue of events.                                                    *)
(***************************************************************************)
\* An event is the outcome of one payment, sent or failed.
LEMMA EventShape ==
  /\ \A i \in Ids : Sent(i) \in EventSet /\ Failed(i) \in EventSet
  /\ \A e \in EventSet : /\ e[2] \in Ids
                         /\ e[1] = "sent" => e = Sent(e[2])
                         /\ e[1] # "sent" => e = Failed(e[2])
  /\ \A i, j : /\ Sent(i) = Sent(j) => i = j
               /\ Failed(i) = Failed(j) => i = j
               /\ Sent(i) # Failed(j)
  /\ \A i : Sent(i)[1] = "sent" /\ Sent(i)[2] = i /\ Failed(i)[1] = "failed" /\ Failed(i)[2] = i
BY DEF EventSet, Sent, Failed

\* LDK appends an event ...
LEMMA QueuedAppend ==
  ASSUME NEW S, NEW q \in Seq(S), NEW x \in S, NEW e
  PROVE  /\ Append(q, x) \in Seq(S)
         /\ Queued(e, Append(q, x)) <=> Queued(e, q) \/ e = x
         /\ Append(q, x) # <<>>
         /\ q # <<>> => Head(Append(q, x)) = Head(q)
<1> DEFINE r == Append(q, x)
<1>1. /\ r \in Seq(S) /\ DOMAIN r = 1..(Len(q) + 1) /\ DOMAIN q = 1..Len(q) /\ Len(q) \in Nat
      /\ r[Len(q) + 1] = x /\ \A n \in DOMAIN q : r[n] = q[n]
  OBVIOUS
<1>2. \A n \in DOMAIN r : n \in DOMAIN q \/ n = Len(q) + 1
  BY <1>1
<1>3. \A n \in DOMAIN q : n \in DOMAIN r
  BY <1>1
<1>4. q # <<>> => Head(r) = Head(q)
  OBVIOUS
<1>5. Len(q) + 1 \in DOMAIN r /\ r # <<>>
  BY <1>1
<1> HIDE DEF r
<1>6. Queued(e, r) <=> Queued(e, q) \/ e = x
  BY <1>1, <1>2, <1>3, <1>5 DEF Queued
<1> QED
  BY <1>1, <1>4, <1>5, <1>6 DEF r

\* ... and drops the first one when its handler has returned.
LEMMA QueuedTail ==
  ASSUME NEW S, NEW q \in Seq(S), q # <<>>, NEW e
  PROVE  /\ Head(q) \in S /\ Tail(q) \in Seq(S)
         /\ Queued(Head(q), q)
         /\ Queued(e, q) <=> Queued(e, Tail(q)) \/ e = Head(q)
<1>1. Head(q) \in S /\ Tail(q) \in Seq(S) /\ Queued(Head(q), q)
  BY DEF Queued
<1>2. Queued(e, Tail(q)) => Queued(e, q)
  <2>1. SUFFICES ASSUME NEW n \in DOMAIN Tail(q), Tail(q)[n] = e PROVE Queued(e, q)
    BY DEF Queued
  <2>2. n + 1 \in DOMAIN q /\ q[n + 1] = e
    BY <2>1
  <2> QED
    BY <2>2 DEF Queued
<1>3. Queued(e, q) => Queued(e, Tail(q)) \/ e = Head(q)
  <2>1. SUFFICES ASSUME NEW n \in DOMAIN q, q[n] = e, n # 1 PROVE Queued(e, Tail(q))
    BY DEF Queued
  <2>2. n - 1 \in DOMAIN Tail(q) /\ Tail(q)[n - 1] = e
    BY <2>1
  <2> QED
    BY <2>2 DEF Queued
<1> QED
  BY <1>1, <1>2, <1>3

\* A queue followed by another one has the events of both.
LEMMA QueuedConcat ==
  ASSUME NEW S, NEW q \in Seq(S), NEW r \in Seq(S), NEW e
  PROVE  /\ q \o r \in Seq(S)
         /\ Queued(e, q \o r) <=> Queued(e, q) \/ Queued(e, r)
<1>1. Queued(e, q) => Queued(e, q \o r)
  <2>1. SUFFICES ASSUME NEW n \in DOMAIN q, q[n] = e PROVE Queued(e, q \o r)
    BY DEF Queued
  <2>2. n \in DOMAIN (q \o r) /\ (q \o r)[n] = e
    BY <2>1
  <2> QED
    BY <2>2 DEF Queued
<1>2. Queued(e, r) => Queued(e, q \o r)
  <2>1. SUFFICES ASSUME NEW n \in DOMAIN r, r[n] = e PROVE Queued(e, q \o r)
    BY DEF Queued
  <2>2. Len(q) + n \in DOMAIN (q \o r) /\ (q \o r)[Len(q) + n] = e
    BY <2>1
  <2> QED
    BY <2>2 DEF Queued
<1>3. Queued(e, q \o r) => Queued(e, q) \/ Queued(e, r)
  <2>1. SUFFICES ASSUME NEW n \in DOMAIN (q \o r), (q \o r)[n] = e
                 PROVE  Queued(e, q) \/ Queued(e, r)
    BY DEF Queued
  <2>2. CASE n \in DOMAIN q
    BY <2>1, <2>2 DEF Queued
  <2>3. CASE n \notin DOMAIN q
    <3>1. n - Len(q) \in DOMAIN r /\ r[n - Len(q)] = e
      BY <2>1, <2>3
    <3> QED
      BY <3>1 DEF Queued
  <2> QED
    BY <2>2, <2>3
<1>4. q \o r \in Seq(S)
  OBVIOUS
<1> QED
  BY <1>1, <1>2, <1>3, <1>4

\* SetToSeq lists the elements of a finite set and nothing else.
LEMMA SetToSeqElements ==
  ASSUME NEW S, IsFiniteSet(S), NEW e
  PROVE  /\ SetToSeq(S) \in Seq(S)
         /\ Queued(e, SetToSeq(S)) <=> e \in S
<1> DEFINE n == Cardinality(S)
           f == SetToSeq(S)
<1>1. n \in Nat /\ ExistsBijection(1..n, S)
  BY FS_CardinalityType
<1>2. \E g \in [1..n -> S] : IsInjective(g)
  BY <1>1 DEF ExistsBijection, Bijection, Injection
<1>3. f \in [1..n -> S] /\ IsInjective(f)
  BY <1>2 DEF SetToSeq
<1>4. IsFiniteSet(1..n) /\ Cardinality(1..n) = n
  BY <1>1, FS_Interval
<1>5. f \in Surjection(1..n, S)
  BY <1>3, <1>4, FS_Injection DEF Injection
<1>6. f \in Seq(S)
  BY <1>1, <1>3
<1>7. \A x \in S : \E k \in 1..n : f[k] = x
  BY <1>5 DEF Surjection
<1> QED
  BY <1>3, <1>6, <1>7 DEF Queued

\* What LDK's queue holds after a restart: the persisted events and those the
\* channel monitors make it repeat.
LEMMA RestartQueue ==
  ASSUME Types, NEW e
  PROVE  /\ EventsAfterRestart \in Seq(EventSet)
         /\ Queued(e, EventsAfterRestart) <=> Queued(e, saved.events) \/ e \in Replayed
<1> DEFINE New == {x \in Replayed : ~Queued(x, saved.events)}
<1>1. Replayed \subseteq EventSet
  BY EventShape DEF Replayed
<1>2. IsFiniteSet(EventSet)
  <2>1. IsFiniteSet({"sent", "failed"})
    <3>1. IsFiniteSet({"sent"})
      BY FS_Singleton
    <3>2. {"sent", "failed"} = {"sent"} \cup {"failed"}
      OBVIOUS
    <3> QED
      BY <3>1, <3>2, FS_AddElement
  <2> QED
    BY <2>1, FS_Product, PaymentAssumption DEF EventSet
<1>3. IsFiniteSet(New)
  BY <1>1, <1>2, FS_Subset
<1>4. SetToSeq(New) \in Seq(New) /\ (Queued(e, SetToSeq(New)) <=> e \in New)
  BY <1>3, SetToSeqElements
<1>5. SetToSeq(New) \in Seq(EventSet)
  BY <1>1, <1>4
<1>6. saved.events \in Seq(EventSet)
  BY DEF Types
<1>7. EventsAfterRestart = saved.events \o SetToSeq(New)
  BY DEF EventsAfterRestart
<1> HIDE DEF New
<1>8. /\ EventsAfterRestart \in Seq(EventSet)
      /\ Queued(e, EventsAfterRestart) <=> Queued(e, saved.events) \/ e \in New
  BY <1>4, <1>5, <1>6, <1>7, QueuedConcat
<1> QED
  BY <1>8 DEF New

\* What LDK lists after a restart.
LEMMA RestartLdk ==
  ASSUME Types
  PROVE  /\ LdkAfterRestart \in [Ids -> LdkStates]
         /\ \A i \in Ids :
              LET s == LdkAfterRestart[i] IN
              /\ s = "pending" <=> net[i] = "inflight"
              /\ s = "fulfilled" <=>
                   /\ net[i] = "settled"
                   /\ Queued(Sent(i), EventsAfterRestart) \/ saved.ldk[i] = "fulfilled"
              /\ s = "awaiting" => saved.ldk[i] = "awaiting"
              /\ s # "none" => net[i] # "none" \/ saved.ldk[i] # "none"
BY DEF LdkAfterRestart, LdkStates, Types, TypeOK

-----------------------------------------------------------------------------
(***************************************************************************)
(* The steps.                                                              *)
(***************************************************************************)
\* Every step keeps the types.
LEMMA StepTypes ==
  ASSUME Types, [Next]_vars
  PROVE  Types'
<1> USE DEF Types, TypeOK, Statuses, LdkStates, EventSet, Offering, Pcs, Ids, Idle, None, CliAt, CliGoto,
            node, manager, bounds, Running
<1>0. CASE UNCHANGED vars
  BY <1>0 DEF vars
<1>1. ASSUME NEW i \in Ids, SendPayment(i) PROVE Types'
  BY <1>1 DEF SendPayment, InsertAttempt, MayUse
<1>2. ASSUME NEW i \in Ids, Keysend(i) PROVE Types'
  BY <1>2 DEF Keysend, InsertAttempt, MayUse
<1>3. ASSUME NEW i \in Ids, OfferPrompt(i) PROVE Types'
  BY <1>3 DEF OfferPrompt, MayUse
<1>4. ASSUME NEW i \in Ids, OfferInsert(i) PROVE Types'
  BY <1>4 DEF OfferInsert, MayUse
<1>5. ASSUME NEW i \in Ids, InvoiceArrives(i) PROVE Types'
  BY <1>5 DEF InvoiceArrives
<1>6. ASSUME NEW i \in Ids, InvoiceTimesOut(i) PROVE Types'
  <2>1. events' \in Seq(EventSet) /\ events' # <<>>
    <3>1. events' = Append(events, Failed(i)) /\ Failed(i) \in EventSet
      BY <1>6, EventShape DEF InvoiceTimesOut
    <3> QED
      BY <3>1, QueuedAppend
  <2>2. \A n \in DOMAIN events' : events'[n] \in EventSet
    BY <2>1
  <2> QED
    BY <1>6, <2>1, <2>2 DEF InvoiceTimesOut
<1>7. ASSUME NEW i \in Ids, Settle(i) PROVE Types'
  <2>1. events' \in Seq(EventSet) /\ events' # <<>>
    <3>1. events' = Append(events, Sent(i)) /\ Sent(i) \in EventSet
      BY <1>7, EventShape DEF Settle
    <3> QED
      BY <3>1, QueuedAppend
  <2>2. \A n \in DOMAIN events' : events'[n] \in EventSet
    BY <2>1
  <2> QED
    BY <1>7, <2>1, <2>2 DEF Settle
<1>8. ASSUME NEW i \in Ids, GiveUp(i) PROVE Types'
  <2>1. events' \in Seq(EventSet) /\ events' # <<>>
    <3>1. events' = Append(events, Failed(i)) /\ Failed(i) \in EventSet
      BY <1>8, EventShape DEF GiveUp
    <3> QED
      BY <3>1, QueuedAppend
  <2>2. \A n \in DOMAIN events' : events'[n] \in EventSet
    BY <2>1
  <2> QED
    BY <1>8, <2>1, <2>2 DEF GiveUp
<1>9. ASSUME NEW i \in Ids, ForgetFulfilled(i) PROVE Types'
  BY <1>9 DEF ForgetFulfilled
<1>10. CASE RecordAttempt
  BY <1>10 DEF RecordAttempt
<1>11. CASE SendOk
  BY <1>11 DEF SendOk, Die
<1>12. CASE SendErr
  BY <1>12 DEF SendErr
<1>13. CASE RecordErr
  BY <1>13 DEF RecordErr
<1>14. CASE OfferEncode
  BY <1>14 DEF OfferEncode
<1>15. CASE OfferWrite
  BY <1>15 DEF OfferWrite
<1>16. CASE OfferPay
  <2>1. cli.id \in Offers /\ cli.id \in Ids
    BY <1>16 DEF OfferPay
  <2>2. refused' \subseteq Offers
    BY <1>16, <2>1 DEF OfferPay
  <2>3. ldk' \in [Ids -> LdkStates]
    BY <1>16, <2>1 DEF OfferPay
  <2> QED
    BY <1>16, <2>2, <2>3 DEF OfferPay
<1>17. CASE Stop
  BY <1>17 DEF Stop, Die
<1>18. CASE Quit
  BY <1>18 DEF Quit
<1>19. CASE HandleEvent
  <2>1. Head(events) \in EventSet
    BY <1>19, QueuedTail DEF HandleEvent
  <2>2. Outcome(Head(events)) \in [Ids -> Statuses]
    BY <2>1, EventShape DEF Outcome
  <2> QED
    BY <1>19, <2>2 DEF HandleEvent
<1>20. CASE HandlerWrite
  <2>1. events' \in Seq(EventSet)
    BY <1>20, QueuedTail DEF HandlerWrite
  <2>2. \A n \in DOMAIN events' : events'[n] \in EventSet
    BY <2>1
  <2> QED
    BY <1>20, <2>1, <2>2 DEF HandlerWrite
<1>21. CASE PersistManager
  BY <1>21 DEF PersistManager
<1>22. CASE Load
  <2>1. events' \in Seq(EventSet)
    BY <1>22, RestartQueue DEF Load
  <2>2. \A n \in DOMAIN events' : events'[n] \in EventSet
    BY <2>1
  <2>3. ldk' \in [Ids -> LdkStates]
    BY <1>22, RestartLdk DEF Load
  <2> QED
    BY <1>22, <2>1, <2>2, <2>3 DEF Load
<1>23. CASE Reconcile
  BY <1>23 DEF Reconcile
<1>24. CASE WriteReconciled
  BY <1>24 DEF WriteReconciled
<1>25. CASE Crash
  BY <1>25 DEF Crash, Die
<1> QED
  BY <1>0, <1>1, <1>2, <1>3, <1>4, <1>5, <1>6, <1>7, <1>8, <1>9, <1>10, <1>11, <1>12, <1>13, <1>14, <1>15, <1>16, <1>17, <1>18, <1>19, <1>20, <1>21, <1>22, <1>23, <1>24, <1>25
     DEF Next, CliStep, HandlerStep, Resolve, StartUp

\* No step puts a payment in LDK's hands, or in those of the persisted manager,
\* that the file does not have, and no write takes an entry out of the file.
LEMMA StepRecorded ==
  ASSUME Types, Recorded, [Next]_vars
  PROVE  Recorded'
<1> USE DEF Types, TypeOK, Recorded, RecordedBeforeSent, Statuses, LdkStates, Offering, Pcs, Idle, None,
            CliAt, CliGoto, node, manager, bounds, Running
<1>0. CASE UNCHANGED vars
  BY <1>0 DEF vars
<1>1. ASSUME NEW i \in Ids, SendPayment(i) PROVE Recorded'
  BY <1>1 DEF SendPayment, InsertAttempt, MayUse
<1>2. ASSUME NEW i \in Ids, Keysend(i) PROVE Recorded'
  BY <1>2 DEF Keysend, InsertAttempt, MayUse
<1>3. ASSUME NEW i \in Ids, OfferPrompt(i) PROVE Recorded'
  BY <1>3 DEF OfferPrompt, MayUse
<1>4. ASSUME NEW i \in Ids, OfferInsert(i) PROVE Recorded'
  BY <1>4 DEF OfferInsert, MayUse
<1>5. ASSUME NEW i \in Ids, InvoiceArrives(i) PROVE Recorded'
  BY <1>5 DEF InvoiceArrives
<1>6. ASSUME NEW i \in Ids, InvoiceTimesOut(i) PROVE Recorded'
  BY <1>6 DEF InvoiceTimesOut
<1>7. ASSUME NEW i \in Ids, Settle(i) PROVE Recorded'
  BY <1>7 DEF Settle
<1>8. ASSUME NEW i \in Ids, GiveUp(i) PROVE Recorded'
  BY <1>8 DEF GiveUp
<1>9. ASSUME NEW i \in Ids, ForgetFulfilled(i) PROVE Recorded'
  BY <1>9 DEF ForgetFulfilled
<1>10. CASE RecordAttempt
  BY <1>10 DEF RecordAttempt
<1>11. CASE SendOk
  BY <1>11 DEF SendOk, Die
<1>12. CASE SendErr
  BY <1>12 DEF SendErr
<1>13. CASE RecordErr
  BY <1>13 DEF RecordErr
<1>14. CASE OfferEncode
  BY <1>14 DEF OfferEncode
<1>15. CASE OfferWrite
  BY <1>15 DEF OfferWrite
<1>16. CASE OfferPay
  <2>1. cli.id \in Ids /\ disk[cli.id] # "absent"
    BY <1>16 DEF OfferPay
  <2>2. \A i \in Ids : ldk'[i] # "none" => ldk[i] # "none" \/ i = cli.id
    BY <1>16, <2>1 DEF OfferPay
  <2> QED
    BY <1>16, <2>1, <2>2 DEF OfferPay
<1>17. CASE Stop
  BY <1>17 DEF Stop, Die
<1>18. CASE Quit
  BY <1>18 DEF Quit
<1>19. CASE HandleEvent
  <2>1. Head(events) \in EventSet
    BY <1>19, QueuedTail DEF HandleEvent
  <2>2. \A i \in Ids : mem'[i] = "absent" <=> mem[i] = "absent"
    BY <1>19, <2>1, EventShape DEF HandleEvent, Outcome
  <2> QED
    BY <1>19, <2>2 DEF HandleEvent
<1>20. CASE HandlerWrite
  BY <1>20 DEF HandlerWrite
<1>21. CASE PersistManager
  BY <1>21 DEF PersistManager
<1>22. CASE Load
  <2>1. \A i \in Ids : ldk'[i] # "none" => net[i] # "none" \/ saved.ldk[i] # "none"
    BY <1>22, RestartLdk DEF Load
  <2> QED
    BY <1>22, <2>1 DEF Load
<1>23. CASE Reconcile
  BY <1>23 DEF Reconcile
<1>24. CASE WriteReconciled
  BY <1>24 DEF WriteReconciled
<1>25. CASE Crash
  BY <1>25 DEF Crash, Die
<1> QED
  BY <1>0, <1>1, <1>2, <1>3, <1>4, <1>5, <1>6, <1>7, <1>8, <1>9, <1>10, <1>11, <1>12, <1>13, <1>14, <1>15, <1>16, <1>17, <1>18, <1>19, <1>20, <1>21, <1>22, <1>23, <1>24, <1>25
     DEF Next, CliStep, HandlerStep, Resolve, StartUp

\* A node that pays nothing twice and no offers keeps its account straight.
LEMMA StepOnce ==
  ASSUME PaidOnce, Types, Recorded, Once, [Next]_vars
  PROVE  Once'
<1> USE DEF PaidOnce, Types, TypeOK, Once, FailedMeansUnpaid, Statuses, LdkStates, Offering, Pcs, Idle,
            None, CliAt, CliGoto, node, manager, bounds, Running
<1>0. CASE UNCHANGED vars
  BY <1>0 DEF vars
<1>1. ASSUME NEW i \in Ids, SendPayment(i) PROVE Once'
  BY <1>1 DEF SendPayment, InsertAttempt, MayUse, Recorded, RecordedBeforeSent
<1>2. ASSUME NEW i \in Ids, Keysend(i) PROVE Once'
  BY <1>2 DEF Keysend, InsertAttempt, MayUse, Recorded, RecordedBeforeSent
<1>3. ASSUME NEW i \in Ids, OfferPrompt(i) PROVE Once'
  BY <1>3 DEF OfferPrompt, MayUse, Recorded, RecordedBeforeSent
<1>4. ASSUME NEW i \in Ids, OfferInsert(i) PROVE Once'
  BY <1>4 DEF OfferInsert, MayUse
<1>5. ASSUME NEW i \in Ids, InvoiceArrives(i) PROVE Once'
  BY <1>5 DEF InvoiceArrives
<1>6. ASSUME NEW i \in Ids, InvoiceTimesOut(i) PROVE Once'
  <2>1. /\ \A e : Queued(e, events') <=> Queued(e, events) \/ e = Failed(i)
        /\ events # <<>> => Head(events') = Head(events)
    BY <1>6, EventShape, QueuedAppend DEF InvoiceTimesOut
  <2> QED
    BY <1>6, <2>1, EventShape DEF InvoiceTimesOut
<1>7. ASSUME NEW i \in Ids, Settle(i) PROVE Once'
  <2>1. /\ \A e : Queued(e, events') <=> Queued(e, events) \/ e = Sent(i)
        /\ events # <<>> => Head(events') = Head(events)
    BY <1>7, EventShape, QueuedAppend DEF Settle
  <2> QED
    BY <1>7, <2>1, EventShape DEF Settle
<1>8. ASSUME NEW i \in Ids, GiveUp(i) PROVE Once'
  <2>1. /\ \A e : Queued(e, events') <=> Queued(e, events) \/ e = Failed(i)
        /\ events # <<>> => Head(events') = Head(events)
    BY <1>8, EventShape, QueuedAppend DEF GiveUp
  <2> QED
    BY <1>8, <2>1, EventShape DEF GiveUp
<1>9. ASSUME NEW i \in Ids, ForgetFulfilled(i) PROVE Once'
  BY <1>9 DEF ForgetFulfilled
<1>10. CASE RecordAttempt
  BY <1>10 DEF RecordAttempt
<1>11. CASE SendOk
  BY <1>11 DEF SendOk, Die
<1>12. CASE SendErr
  BY <1>12 DEF SendErr, Recorded, RecordedBeforeSent
<1>13. CASE RecordErr
  BY <1>13 DEF RecordErr
<1>14. CASE OfferEncode
  BY <1>14 DEF OfferEncode
<1>15. CASE OfferWrite
  BY <1>15 DEF OfferWrite
<1>16. CASE OfferPay
  BY <1>16 DEF OfferPay
<1>17. CASE Stop
  BY <1>17 DEF Stop, Die
<1>18. CASE Quit
  BY <1>18 DEF Quit
<1>19. CASE HandleEvent
  <2> DEFINE h == Head(events)
  <2>1. h \in EventSet /\ Queued(h, events)
    BY <1>19, QueuedTail DEF HandleEvent
  <2>2. PICK i \in Ids : /\ h[2] = i
                         /\ \/ h = Sent(i) /\ h[1] = "sent"
                            \/ h = Failed(i) /\ h[1] = "failed"
    BY <2>1, EventShape DEF EventSet
  <2>3. mem[i] # "absent"
    BY <2>1, <2>2 DEF Recorded, RecordedBeforeSent
  <2>4. mem' = [mem EXCEPT ![i] = IF h[1] = "sent" THEN "Succeeded" ELSE "Failed"]
    BY <1>19, <2>2, <2>3 DEF HandleEvent, Outcome
  <2>5. Head(events') = h
    BY <1>19 DEF HandleEvent
  <2> HIDE DEF h
  <2>6. CASE h = Sent(i) /\ h[1] = "sent"
    <3>1. net[i] = "settled"
      BY <2>1, <2>6
    <3> QED
      BY <1>19, <2>2, <2>4, <2>5, <2>6, <3>1 DEF HandleEvent
  <2>7. CASE h = Failed(i) /\ h[1] = "failed"
    <3>1. net[i] = "failed"
      BY <2>1, <2>7
    <3> QED
      BY <1>19, <2>4, <2>5, <2>7, <3>1 DEF HandleEvent
  <2> QED
    BY <2>2, <2>6, <2>7
<1>20. CASE HandlerWrite
  <2> DEFINE h == Head(events)
  <2>1. h \in EventSet /\ \A e : Queued(e, events) <=> Queued(e, events') \/ e = h
    BY <1>20, QueuedTail DEF HandlerWrite
  <2>2. \A i \in Ids : h = Sent(i) => mem[i] = "Succeeded"
    BY <1>20, EventShape DEF HandlerWrite
  <2> HIDE DEF h
  <2> QED
    BY <1>20, <2>1, <2>2 DEF HandlerWrite
<1>21. CASE PersistManager
  BY <1>21 DEF PersistManager
<1>22. CASE Load
  <2>1. \A e : Queued(e, events') <=> Queued(e, saved.events) \/ e \in Replayed
    BY <1>22, RestartQueue DEF Load
  <2>2. \A i \in Ids :
          /\ Sent(i) \in Replayed => net[i] = "settled"
          /\ Failed(i) \in Replayed => net[i] = "failed"
          /\ net[i] = "settled" /\ Queued(Sent(i), events) => Sent(i) \in Replayed
    BY EventShape DEF Replayed
  <2>3. \A i \in Ids : /\ net[i] = "inflight" => ldk'[i] = "pending"
                       /\ net[i] = "settled" /\ Queued(Sent(i), events') => ldk'[i] = "fulfilled"
                       /\ ldk'[i] = "awaiting" => saved.ldk[i] = "awaiting"
    BY <1>22, RestartLdk DEF Load
  <2> QED
    BY <1>22, <2>1, <2>2, <2>3 DEF Load
<1>23. CASE Reconcile
  BY <1>23 DEF Reconcile
<1>24. CASE WriteReconciled
  BY <1>24 DEF WriteReconciled
<1>25. CASE Crash
  BY <1>25 DEF Crash, Die
<1> QED
  BY <1>0, <1>1, <1>2, <1>3, <1>4, <1>5, <1>6, <1>7, <1>8, <1>9, <1>10, <1>11, <1>12, <1>13, <1>14, <1>15, <1>16, <1>17, <1>18, <1>19, <1>20, <1>21, <1>22, <1>23, <1>24, <1>25
     DEF Next, CliStep, HandlerStep, Resolve, StartUp

\* No step takes away the last thing a Pending entry waits for.
LEMMA StepBacked ==
  ASSUME Types, PaidOnce => Once, Backed, [Next]_vars
  PROVE  Backed'
<1> USE DEF Types, TypeOK, Backed, Owed, Statuses, LdkStates, Offering, Pcs, Idle, None,
            CliAt, CliGoto, node, manager, bounds, Running
<1>0. CASE UNCHANGED vars
  BY <1>0 DEF vars
<1>1. ASSUME NEW i \in Ids, SendPayment(i) PROVE Backed'
  BY <1>1 DEF SendPayment, InsertAttempt, MayUse
<1>2. ASSUME NEW i \in Ids, Keysend(i) PROVE Backed'
  BY <1>2 DEF Keysend, InsertAttempt, MayUse
<1>3. ASSUME NEW i \in Ids, OfferPrompt(i) PROVE Backed'
  BY <1>3 DEF OfferPrompt, MayUse
<1>4. ASSUME NEW i \in Ids, OfferInsert(i) PROVE Backed'
  BY <1>4 DEF OfferInsert, MayUse
<1>5. ASSUME NEW i \in Ids, InvoiceArrives(i) PROVE Backed'
  BY <1>5 DEF InvoiceArrives
<1>6. ASSUME NEW i \in Ids, InvoiceTimesOut(i) PROVE Backed'
  <2>1. /\ \A e : Queued(e, events') <=> Queued(e, events) \/ e = Failed(i)
        /\ events # <<>> => Head(events') = Head(events)
    BY <1>6, EventShape, QueuedAppend DEF InvoiceTimesOut
  <2> QED
    BY <1>6, <2>1, EventShape DEF InvoiceTimesOut
<1>7. ASSUME NEW i \in Ids, Settle(i) PROVE Backed'
  <2>1. /\ \A e : Queued(e, events') <=> Queued(e, events) \/ e = Sent(i)
        /\ events # <<>> => Head(events') = Head(events)
    BY <1>7, EventShape, QueuedAppend DEF Settle
  <2> QED
    BY <1>7, <2>1, EventShape DEF Settle
<1>8. ASSUME NEW i \in Ids, GiveUp(i) PROVE Backed'
  <2>1. /\ \A e : Queued(e, events') <=> Queued(e, events) \/ e = Failed(i)
        /\ events # <<>> => Head(events') = Head(events)
    BY <1>8, EventShape, QueuedAppend DEF GiveUp
  <2> QED
    BY <1>8, <2>1, EventShape DEF GiveUp
<1>9. ASSUME NEW i \in Ids, ForgetFulfilled(i) PROVE Backed'
  <2>1. net[i] = "settled" /\ (PaidOnce => mem[i] = "Succeeded")
    BY <1>9 DEF ForgetFulfilled, Once
  <2> QED
    BY <1>9, <2>1 DEF ForgetFulfilled
<1>10. CASE RecordAttempt
  BY <1>10 DEF RecordAttempt
<1>11. CASE SendOk
  BY <1>11 DEF SendOk, Die
<1>12. CASE SendErr
  BY <1>12 DEF SendErr
<1>13. CASE RecordErr
  BY <1>13 DEF RecordErr
<1>14. CASE OfferEncode
  BY <1>14 DEF OfferEncode
<1>15. CASE OfferWrite
  BY <1>15 DEF OfferWrite
<1>16. CASE OfferPay
  BY <1>16 DEF OfferPay
<1>17. CASE Stop
  BY <1>17 DEF Stop, Die
<1>18. CASE Quit
  BY <1>18 DEF Quit
<1>19. CASE HandleEvent
  <2> DEFINE h == Head(events)
  <2>1. h \in EventSet
    BY <1>19, QueuedTail DEF HandleEvent
  <2>2. h[2] \in Ids
    BY <2>1, EventShape
  <2>3. mem'[h[2]] # "Pending" /\ \A i \in Ids : i # h[2] => mem'[i] = mem[i]
    BY <1>19, <2>2 DEF HandleEvent, Outcome
  <2> HIDE DEF h
  <2> QED
    BY <1>19, <2>2, <2>3 DEF HandleEvent, h
<1>20. CASE HandlerWrite
  <2> DEFINE h == Head(events)
  <2>1. h \in EventSet /\ \A e : Queued(e, events) <=> Queued(e, events') \/ e = h
    BY <1>20, QueuedTail DEF HandlerWrite
  <2>2. \A i \in Ids : h = Sent(i) \/ h = Failed(i) => mem[i] # "Pending"
    BY <1>20, EventShape DEF HandlerWrite
  <2> HIDE DEF h
  <2> QED
    BY <1>20, <2>1, <2>2 DEF HandlerWrite
<1>21. CASE PersistManager
  BY <1>21 DEF PersistManager
<1>22. CASE Load
  <2>1. \A i \in Ids : ldk'[i] = "fulfilled" => net[i] = "settled"
    BY <1>22, RestartLdk DEF Load
  <2> QED
    BY <1>22, <2>1 DEF Load
<1>23. CASE Reconcile
  BY <1>23 DEF Reconcile
<1>24. CASE WriteReconciled
  BY <1>24 DEF WriteReconciled
<1>25. CASE Crash
  BY <1>25 DEF Crash, Die
<1> QED
  BY <1>0, <1>1, <1>2, <1>3, <1>4, <1>5, <1>6, <1>7, <1>8, <1>9, <1>10, <1>11, <1>12, <1>13, <1>14, <1>15, <1>16, <1>17, <1>18, <1>19, <1>20, <1>21, <1>22, <1>23, <1>24, <1>25
     DEF Next, CliStep, HandlerStep, Resolve, StartUp

\* The node starts with nothing on record and nothing in LDK.
LEMMA InitInv ==
  Init => Inv
<1> SUFFICES ASSUME Init PROVE Inv
  OBVIOUS
<1>1. \A e : ~Queued(e, events) /\ ~Queued(e, saved.events)
  BY DEF Init, Queued
<1>2. Types
  BY DEF Init, Types, TypeOK, Statuses, LdkStates, EventSet, Pcs, Offering, Idle, None
<1>3. Recorded
  BY DEF Init, Recorded, RecordedBeforeSent, Offering, Idle, None
<1>4. Once
  BY <1>1 DEF Init, Once, FailedMeansUnpaid, Offering, Idle, None
<1>5. Backed
  BY DEF Init, Backed, Idle, None
<1> QED
  BY <1>2, <1>3, <1>4, <1>5 DEF Inv

\* The inductive invariant.
LEMMA InvHolds ==
  Spec => []Inv
<1>1. Inv /\ [Next]_vars => Inv'
  <2>1. PaidOnce' = PaidOnce
    BY DEF PaidOnce
  <2> QED
    BY <2>1, StepTypes, StepRecorded, StepOnce, StepBacked DEF Inv
<1> QED
  BY <1>1, InitInv, PTL DEF Spec

-----------------------------------------------------------------------------
\* Types hold throughout, and the Mutex of outbound_payments is held exactly
\* inside send_payment, keysend and the event handler.
THEOREM TypeCorrect ==
  Spec => []TypeOK
<1>1. Inv => TypeOK
  BY DEF Inv, Types
<1> QED
  BY <1>1, InvHolds, PTL

\* cli.rs's "Before we send the payment, let's store it": whatever LDK holds is
\* in the file, through every crash, for invoices, keysends and offers alike.
THEOREM StoredBeforeSent ==
  Spec => []RecordedBeforeSent
<1>1. Inv => RecordedBeforeSent
  BY DEF Inv, Recorded
<1> QED
  BY <1>1, InvHolds, PTL

\* Start-up's reconciliation leaves no Pending entry that nothing will resolve,
\* but for the two cases PendingIsLive names, and no later step makes one.
THEOREM NothingForgotten ==
  Spec => []PendingIsLive
<1>1. Inv => PendingIsLive
  BY DEF Inv, Types, TypeOK, Backed, Owed, PendingIsLive, Offering
<1> QED
  BY <1>1, InvHolds, PTL

\* A node that pays no invoice twice and no offer never has a payment on record
\* as Failed that was made or is still in flight.
THEOREM FailureIsTrue ==
  ASSUME PaidOnce
  PROVE  Spec => []FailedMeansUnpaid
<1>1. Inv => FailedMeansUnpaid
  BY PaidOnce DEF Inv, Once
<1> QED
  BY <1>1, InvHolds, PTL

\* The file is written from the map, or by the offer path from its copy.
LEMMA Writes ==
  ASSUME [Next]_vars
  PROVE  disk' = disk \/ disk' = mem \/ OfferWrite
BY DEF Next, CliStep, HandlerStep, Resolve, StartUp, vars, node, manager, bounds,
       SendPayment, Keysend, InsertAttempt, OfferPrompt, OfferInsert,
       InvoiceArrives, InvoiceTimesOut, Settle, GiveUp, ForgetFulfilled,
       RecordAttempt, SendOk, SendErr, RecordErr, OfferEncode, OfferPay, Stop, Quit,
       HandleEvent, HandlerWrite, PersistManager, Load, Reconcile, WriteReconciled, Crash

\* For such a node, a success in the file is never undone.
THEOREM SuccessIsFinal ==
  ASSUME PaidOnce
  PROVE  Spec => SuccessStays
<1>1. ASSUME Inv, [Next]_vars
      PROVE  \A i \in Ids : disk[i] = "Succeeded" => disk'[i] = "Succeeded"
  <2>1. ~OfferWrite
    BY <1>1, PaidOnce DEF Inv, Once, OfferWrite, CliAt, Offering
  <2> QED
    BY <1>1, <2>1, PaidOnce, Writes DEF Inv, Once
<1> QED
  BY <1>1, InvHolds, PTL DEF Spec, SuccessStays
=============================================================================
