--------------------------- MODULE InboundPayments ---------------------------
(***************************************************************************)
(* The node's own record of the payments it receives: inbound_payments, a  *)
(* map behind a Mutex, and its copy on disk.  getinvoice (cli.rs) inserts  *)
(* Pending entries; the event handler (main.rs) claims what arrives and    *)
(* records it; at start-up the file is read back and, unlike the outbound  *)
(* one, neither reconciled nor written.                                    *)
(*                                                                         *)
(* External: LDK's ChannelManager and channel monitors, and the payers.  A *)
(* write of the file is one step: all writers hold the Mutex, so the two   *)
(* FilesystemStore values never write this file at the same time.          *)
(***************************************************************************)
EXTENDS Naturals, Sequences, FiniteSets, SequencesExt

CONSTANTS
    Invoices,      \* payment hashes of the invoices the node makes
    Keysends,      \* payment hashes of spontaneous payments
    MaxCrashes     \* bound: crashes

Hashes == Invoices \cup Keysends

\* A payment hash is 32 bytes: there are finitely many.
ASSUME InboundAssumption ==
    Invoices \cap Keysends = {} /\ IsFiniteSet(Hashes) /\ MaxCrashes \in Nat

VARIABLES
    up,        \* whether the node runs (and has read its file)
    mem,       \* inbound_payments: [Hashes -> status], "absent" if not in the map
    disk,      \* the file inbound_payments
    mutex,     \* who holds inbound_payments' Mutex
    making,    \* the invoice getinvoice has made and not written yet
    answered,  \* invoices whose getinvoice has returned to the prompt
    issued,    \* invoices that were printed: a payer may have them
    htlc,      \* fate of a hash's HTLC (channels and monitors)
    waking,    \* whether a task sleeps before it processes what has arrived
    events,    \* ChannelManager: pending events
    saved,     \* the events of the persisted ChannelManager
    crashes

node == <<up, mem, disk, mutex, making, answered, waking>>
manager == <<issued, htlc, events, saved>>
vars == <<node, manager, crashes>>

Forwardable == <<"forwardable", "all">>
Claimable(h) == <<"claimable", h>>
Claimed(h) == <<"claimed", h>>
Queued(e, q) == \E n \in DOMAIN q : q[n] = e

Init ==
    /\ up = TRUE
    /\ mem = [h \in Hashes |-> "absent"] /\ disk = mem
    /\ mutex = "free" /\ making = "none" /\ answered = {} /\ issued = {}
    /\ waking = FALSE
    /\ htlc = [h \in Hashes |-> "none"]
    /\ events = <<>> /\ saved = <<>> /\ crashes = 0

-----------------------------------------------------------------------------
(***************************************************************************)
(* getinvoice holds the Mutex from before the invoice is made until the    *)
(* file is written.                                                        *)
(***************************************************************************)
\* The invoice is made and printed and its entry inserted.  Its hash is new.
GetInvoice(h) ==
    /\ up /\ mutex = "free" /\ h \in Invoices \ issued
    /\ mutex' = "cli" /\ making' = h
    /\ issued' = issued \cup {h}
    /\ mem' = [mem EXCEPT ![h] = "Pending"]
    /\ UNCHANGED <<up, disk, answered, waking, htlc, events, saved, crashes>>

\* The invoice cannot be made: the unchanged map is written all the same.
GetInvoiceFails ==
    /\ up /\ mutex = "free"
    /\ disk' = mem
    /\ UNCHANGED <<up, mem, mutex, making, answered, waking, manager, crashes>>

\* Mutant: the write is left to the event handler.
WriteInvoiceSkipped ==
    /\ up /\ mutex = "cli"
    /\ mutex' = "free" /\ making' = "none" /\ answered' = answered \cup {making}
    /\ UNCHANGED <<up, mem, disk, waking, manager, crashes>>

WriteInvoice ==
    /\ up /\ mutex = "cli"
    /\ disk' = mem
    /\ mutex' = "free" /\ making' = "none" /\ answered' = answered \cup {making}
    /\ UNCHANGED <<up, mem, waking, manager, crashes>>

-----------------------------------------------------------------------------
(***************************************************************************)
(* The event handler, called for one event at a time.                      *)
(***************************************************************************)
\* PendingHTLCsForwardable: a task is spawned that sleeps ...  (Of two that
\* sleep at the same time, the first does the work of both.)
HandleForwardable ==
    /\ up /\ mutex # "handler" /\ events # <<>> /\ Head(events) = Forwardable
    /\ waking' = TRUE /\ events' = Tail(events)
    /\ UNCHANGED <<up, mem, disk, mutex, making, answered, issued, htlc, saved, crashes>>

\* ... and calls process_pending_htlc_forwards: what has arrived for this node
\* becomes claimable.
Arrived == {h \in Hashes : htlc[h] = "arrived"}
ProcessForwards ==
    /\ up /\ waking /\ waking' = FALSE
    /\ htlc' = [h \in Hashes |-> IF h \in Arrived THEN "held" ELSE htlc[h]]
    /\ events' = events \o SetToSeq({Claimable(h) : h \in Arrived})
    /\ UNCHANGED <<up, mem, disk, mutex, making, answered, issued, saved, crashes>>

\* Mutants: PaymentClaimable records the payment, as received or as pending.
ClaimableRecords(status) ==
    /\ up /\ mutex = "free" /\ events # <<>> /\ Head(events)[1] = "claimable"
    /\ LET h == Head(events)[2] IN
       /\ mem' = [mem EXCEPT ![h] = status]
       /\ htlc' = [htlc EXCEPT ![h] = IF @ = "held" THEN "claimed" ELSE @]
       /\ events' = IF htlc[h] = "held" THEN Append(Tail(events), Claimed(h)) ELSE Tail(events)
    /\ UNCHANGED <<up, disk, mutex, making, answered, waking, issued, saved, crashes>>
ClaimableRecordsReceived == ClaimableRecords("Succeeded")
ClaimableRecordsPending == ClaimableRecords("Pending")

\* PaymentClaimable: claim_funds.  The preimage is in the channel monitor
\* when it returns, unless the HTLC is gone or was claimed before.
HandleClaimable ==
    /\ up /\ mutex # "handler" /\ events # <<>> /\ Head(events)[1] = "claimable"
    /\ LET h == Head(events)[2] IN
       \/ /\ htlc[h] = "held"
          /\ htlc' = [htlc EXCEPT ![h] = "claimed"]
          /\ events' = Append(Tail(events), Claimed(h))
       \/ htlc[h] # "held" /\ events' = Tail(events) /\ UNCHANGED htlc
    /\ UNCHANGED <<node, issued, saved, crashes>>

\* Mutant: without an entry PaymentClaimed records nothing.
RecordClaimedOccupied(h) == [mem EXCEPT ![h] = IF @ = "absent" THEN @ ELSE "Succeeded"]

\* PaymentClaimed updates the hash's entry or inserts one.
RecordClaimed(h) == [mem EXCEPT ![h] = "Succeeded"]

HandleClaimed ==
    /\ up /\ mutex = "free" /\ events # <<>> /\ Head(events)[1] = "claimed"
    /\ mutex' = "handler"
    /\ mem' = RecordClaimed(Head(events)[2])
    /\ UNCHANGED <<up, disk, making, answered, waking, manager, crashes>>

WriteClaimed ==
    /\ up /\ mutex = "handler"
    /\ disk' = mem
    /\ mutex' = "free" /\ events' = Tail(events)
    /\ UNCHANGED <<up, mem, making, answered, waking, issued, htlc, saved, crashes>>

-----------------------------------------------------------------------------
(***************************************************************************)
(* External: payers, ChannelManager, background processor.                 *)
(***************************************************************************)
\* An HTLC arrives; the first of a batch is announced.
Receive(h) ==
    /\ up /\ htlc[h] = "none" /\ h \in issued \cup Keysends
    /\ htlc' = [htlc EXCEPT ![h] = "arrived"]
    /\ events' = IF Arrived = {} /\ ~Queued(Forwardable, events)
                 THEN Append(events, Forwardable) ELSE events
    /\ UNCHANGED <<node, issued, saved, crashes>>

\* The HTLC is failed back when it nears its expiry.
Expire(h) ==
    /\ htlc[h] \in {"arrived", "held"}
    /\ htlc' = [htlc EXCEPT ![h] = "failed"]
    /\ UNCHANGED <<node, issued, events, saved, crashes>>

\* The manager is persisted between events.
PersistManager ==
    /\ up /\ mutex # "handler" /\ saved # events
    /\ saved' = events
    /\ UNCHANGED <<node, issued, htlc, events, crashes>>

\* After a restart the persisted events come again.  What has arrived is
\* announced and an HTLC still held is offered again; for a preimage in a
\* monitor whose PaymentClaimed was not handled and is not in the persisted
\* manager, the event is made again.
Replayed ==
    {e \in {Forwardable} : Arrived # {}} \cup
    {Claimable(h) : h \in {g \in Hashes : htlc[g] = "held"}}
    \cup {Claimed(h) : h \in {g \in Hashes : htlc[g] = "claimed" /\ Queued(Claimed(g), events)}}

EventsAfterRestart == saved \o SetToSeq({e \in Replayed : ~Queued(e, saved)})

Crash ==
    /\ up /\ crashes < MaxCrashes
    /\ crashes' = crashes + 1
    /\ up' = FALSE /\ mutex' = "free" /\ making' = "none" /\ waking' = FALSE
    /\ UNCHANGED <<mem, disk, answered, manager>>

\* read_inbound_payment_info.
Start ==
    /\ ~up
    /\ up' = TRUE /\ mem' = disk /\ events' = EventsAfterRestart
    /\ UNCHANGED <<disk, mutex, making, answered, waking, issued, htlc, saved, crashes>>

HandlerStep == HandleForwardable \/ HandleClaimable \/ HandleClaimed \/ WriteClaimed

Next ==
    \/ \E h \in Hashes : GetInvoice(h) \/ Receive(h) \/ Expire(h)
    \/ GetInvoiceFails \/ WriteInvoice \/ HandlerStep \/ ProcessForwards \/ PersistManager \/ Crash \/ Start

Spec == Init /\ [][Next]_vars

\* The command thread, the background processor and the tasks are scheduled, the
\* Mutex is handed on to the handler, and the operator restarts the node.
LiveSpec ==
    /\ Spec /\ WF_vars(WriteInvoice) /\ SF_vars(HandlerStep)
    /\ WF_vars(ProcessForwards) /\ WF_vars(Start)

-----------------------------------------------------------------------------
Statuses == {"absent", "Pending", "Succeeded"}

\* Types; getinvoice holds the Mutex exactly while it has an invoice to write.
TypeOK ==
    /\ up \in BOOLEAN
    /\ mem \in [Hashes -> Statuses] /\ disk \in [Hashes -> Statuses]
    /\ mutex \in {"free", "cli", "handler"}
    /\ IF mutex = "cli" THEN making \in issued ELSE making = "none"
    /\ answered \subseteq issued /\ issued \subseteq Invoices
    /\ htlc \in [Hashes -> {"none", "arrived", "held", "claimed", "failed"}]
    /\ waking \in BOOLEAN
    /\ \A q \in {events, saved} : \A n \in DOMAIN q :
          q[n] \in {"claimable", "claimed"} \X Hashes \cup {Forwardable}

\* An invoice that getinvoice answered with is in the file for ever: neither
\* the handler's writes nor a crash undo the entry.
AnsweredInvoicesKept == \A h \in answered : disk[h] # "absent"

\* What is on record as received was claimed, and what the file says was
\* received it says for good, however often events are replayed.
SucceededMeansClaimed ==
    \A h \in Hashes : mem[h] = "Succeeded" \/ disk[h] = "Succeeded" => htlc[h] = "claimed"
ReceivedStays == [][\A h \in Hashes : disk[h] = "Succeeded" => disk'[h] = "Succeeded"]_vars

\* Every payment that arrives is failed back at its expiry or ends on record as
\* received, whatever dies: the task that was to process it, the handler, or
\* the entry of its invoice; also a spontaneous one.
ReceivedIsRecorded ==
    \A h \in Hashes : htlc[h] # "none" ~> htlc[h] = "failed" \/ [](disk[h] = "Succeeded")
==============================================================================
