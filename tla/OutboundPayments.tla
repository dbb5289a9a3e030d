-------------------------- MODULE OutboundPayments --------------------------
(***************************************************************************)
(* The node's own record of the payments it sends: outbound_payments, a    *)
(* map behind a Mutex, and its copy on disk.  The command loop (cli.rs)    *)
(* inserts attempts and the LDK event handler (main.rs) records outcomes;  *)
(* at start-up main.rs reads the file back and reconciles it with LDK.     *)
(*                                                                         *)
(* External: LDK's ChannelManager, which sends, reports outcomes as events *)
(* and is persisted by the background processor, and the network.  A write *)
(* of the file is one step here: FilesystemStore implements KVStore.       *)
(***************************************************************************)
EXTENDS Naturals, Sequences, FiniteSets, SequencesExt

CONSTANTS
    Invoices,           \* payment ids of BOLT11 invoices (their hashes)
    ZeroAmount,         \* those of them that state no amount
    Keysends, Offers,   \* fresh random payment ids
    Unpriced,           \* those offers the user pays without giving the amount
    Resend,             \* whether the user may pay an invoice again
    MaxSends,           \* bound: payment commands
    MaxCrashes          \* bound: crashes and stops

Ids == Invoices \cup Keysends \cup Offers

\* A payment id is 32 bytes: there are finitely many.
ASSUME PaymentAssumption ==
    /\ ZeroAmount \subseteq Invoices /\ Unpriced \subseteq Offers
    /\ IsFiniteSet(Ids)
    /\ Resend \in BOOLEAN
    /\ MaxSends \in Nat /\ MaxCrashes \in Nat

VARIABLES
    phase,    \* "down", "loaded", "reconciled", "up": progress of main.rs
    mem,      \* outbound_payments: [Ids -> status], "absent" if not in the map
    disk,     \* the file outbound_payments
    mutex,    \* who holds outbound_payments' Mutex
    cli,      \* the command loop: [pc, id]
    snap,     \* the bytes an offer payment has encoded and not yet written
    refused,  \* offers for which pay_for_offer failed since the node started
    handler,  \* the event handler: "idle" or "write"
    ldk,      \* ChannelManager: [Ids -> state of the payment]
    events,   \* ChannelManager: pending events
    saved,    \* the persisted ChannelManager: [ldk, events]
    net,      \* fate of the HTLCs of an id's last attempt (channel monitors)
    sends, crashes

node == <<phase, mem, disk, mutex, cli, snap, refused, handler>>
manager == <<ldk, events, saved, net>>
bounds == <<sends, crashes>>
vars == <<node, manager, bounds>>

None(x) == [i \in Ids |-> x]
Idle == [pc |-> "idle", id |-> "none"]
Sent(i) == <<"sent", i>>
Failed(i) == <<"failed", i>>
Queued(e, q) == \E n \in DOMAIN q : q[n] = e

Init ==
    /\ phase = "up"
    /\ mem = None("absent") /\ disk = None("absent")
    /\ mutex = "free" /\ cli = Idle /\ snap = None("absent") /\ refused = {} /\ handler = "idle"
    /\ ldk = None("none") /\ events = <<>> /\ saved = [ldk |-> ldk, events |-> <<>>]
    /\ net = None("none")
    /\ sends = 0 /\ crashes = 0

-----------------------------------------------------------------------------
(***************************************************************************)
(* The command loop.  sendpayment on an invoice and keysend hold the Mutex *)
(* from before the insert until they return.                               *)
(***************************************************************************)
CliAt(pc) == phase = "up" /\ cli.pc = pc
CliGoto(pc) == cli' = [cli EXCEPT !.pc = pc]

\* An id of the user's choosing: an invoice, possibly one paid before, or a
\* keysend or offer id drawn at random.
MayUse(i) == (mem[i] = "absent" /\ net[i] = "none") \/ (Resend /\ i \in Invoices)

\* Lock, insert a Pending entry (replacing any).
InsertAttempt(i) ==
    /\ CliAt("idle") /\ mutex = "free" /\ MayUse(i)
    /\ sends < MaxSends /\ sends' = sends + 1
    /\ mutex' = "cli"
    /\ mem' = [mem EXCEPT ![i] = "Pending"]
    /\ cli' = [pc |-> "record", id |-> i]
    /\ UNCHANGED <<phase, disk, snap, refused, handler, manager, crashes>>

\* send_payment, once the amounts agree; otherwise it returns unchanged.
SendPayment(i) == i \in Invoices /\ InsertAttempt(i)

\* keysend; from here on both take the same steps.
Keysend(i) == i \in Keysends /\ InsertAttempt(i)

\* Mutant: the attempt is written only when it has failed.
RecordAttemptSkipped ==
    /\ CliAt("record")
    /\ CliGoto("send")
    /\ UNCHANGED <<phase, mem, disk, mutex, snap, refused, handler, manager, bounds>>

\* fs_store.write of the attempt.
RecordAttempt ==
    /\ CliAt("record")
    /\ disk' = mem
    /\ CliGoto("send")
    /\ UNCHANGED <<phase, mem, mutex, snap, refused, handler, manager, bounds>>

\* The process dies at any point: panic = "abort", a kill or a power loss.
Die ==
    /\ phase' = "down" /\ mutex' = "free" /\ cli' = Idle /\ handler' = "idle"
    /\ snap' = None("absent") /\ refused' = {}

\* ChannelManager::send_payment accepts a payment whose id it does not hold.
\* send_payment then prints the invoice's amount, which it unwraps.
SendOk ==
    /\ CliAt("send") /\ ldk[cli.id] = "none"
    /\ ldk' = [ldk EXCEPT ![cli.id] = "pending"]
    /\ net' = [net EXCEPT ![cli.id] = "inflight"]
    /\ \/ /\ cli.id \notin ZeroAmount
          /\ cli' = Idle /\ mutex' = "free"
          /\ UNCHANGED <<phase, snap, refused, handler>>
       \/ cli.id \in ZeroAmount /\ Die
    /\ UNCHANGED <<mem, disk, events, saved, sends, crashes>>

\* It refuses: no route, or DuplicatePayment.  The entry becomes Failed ...
SendErr ==
    /\ CliAt("send")
    /\ mem' = [mem EXCEPT ![cli.id] = "Failed"]
    /\ CliGoto("recordErr")
    /\ UNCHANGED <<phase, disk, mutex, snap, refused, handler, manager, bounds>>

\* Mutant: the guard is kept after the failure was written.
RecordErrKeepsLock ==
    /\ CliAt("recordErr")
    /\ disk' = mem
    /\ cli' = Idle
    /\ UNCHANGED <<phase, mem, mutex, snap, refused, handler, manager, bounds>>

\* ... and is written.
RecordErr ==
    /\ CliAt("recordErr")
    /\ disk' = mem
    /\ cli' = Idle /\ mutex' = "free"
    /\ UNCHANGED <<phase, mem, snap, refused, handler, manager, bounds>>

\* Mutant: the question is asked with the map locked.
OfferPromptLocks(i) ==
    /\ CliAt("idle") /\ mutex = "free" /\ i \in Unpriced /\ MayUse(i)
    /\ sends < MaxSends /\ sends' = sends + 1
    /\ cli' = [pc |-> "confirm", id |-> i] /\ mutex' = "cli"
    /\ UNCHANGED <<phase, mem, disk, snap, refused, handler, manager, crashes>>

\* An offer without an amount typed for it: the user is asked.  The answer is
\* appended to the line that holds the command, and it is the beginning of that
\* line that is compared with Y and N and the whole of it with the empty line of
\* an end of input: no answer ends the loop, only a read error does (Quit).
OfferPrompt(i) ==
    /\ CliAt("idle") /\ i \in Unpriced /\ MayUse(i)
    /\ sends < MaxSends /\ sends' = sends + 1
    /\ cli' = [pc |-> "confirm", id |-> i]
    /\ UNCHANGED <<phase, mem, disk, mutex, snap, refused, handler, manager, crashes>>

\* Paying an offer locks twice, for the insert and for encode(), and writes
\* what it encoded without the lock.
OfferInsert(i) ==
    /\ CliAt("idle") /\ mutex = "free"
    /\ i \in Offers \ Unpriced /\ MayUse(i)
    /\ sends < MaxSends /\ sends' = sends + 1
    /\ mem' = [mem EXCEPT ![i] = "Pending"]
    /\ cli' = [pc |-> "offerEncode", id |-> i]
    /\ UNCHANGED <<phase, disk, mutex, snap, refused, handler, manager, crashes>>

OfferEncode ==
    /\ CliAt("offerEncode") /\ mutex = "free"
    /\ snap' = mem
    /\ CliGoto("offerWrite")
    /\ UNCHANGED <<phase, mem, disk, mutex, refused, handler, manager, bounds>>

OfferWrite ==
    /\ CliAt("offerWrite")
    /\ disk' = snap /\ snap' = None("absent")
    /\ CliGoto("offerPay")
    /\ UNCHANGED <<phase, mem, mutex, refused, handler, manager, bounds>>

\* pay_for_offer: an invoice is requested, or an error is printed.
OfferPay ==
    /\ CliAt("offerPay")
    /\ \/ ldk' = [ldk EXCEPT ![cli.id] = "awaiting"] /\ UNCHANGED refused
       \/ refused' = refused \cup {cli.id} /\ UNCHANGED ldk
    /\ cli' = Idle
    /\ UNCHANGED <<phase, mem, disk, mutex, snap, handler, events, saved, net, bounds>>

\* quit, exit or end of input at the prompt of the loop, or a read error at
\* either prompt.
Quit ==
    /\ CliAt("idle") \/ CliAt("confirm")
    /\ crashes < MaxCrashes /\ crashes' = crashes + 1
    /\ cli' = [pc |-> "exited", id |-> "none"]
    /\ UNCHANGED <<phase, mem, disk, mutex, snap, refused, handler, manager, sends>>

\* The end of start_ldk: the background processor finishes the event it is at,
\* persists the manager once more, and the process ends.
Stop ==
    /\ CliAt("exited") /\ handler = "idle"
    /\ saved' = [ldk |-> ldk, events |-> events]
    /\ Die
    /\ UNCHANGED <<mem, disk, ldk, events, net, bounds>>

-----------------------------------------------------------------------------
(***************************************************************************)
(* The event handler, called for one event at a time by the background     *)
(* processor.  LDK drops the event when the handler has returned.          *)
(***************************************************************************)
\* Mutant: PaymentFailed leaves the status alone.
OutcomeSentOnly(e) ==
    [mem EXCEPT ![e[2]] = IF @ # "absent" /\ e[1] = "sent" THEN "Succeeded" ELSE @]

\* What PaymentSent and PaymentFailed make of the map.
Outcome(e) ==
    [mem EXCEPT ![e[2]] = IF @ = "absent" THEN @
                          ELSE IF e[1] = "sent" THEN "Succeeded" ELSE "Failed"]

HandleEvent ==
    /\ phase = "up" /\ handler = "idle" /\ mutex = "free" /\ events # <<>>
    /\ mem' = Outcome(Head(events))
    /\ mutex' = "handler" /\ handler' = "write"
    /\ UNCHANGED <<phase, disk, cli, snap, refused, manager, bounds>>

\* Mutant: the handler returns without writing the file.
HandlerWriteSkipped ==
    /\ phase = "up" /\ handler = "write"
    /\ mutex' = "free" /\ handler' = "idle"
    /\ events' = Tail(events)
    /\ UNCHANGED <<phase, mem, disk, cli, snap, refused, ldk, saved, net, bounds>>

HandlerWrite ==
    /\ phase = "up" /\ handler = "write"
    /\ disk' = mem
    /\ mutex' = "free" /\ handler' = "idle"
    /\ events' = Tail(events)
    /\ UNCHANGED <<phase, mem, cli, snap, refused, ldk, saved, net, bounds>>

-----------------------------------------------------------------------------
(***************************************************************************)
(* External: ChannelManager and the network.                               *)
(***************************************************************************)
Running == phase # "down"

\* The payee's invoice for an offer arrives and is paid, or never arrives.
InvoiceArrives(i) ==
    /\ Running /\ ldk[i] = "awaiting"
    /\ ldk' = [ldk EXCEPT ![i] = "pending"] /\ net' = [net EXCEPT ![i] = "inflight"]
    /\ UNCHANGED <<node, events, saved, bounds>>

InvoiceTimesOut(i) ==
    /\ Running /\ ldk[i] = "awaiting"
    /\ ldk' = [ldk EXCEPT ![i] = "none"] /\ events' = Append(events, Failed(i))
    /\ UNCHANGED <<node, saved, net, bounds>>

\* The payee claims: the payment stays listed as fulfilled.
Settle(i) ==
    /\ Running /\ ldk[i] = "pending" /\ net[i] = "inflight"
    /\ net' = [net EXCEPT ![i] = "settled"]
    /\ ldk' = [ldk EXCEPT ![i] = "fulfilled"] /\ events' = Append(events, Sent(i))
    /\ UNCHANGED <<node, saved, bounds>>

\* All paths fail and the retries end: the payment is forgotten at once.
GiveUp(i) ==
    /\ Running /\ ldk[i] = "pending" /\ net[i] = "inflight"
    /\ net' = [net EXCEPT ![i] = "failed"]
    /\ ldk' = [ldk EXCEPT ![i] = "none"] /\ events' = Append(events, Failed(i))
    /\ UNCHANGED <<node, saved, bounds>>

\* A fulfilled payment is forgotten some time after its event was handled.
ForgetFulfilled(i) ==
    /\ Running /\ ldk[i] = "fulfilled" /\ ~Queued(Sent(i), events)
    /\ ldk' = [ldk EXCEPT ![i] = "none"]
    /\ UNCHANGED <<node, events, saved, net, bounds>>

\* The background processor persists the manager between events.
PersistManager ==
    /\ phase = "up" /\ handler = "idle"
    /\ saved # [ldk |-> ldk, events |-> events]
    /\ saved' = [ldk |-> ldk, events |-> events]
    /\ UNCHANGED <<node, ldk, events, net, bounds>>

\* What the manager knows after a restart: its persisted state, and from the
\* channel monitors every HTLC in flight and every preimage learned.  An
\* outcome whose event was not handled is reported again; one that was may be.
Replayed ==
    {Sent(i) : i \in {j \in Ids : net[j] = "settled" /\
                        (Queued(Sent(j), events) \/ saved.ldk[j] = "pending")}}
    \cup {Failed(i) : i \in {j \in Ids : net[j] = "failed" /\ saved.ldk[j] = "pending"}}

EventsAfterRestart ==
    saved.events \o SetToSeq({e \in Replayed : ~Queued(e, saved.events)})

LdkAfterRestart ==
    [i \in Ids |->
        CASE net[i] = "inflight" -> "pending"
          [] net[i] = "settled" /\ (Queued(Sent(i), EventsAfterRestart)
                                    \/ saved.ldk[i] = "fulfilled") -> "fulfilled"
          [] net[i] \in {"none", "failed"} /\ saved.ldk[i] = "awaiting" -> "awaiting"
          [] OTHER -> "none"]

-----------------------------------------------------------------------------
(***************************************************************************)
(* Crash and start-up.                                                     *)
(***************************************************************************)
Crash ==
    /\ phase # "down" /\ crashes < MaxCrashes
    /\ crashes' = crashes + 1
    /\ Die
    /\ UNCHANGED <<mem, disk, manager, sends>>

\* LDK is restored, then read_outbound_payment_info reads the file.
Load ==
    /\ phase = "down"
    /\ events' = EventsAfterRestart /\ ldk' = LdkAfterRestart
    /\ mem' = disk
    /\ phase' = "loaded"
    /\ UNCHANGED <<disk, mutex, cli, snap, refused, handler, saved, net, bounds>>

\* Mutant: entries LDK still lists are failed too.
ReconcileAll ==
    /\ phase = "loaded"
    /\ mem' = [i \in Ids |-> IF mem[i] = "Pending" THEN "Failed" ELSE mem[i]]
    /\ phase' = "reconciled"
    /\ UNCHANGED <<disk, mutex, cli, snap, refused, handler, manager, bounds>>

\* Mutant: the filter on Pending entries is dropped.
ReconcileUnfiltered ==
    /\ phase = "loaded"
    /\ mem' = [i \in Ids |-> IF mem[i] # "absent" /\ ldk[i] = "none" THEN "Failed" ELSE mem[i]]
    /\ phase' = "reconciled"
    /\ UNCHANGED <<disk, mutex, cli, snap, refused, handler, manager, bounds>>

\* Pending entries that list_recent_payments does not have are Failed ...
Reconcile ==
    /\ phase = "loaded"
    /\ mem' = [i \in Ids |-> IF mem[i] = "Pending" /\ ldk[i] = "none"
                             THEN "Failed" ELSE mem[i]]
    /\ phase' = "reconciled"
    /\ UNCHANGED <<disk, mutex, cli, snap, refused, handler, manager, bounds>>

\* ... and the file is written before the handler and the commands start.
WriteReconciled ==
    /\ phase = "reconciled"
    /\ disk' = mem
    /\ phase' = "up"
    /\ UNCHANGED <<mem, mutex, cli, snap, refused, handler, manager, bounds>>

CliStep ==
    \/ RecordAttempt \/ SendOk \/ SendErr \/ RecordErr
    \/ OfferEncode \/ OfferWrite \/ OfferPay \/ Stop
HandlerStep == HandleEvent \/ HandlerWrite
Resolve(i) == InvoiceArrives(i) \/ InvoiceTimesOut(i) \/ Settle(i) \/ GiveUp(i)
StartUp == Load \/ Reconcile \/ WriteReconciled

Next ==
    \/ \E i \in Ids : SendPayment(i) \/ Keysend(i) \/ OfferPrompt(i) \/ OfferInsert(i)
    \/ \E i \in Ids : Resolve(i) \/ ForgetFulfilled(i)
    \/ CliStep \/ Quit \/ HandlerStep \/ PersistManager \/ StartUp \/ Crash

Spec == Init /\ [][Next]_vars

\* The tasks are scheduled; the Mutex is handed on; HTLCs time out at the
\* latest on chain; the operator restarts the node.
Fairness ==
    /\ WF_vars(CliStep) /\ SF_vars(HandlerStep) /\ WF_vars(StartUp)
    /\ \A i \in Ids : WF_vars(Resolve(i))
LiveSpec == Spec /\ Fairness

-----------------------------------------------------------------------------
Statuses == {"absent", "Pending", "Succeeded", "Failed"}

\* Types of the node's and the manager's state; the Mutex is held exactly
\* inside send_payment, keysend and the event handler.
TypeOK ==
    /\ phase \in {"down", "loaded", "reconciled", "up"}
    /\ mem \in [Ids -> Statuses] /\ disk \in [Ids -> Statuses] /\ snap \in [Ids -> Statuses]
    /\ mutex \in {"free", "cli", "handler"} /\ handler \in {"idle", "write"}
    /\ mutex = "cli" <=> cli.pc \in {"record", "send", "recordErr"}
    /\ mutex = "handler" <=> handler = "write"
    /\ IF cli.pc \in {"idle", "exited"} THEN cli.id = "none" ELSE cli.id \in Ids
    /\ refused \subseteq Offers
    /\ ldk \in [Ids -> {"none", "awaiting", "pending", "fulfilled"}]
    /\ net \in [Ids -> {"none", "inflight", "settled", "failed"}]
    /\ \A n \in DOMAIN events : events[n] \in {"sent", "failed"} \X Ids

\* "Before we send the payment, let's store it": once a payment is in LDK's
\* hands, whatever crashes follow, the file has an entry for it.
RecordedBeforeSent ==
    \A i \in Ids : ldk[i] # "none" \/ net[i] # "none" => disk[i] # "absent"

\* No payment that was made, or may still be, is on record as Failed, in
\* memory or in the file: the user is never told to pay again by mistake.
FailedMeansUnpaid ==
    \A i \in Ids : mem[i] = "Failed" \/ disk[i] = "Failed" =>
                       net[i] \notin {"inflight", "settled"}

\* A success in the file stays there: no later write, crash or replayed event
\* turns it back.
SuccessStays == [][\A i \in Ids : disk[i] = "Succeeded" => disk'[i] = "Succeeded"]_vars

\* Every payment that settles is eventually recorded as Succeeded for good,
\* also when the node crashes before, while or after the event is handled.
SettledIsRecorded == \A i \in Ids : net[i] = "settled" ~> [](disk[i] = "Succeeded")

\* The user pays no invoice twice and no offer: what else the map holds is then
\* never replaced, and never overwritten by an older copy.
PaidOnce == ~Resend /\ Offers = Unpriced

\* Something stands behind every Pending entry of a running node: the command
\* that made it, LDK, or an event on its way, so that it will not stay.  There
\* are two exceptions.  An offer for which pay_for_offer failed: its entry stays
\* until the node is started again.  And a payment that was made, but is Pending
\* in the file when the node dies, because its invoice was about to be paid again
\* or because an offer's write put an older copy of the map there: start-up
\* finds it among LDK's recent payments and leaves it Pending.
PendingIsLive ==
    \A i \in Ids : phase = "up" /\ mem[i] = "Pending" =>
        \/ cli.id = i \/ ldk[i] # "none" \/ Queued(Sent(i), events) \/ Queued(Failed(i), events)
        \/ i \in refused \/ (~PaidOnce /\ net[i] = "settled")

\* No attempt stays Pending for ever.
PendingResolves == \A i \in Ids : mem[i] = "Pending" ~> mem[i] # "Pending"
=============================================================================
