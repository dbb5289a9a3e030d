----------------------------- MODULE OnChainWallet -----------------------------
(***************************************************************************)
(* The on-chain wallet: what it knows of its coins, which of its addresses *)
(* it looks at, what its database keeps, and the transactions that         *)
(* the event handlers build from it.                                       *)
(*                                                                         *)
(* External: BDK (addresses are revealed one after the other; a full scan  *)
(* stops after STOP_GAP unused addresses; a sync looks at the revealed     *)
(* ones; a transaction that was built reserves nothing), Esplora, LDK,     *)
(* which hands the transactions to the broadcaster of bitcoind_client.rs   *)
(* (a funding one once the peer has signed) and handles one event after    *)
(* the other, and bitcoind.  A coin is the payment to one address; change, *)
(* amounts and confirmations are left out.                                 *)
(***************************************************************************)
EXTENDS FiniteSetsExt, Naturals

CONSTANTS
    STOP_GAP,
    MaxIndex,      \* bound: addresses
    MaxBuilt,      \* bound: events that need a transaction
    LowFee,        \* those whose commitment transaction alone pays less than
                   \* the minimum of bitcoind's mempool
    MaxCrashes     \* bound: deaths of the process

ASSUME WalletAssumption ==
    /\ STOP_GAP \in Nat \ {0} /\ MaxIndex \in Nat
    /\ MaxBuilt \in Nat /\ LowFee \subseteq 1..MaxBuilt /\ MaxCrashes \in Nat

Indexes == 1..MaxIndex

VARIABLES
    pc,        \* "down", "scan" or "up"
    wallet,    \* the BDK wallet: [revealed, seen, spent]
    db,        \* its database
    handed,    \* [Indexes -> how often the address was given out]
    paid,      \* addresses that have a coin on chain or in the mempool
    bump,      \* the bump under way: [event, coin, step]
    built,     \* transactions built: <<the event, the coin it spends>>; the
               \* coin of a commitment transaction, which an event bumps, is 0
    sending,   \* those that a task of the broadcaster is about to submit
    pool,      \* those that bitcoind accepted
    retired,   \* coins whose spending a returned scan or sync has reported
    crashes

chain == <<handed, paid, pool>>
vars == <<pc, wallet, db, chain, bump, built, sending, retired, crashes>>

Empty == [revealed |-> 0, seen |-> {}, spent |-> {}]
NoBump == [event |-> 0, coin |-> 0, step |-> "none"]

Init ==
    /\ pc = "down" /\ wallet = Empty /\ db = Empty
    /\ handed = [i \in Indexes |-> 0] /\ paid = {} /\ pool = {}
    /\ bump = NoBump /\ built = {} /\ sending = {}
    /\ retired = {} /\ crashes = 0

-----------------------------------------------------------------------------
(***************************************************************************)
(* Looking at the chain.  Both operations hold the wallet's Mutex.         *)
(***************************************************************************)
\* An update with the coins of these addresses and what spends them.
Update(w, found) ==
    [revealed |-> Max({w.revealed} \cup found),
     seen |-> w.seen \cup found,
     spent |-> w.spent \cup {t[2] : t \in {u \in pool : u[2] \in found}}]

\* No STOP_GAP unused addresses in a row before it.
InGap(i) == \A k \in 1..i : i - k >= STOP_GAP => \E j \in k..(k + STOP_GAP - 1) : j \in paid

\* apply_update and persist; the transaction reported as spending a coin
\* stays known.
Applied(w) == wallet' = w /\ db' = w /\ retired' = retired \cup w.spent

\* new_from_seed loads or creates the wallet ...
Load ==
    /\ pc = "down" /\ pc' = "scan"
    /\ wallet' = db
    /\ UNCHANGED <<db, chain, bump, built, sending, retired, crashes>>

\* ... and scans all addresses ...
FullScan ==
    /\ pc = "scan" /\ pc' = "up"
    /\ Applied(Update(wallet, {i \in paid : InGap(i)}))
    /\ UNCHANGED <<chain, bump, built, sending, crashes>>

\* ... but does not look at the result: the scan may have failed at the
\* database, with the update in the wallet, or before.
FullScanUnpersisted ==
    /\ pc = "scan" /\ pc' = "up"
    /\ wallet' = Update(wallet, {i \in paid : InGap(i)})
    /\ UNCHANGED <<db, chain, bump, built, sending, retired, crashes>>

FullScanFails ==
    /\ pc = "scan" /\ pc' = "up"
    /\ UNCHANGED <<wallet, db, chain, bump, built, sending, retired, crashes>>

\* Mutant: only the newest address is looked at.
SyncNewest ==
    /\ pc = "up"
    /\ Applied(Update(wallet, {i \in paid : i = wallet.revealed}))
    /\ UNCHANGED <<pc, chain, bump, built, sending, crashes>>

\* sync_wallet, every 30 seconds: the revealed addresses.
Sync ==
    /\ pc = "up"
    /\ Applied(Update(wallet, {i \in paid : i <= wallet.revealed}))
    /\ UNCHANGED <<pc, chain, bump, built, sending, crashes>>

\* It fails at the database: the wallet has the update, the task prints it.
SyncUnpersisted ==
    /\ pc = "up"
    /\ wallet' = Update(wallet, {i \in paid : i <= wallet.revealed})
    /\ UNCHANGED <<pc, db, chain, bump, built, sending, retired, crashes>>

-----------------------------------------------------------------------------
(***************************************************************************)
(* Using the wallet.                                                       *)
(***************************************************************************)
\* The next address is revealed and given out; the database learns of it with
\* the next sync.
Reveal ==
    /\ wallet.revealed < MaxIndex
    /\ wallet' = [wallet EXCEPT !.revealed = @ + 1]
    /\ handed' = [handed EXCEPT ![wallet.revealed + 1] = @ + 1]

\* Mutant: an address that nobody has paid to is given out again.
GetAddressUnused ==
    /\ pc = "up"
    /\ \/ 1..wallet.revealed \subseteq wallet.seen /\ Reveal
       \/ \E i \in (1..wallet.revealed) \ wallet.seen : handed' = [handed EXCEPT ![i] = @ + 1]
          /\ UNCHANGED wallet
    /\ UNCHANGED <<pc, db, paid, pool, bump, built, sending, retired, crashes>>

\* get_address and get_change_destination_script.
GetAddress ==
    /\ pc = "up" /\ Reveal
    /\ UNCHANGED <<pc, db, paid, pool, bump, built, sending, retired, crashes>>

\* Coins the wallet takes for its own.
Unspent == wallet.seen \ wallet.spent

Gone == pc' = "down" /\ wallet' = Empty /\ bump' = NoBump /\ sending' = {}

\* The handler turns to an event for which nothing was built yet.
Handles(n) == pc = "up" /\ bump = NoBump /\ \A t \in built : t[1] # n

\* Mutant: coins are taken whether spent or not.
FundAny(n) ==
    /\ Handles(n)
    /\ \E c \in wallet.seen : built' = built \cup {<<n, c>>}
    /\ UNCHANGED <<pc, wallet, db, chain, bump, sending, retired, crashes>>

\* FundingGenerationReady: create_funding_transaction builds and signs; the
\* channel may be gone when LDK gets it.
Fund(n) ==
    /\ Handles(n)
    /\ \E c \in Unspent : built' = built \cup {<<n, c>>}
    /\ UNCHANGED <<pc, wallet, db, chain, bump, sending, retired, crashes>>

\* BumpTransaction: LDK lists the coins and takes one (list_confirmed_utxos) ...
BumpList(n) ==
    /\ Handles(n)
    /\ \E c \in Unspent : bump' = [event |-> n, coin |-> c, step |-> "listed"]
    /\ UNCHANGED <<pc, wallet, db, chain, built, sending, retired, crashes>>

\* ... asks for a change address (get_change_script) ...
BumpChange ==
    /\ bump.step = "listed" /\ Reveal
    /\ bump' = [bump EXCEPT !.step = "change"]
    /\ UNCHANGED <<pc, db, paid, pool, built, sending, retired, crashes>>

\* ... and has the child of the commitment transaction signed (sign_psbt), each
\* under the Mutex for itself.
BumpSign ==
    /\ bump.step = "change"
    /\ built' = built \cup {<<bump.event, 0>>, <<bump.event, bump.coin>>}
    /\ bump' = NoBump
    /\ UNCHANGED <<pc, wallet, db, chain, sending, retired, crashes>>

\* finish().unwrap(): without coins the node aborts.
FundAborts(n) ==
    /\ Handles(n)
    /\ Unspent = {} /\ crashes < MaxCrashes
    /\ Gone /\ crashes' = crashes + 1
    /\ UNCHANGED <<db, chain, built, retired>>

-----------------------------------------------------------------------------
(***************************************************************************)
(* The broadcaster.  A package is what one event built.                    *)
(***************************************************************************)
Package(n) == {t \in built : t[1] = n}
Packages == {n \in 1..MaxBuilt : <<n, 0>> \in built}

\* bitcoind, asked about one transaction at a time, refuses what it has, what
\* pays too little by itself, what spends a coin that is spent already, and a
\* child whose parent it does not have.
Accepts(t) ==
    /\ t \notin pool
    /\ t[2] = 0 => t[1] \notin LowFee
    /\ t[2] # 0 => /\ \A u \in pool : u[2] # t[2]
                   /\ t[1] \in Packages => <<t[1], 0>> \in pool

\* Mutant: one task for the package, which stops at the first error.
BroadcastInOrder(n) ==
    /\ pc = "up"
    /\ ~(Package(n) \subseteq pool \cup sending)
    /\ sending' = sending \cup {t \in Package(n) :
                     \A u \in Package(n) : u[2] < t[2] => Accepts(u)}
    /\ UNCHANGED <<pc, wallet, db, chain, bump, built, retired, crashes>>

\* broadcast_transactions: one task for each transaction.  LDK calls it when a
\* package is ready, and again until the package is confirmed.
BroadcastTransactions(n) ==
    /\ pc = "up"
    /\ ~(Package(n) \subseteq pool \cup sending)
    /\ sending' = sending \cup Package(n)
    /\ UNCHANGED <<pc, wallet, db, chain, bump, built, retired, crashes>>

\* sendrawtransaction: an error is logged.
Send(t) ==
    /\ t \in sending
    /\ sending' = sending \ {t}
    /\ \/ Accepts(t) /\ pool' = pool \cup {t}
       \/ ~Accepts(t) /\ UNCHANGED pool
    /\ UNCHANGED <<pc, wallet, db, handed, paid, bump, built, retired, crashes>>

\* bitcoind cannot be reached: logged, too.
SendFails(t) ==
    /\ t \in sending
    /\ sending' = sending \ {t}
    /\ UNCHANGED <<pc, wallet, db, chain, bump, built, retired, crashes>>

-----------------------------------------------------------------------------
(***************************************************************************)
(* External: payers, the end of the process.                               *)
(***************************************************************************)
Pay(i) ==
    /\ handed[i] > 0 /\ i \notin paid
    /\ paid' = paid \cup {i}
    /\ UNCHANGED <<pc, wallet, db, handed, pool, bump, built, sending, retired, crashes>>

Crash ==
    /\ pc # "down" /\ crashes < MaxCrashes
    /\ Gone /\ crashes' = crashes + 1
    /\ UNCHANGED <<db, chain, built, retired>>

StartUp == Load \/ FullScan \/ FullScanUnpersisted \/ FullScanFails

Next ==
    \/ StartUp \/ Sync \/ SyncUnpersisted \/ GetAddress \/ BumpChange \/ BumpSign \/ Crash
    \/ \E n \in 1..MaxBuilt :
          Fund(n) \/ BumpList(n) \/ FundAborts(n) \/ BroadcastTransactions(n)
    \/ \E i \in Indexes : Pay(i)
    \/ \E t \in sending : Send(t) \/ SendFails(t)

Spec == Init /\ [][Next]_vars

SendAccepted(n) == \E t \in sending : t[1] = n /\ Accepts(t) /\ Send(t)

\* The operator starts a dead node; the sync task runs and does not fail for
\* ever; LDK hands over what it needs confirmed again and again (not so a
\* funding transaction), and bitcoind is not out of reach whenever it would
\* accept a transaction.
LiveSpec ==
    /\ Spec /\ WF_vars(StartUp) /\ WF_vars(Sync)
    /\ \A n \in 1..MaxBuilt :
          /\ WF_vars(n \in Packages /\ BroadcastTransactions(n))
          /\ SF_vars(SendAccepted(n))

-----------------------------------------------------------------------------
Wallets == [revealed : 0..MaxIndex, seen : SUBSET Indexes, spent : SUBSET Indexes]

Bumps == [event : 0..MaxBuilt, coin : 0..MaxIndex, step : {"none", "listed", "change"}]

\* Types; a bump goes on only in a running wallet and deals with one of its
\* coins; the database has no coin that the running wallet does not have.
TypeOK ==
    /\ pc \in {"down", "scan", "up"} /\ wallet \in Wallets /\ db \in Wallets
    /\ handed \in [Indexes -> Nat] /\ paid \subseteq Indexes
    /\ bump \in Bumps
    /\ bump # NoBump => pc = "up" /\ bump.event # 0 /\ bump.coin \in wallet.seen
    /\ pool \subseteq built /\ sending \subseteq built
    /\ built \subseteq (1..MaxBuilt) \X (0..MaxIndex)
    /\ pc # "down" => db.seen \subseteq wallet.seen

\* An address that a scan or sync has persisted as revealed is not given out
\* again, by a command, a bump or the sweeper, whatever dies and whichever later
\* scan, sync or persist fails.
PersistedNotReissued == [][\A i \in Indexes : handed'[i] > handed[i] => i > db.revealed]_vars

\* "Uses the external keychain to generate fresh receive addresses": no
\* address is given out twice.  It is, if the node dies before the next sync, even
\* one that was paid to, when the sync that found the coin was not persisted.
FreshAddresses == \A i \in Indexes : handed[i] <= 1

\* The coins that transactions spend or are being made to spend.
Chosen == built \cup {<<bump.event, bump.coin>>}

\* A coin is never chosen for a transaction when a completed scan or sync has
\* reported its spending, although the node died in between and its first scan
\* may have failed.
ReportedNotReused == [][\A t \in Chosen' \ Chosen : t[2] \notin retired]_vars

\* The same of the transactions themselves.  It fails: a sync may report the coin
\* between a bump's list_confirmed_utxos and its sign_psbt.
ReportedNotSigned == [][\A t \in built' \ built : t[2] \notin retired]_vars

\* A payment to an address is found once a sync has returned since the
\* address was handed out, whatever dies and whichever scan fails.
PaymentsFound ==
    []<>(\A i \in Indexes : i \in paid /\ i <= db.revealed => i \in wallet.seen)

Arrived(n) == \A t \in Package(n) : \E u \in pool : u = t \/ (u[2] = t[2] /\ t[2] # 0)

\* A commitment transaction that bitcoind takes by itself and the child that pays
\* for more get there, or another transaction spends the child's coin: although
\* the tasks that submit them may run in either order, an error is only logged
\* and a crash loses the tasks.
PackagesArrive == []<>(\A n \in Packages \ LowFee : Arrived(n))

\* The same of every package.  It fails: sendrawtransaction is asked about one
\* transaction at a time, so a commitment transaction below the mempool's minimum
\* is refused whatever its child pays, and the child with it.
AllPackagesArrive == []<>(\A n \in Packages : Arrived(n))
================================================================================
