-------------------------- MODULE OnChainWalletProofs --------------------------
(***************************************************************************)
(* Proofs about the on-chain wallet (OnChainWallet), for every stop gap,   *)
(* any number of addresses, transactions and crashes.                      *)
(***************************************************************************)
EXTENDS OnChainWallet, WellFoundedInduction, TLAPS

-----------------------------------------------------------------------------
(***************************************************************************)
(* The maximum.                                                            *)
(***************************************************************************)
\* Max returns the greatest element of a nonempty bounded set.  The
\* distances from the bound have a minimum, because < is well-founded.
LEMMA MaxOfBounded ==
    ASSUME NEW n \in Nat, NEW S \in SUBSET (0..n), S # {}
    PROVE  Max(S) \in S /\ \A y \in S : y <= Max(S)
<1> DEFINE R == OpToRel(<, Nat)
           T == {n - x : x \in S}
<1>1. IsWellFoundedOn(R, Nat)
  BY NatLessThanWellFounded
<1>2. \A y, x \in Nat : <<y, x>> \in R <=> y < x
  BY DEF OpToRel
<1>3. T \subseteq Nat /\ T # {}
  <2>1. \A x \in S : n - x \in Nat
    OBVIOUS
  <2>2. QED
    BY <2>1
<1> HIDE DEF R
<1>4. \E d \in T : \A e \in T : ~(<<e, d>> \in R)
  BY <1>1, <1>3, WFMin
<1>5. PICK d \in T : \A e \in T : ~(<<e, d>> \in R)
  BY <1>4
<1>6. PICK m \in S : d = n - m
  BY <1>5
<1>7. \A y \in S : m >= y
  <2>1. TAKE y \in S
  <2>2. n - y \in T /\ ~(<<n - y, d>> \in R)
    BY <1>5
  <2>3. ~(n - y < n - m)
    BY <2>2, <1>2, <1>3, <1>5, <1>6
  <2>4. QED
    BY <2>3
<1>8. Max(S) \in S /\ \A y \in S : Max(S) >= y
  BY <1>7 DEF Max
<1>9. QED
  BY <1>8
-----------------------------------------------------------------------------
(***************************************************************************)
(* The inductive invariant.                                                *)
(***************************************************************************)
\* What has been reported as spent is a coin.
Types == TypeOK /\ retired \subseteq Indexes

\* A spending that a completed scan or sync has reported is in the database,
\* and a running wallet knows all the spendings and addresses of its database.
Kept ==
    /\ retired \subseteq db.spent
    /\ pc # "down" => db.spent \subseteq wallet.spent /\ db.revealed <= wallet.revealed

Inv == Types /\ Kept

\* An update of a wallet with coins that are on chain: it is a wallet and knows
\* no less than before.
LEMMA UpdateProperties ==
    ASSUME WalletAssumption, NEW w \in Wallets, NEW found \in SUBSET Indexes
    PROVE  LET u == Update(w, found)
           IN  /\ u \in Wallets
               /\ w.seen \subseteq u.seen /\ w.spent \subseteq u.spent
               /\ w.revealed <= u.revealed
<1> DEFINE S == {w.revealed} \cup found
           m == Max(S)
           spends == {t[2] : t \in {v \in pool : v[2] \in found}}
           u == [revealed |-> m, seen |-> w.seen \cup found,
                 spent |-> w.spent \cup spends]
<1>1. u = Update(w, found)
  BY DEF Update
<1>2. /\ w.revealed \in 0..MaxIndex
      /\ w.seen \in SUBSET Indexes /\ w.spent \in SUBSET Indexes
  BY DEF Wallets
<1>3. spends \subseteq Indexes
  OBVIOUS
<1>4. S \subseteq 0..MaxIndex /\ S # {}
  <2>1. Indexes \subseteq 0..MaxIndex
    BY DEF Indexes, WalletAssumption
  <2>2. QED
    BY <1>2, <2>1
<1>5. m \in S /\ \A y \in S : y <= m
  <2> HIDE DEF S
  <2>1. QED
    BY <1>4, MaxOfBounded DEF WalletAssumption
<1>6. m \in 0..MaxIndex /\ w.revealed <= m
  BY <1>4, <1>5
<1> HIDE DEF m, spends, S
<1>7. u \in Wallets
  BY <1>2, <1>3, <1>6 DEF Wallets
<1>8. w.revealed <= u.revealed
  BY <1>6
<1>9. w.seen \subseteq u.seen /\ w.spent \subseteq u.spent
  OBVIOUS
<1> HIDE DEF u
<1>10. QED
  BY <1>1, <1>7, <1>8, <1>9

\* The initial state satisfies the invariant.
LEMMA InitInv == WalletAssumption /\ Init => Inv
<1> SUFFICES ASSUME WalletAssumption, Init
             PROVE  Inv
  OBVIOUS
<1>1. Empty \in Wallets
  BY DEF Empty, Wallets, WalletAssumption
<1>2. NoBump \in Bumps
  BY DEF NoBump, Bumps, WalletAssumption
<1>3. handed \in [Indexes -> Nat]
  BY DEF Init
<1>4. QED
  BY <1>1, <1>2, <1>3 DEF Inv, Types, TypeOK, Kept, Init, Empty

\* A step that brings the wallet up to date with the addresses in found.
LEMMA WalletUpdated ==
    ASSUME WalletAssumption, Inv, pc # "down", NEW found \in SUBSET paid,
           wallet' = Update(wallet, found),
           \/ db' = wallet' /\ retired' = retired \cup wallet'.spent
           \/ db' = db /\ retired' = retired,
           pc' = "up",
           UNCHANGED <<chain, bump, built, sending>>
    PROVE  Inv'
<1> DEFINE u == Update(wallet, found)
<1>1. found \in SUBSET Indexes
  BY DEF Inv, Types, TypeOK
<1>2. wallet \in Wallets /\ db \in Wallets
  BY DEF Inv, Types, TypeOK
<1>3. /\ u \in Wallets
      /\ wallet.seen \subseteq u.seen /\ wallet.spent \subseteq u.spent
      /\ wallet.revealed <= u.revealed
  BY <1>1, <1>2, UpdateProperties
<1>4. wallet' = u
  OBVIOUS
<1> HIDE DEF u
<1>5. u.spent \subseteq Indexes /\ u.revealed \in 0..MaxIndex
  BY <1>3 DEF Wallets
<1>6. wallet.revealed \in 0..MaxIndex /\ db.revealed \in 0..MaxIndex
  BY <1>2 DEF Wallets
<1>7. db'.revealed <= wallet'.revealed
  BY <1>3, <1>4, <1>5, <1>6 DEF Inv, Kept, WalletAssumption
<1>8. QED
  BY <1>2, <1>3, <1>4, <1>5, <1>7
     DEF Inv, Types, TypeOK, Kept, chain

\* The next address is revealed: it is none that the database has.
LEMMA AddressRevealed ==
    ASSUME WalletAssumption, Inv, pc = "up", Reveal
    PROVE  /\ wallet' \in Wallets
           /\ wallet'.seen = wallet.seen /\ wallet'.spent = wallet.spent
           /\ handed' \in [Indexes -> Nat]
           /\ db.revealed <= wallet'.revealed
           /\ \A i \in Indexes : handed'[i] > handed[i] => i > db.revealed
<1>1. wallet \in Wallets /\ db \in Wallets /\ handed \in [Indexes -> Nat]
  BY DEF Inv, Types, TypeOK
<1>2. /\ wallet'.revealed = wallet.revealed + 1
      /\ wallet'.seen = wallet.seen /\ wallet'.spent = wallet.spent
  BY <1>1 DEF Wallets, Reveal
<1>3. /\ wallet.revealed \in 0..MaxIndex /\ db.revealed \in 0..MaxIndex
      /\ db.revealed <= wallet.revealed /\ wallet.revealed < MaxIndex
  BY <1>1 DEF Wallets, Inv, Kept, Reveal
<1>4. wallet.revealed + 1 \in Indexes /\ wallet.revealed + 1 \in 0..MaxIndex
  BY <1>3 DEF Indexes, WalletAssumption
<1>5. wallet' \in Wallets
  BY <1>1, <1>4 DEF Wallets, Reveal
<1>6. handed' = [handed EXCEPT ![wallet.revealed + 1] = handed[wallet.revealed + 1] + 1]
  BY DEF Reveal
<1>7. handed' \in [Indexes -> Nat]
  BY <1>1, <1>4, <1>6
<1>8. ASSUME NEW i \in Indexes, handed'[i] > handed[i]
      PROVE  i > db.revealed
  <2>1. i = wallet.revealed + 1
    BY <1>1, <1>4, <1>6, <1>8
  <2>2. QED
    BY <2>1, <1>3 DEF WalletAssumption
<1>9. QED
  BY <1>2, <1>3, <1>5, <1>7, <1>8 DEF WalletAssumption

\* Every step keeps the invariant.
LEMMA StepInv == WalletAssumption /\ Inv /\ [Next]_vars => Inv'
<1> SUFFICES ASSUME WalletAssumption, Inv, [Next]_vars
             PROVE  Inv'
  OBVIOUS
<1> USE DEF Inv, Types, TypeOK, Kept, chain
<1>1. CASE Load
  <2>1. db.revealed <= db.revealed
    BY DEF Wallets
  <2>2. bump' = NoBump
    BY <1>1 DEF Load
  <2>3. QED
    BY <1>1, <2>1, <2>2 DEF Load
<1>2. CASE FullScan
  <2> DEFINE found == {i \in paid : InGap(i)}
  <2>1. found \in SUBSET paid
    OBVIOUS
  <2> HIDE DEF Inv
  <2>2. /\ wallet' = Update(wallet, found)
        /\ db' = wallet' /\ retired' = retired \cup wallet'.spent
    BY <1>2 DEF FullScan, Applied
  <2>3. pc # "down" /\ pc' = "up" /\ UNCHANGED <<chain, bump, built, sending>>
    BY <1>2 DEF FullScan
  <2> HIDE DEF found
  <2>4. QED
    BY <2>1, <2>2, <2>3, WalletUpdated
<1>3. CASE FullScanUnpersisted
  <2> DEFINE found == {i \in paid : InGap(i)}
  <2>1. found \in SUBSET paid
    OBVIOUS
  <2> HIDE DEF Inv
  <2>2. wallet' = Update(wallet, found) /\ db' = db /\ retired' = retired
    BY <1>3 DEF FullScanUnpersisted
  <2>3. pc # "down" /\ pc' = "up" /\ UNCHANGED <<chain, bump, built, sending>>
    BY <1>3 DEF FullScanUnpersisted
  <2> HIDE DEF found
  <2>4. QED
    BY <2>1, <2>2, <2>3, WalletUpdated
<1>4. CASE FullScanFails
  BY <1>4 DEF FullScanFails
<1>5. CASE Sync
  <2> DEFINE found == {i \in paid : i <= wallet.revealed}
  <2>1. found \in SUBSET paid
    OBVIOUS
  <2> HIDE DEF Inv
  <2>2. /\ wallet' = Update(wallet, found)
        /\ db' = wallet' /\ retired' = retired \cup wallet'.spent
    BY <1>5 DEF Sync, Applied
  <2>3. pc # "down" /\ pc' = "up" /\ UNCHANGED <<chain, bump, built, sending>>
    BY <1>5 DEF Sync
  <2> HIDE DEF found
  <2>4. QED
    BY <2>1, <2>2, <2>3, WalletUpdated
<1>6. CASE SyncUnpersisted
  <2> DEFINE found == {i \in paid : i <= wallet.revealed}
  <2>1. found \in SUBSET paid
    OBVIOUS
  <2> HIDE DEF Inv
  <2>2. wallet' = Update(wallet, found) /\ db' = db /\ retired' = retired
    BY <1>6 DEF SyncUnpersisted
  <2>3. pc # "down" /\ pc' = "up" /\ UNCHANGED <<chain, bump, built, sending>>
    BY <1>6 DEF SyncUnpersisted
  <2> HIDE DEF found
  <2>4. QED
    BY <2>1, <2>2, <2>3, WalletUpdated
<1>7. CASE GetAddress
  <2>1. /\ wallet' \in Wallets
        /\ wallet'.seen = wallet.seen /\ wallet'.spent = wallet.spent
        /\ handed' \in [Indexes -> Nat] /\ db.revealed <= wallet'.revealed
    <3> HIDE DEF Inv
    <3>1. QED
      BY <1>7, AddressRevealed DEF GetAddress
  <2>2. QED
    BY <1>7, <2>1 DEF GetAddress
<1>8. ASSUME NEW n \in 1..MaxBuilt, Fund(n)
      PROVE  Inv'
  <2>1. PICK c \in Unspent : built' = built \cup {<<n, c>>}
    BY <1>8 DEF Fund
  <2>2. c \in 0..MaxIndex
    BY <2>1 DEF Unspent, Wallets, Indexes, WalletAssumption
  <2>3. built' \subseteq (1..MaxBuilt) \X (0..MaxIndex)
    BY <2>1, <2>2
  <2>4. QED
    BY <1>8, <2>1, <2>3 DEF Fund
<1>9. ASSUME NEW n \in 1..MaxBuilt, BumpList(n)
      PROVE  Inv'
  <2>1. PICK c \in Unspent : bump' = [event |-> n, coin |-> c, step |-> "listed"]
    BY <1>9 DEF BumpList
  <2>2. c \in wallet.seen /\ c \in 0..MaxIndex /\ n \in 0..MaxBuilt /\ n # 0
    BY <2>1 DEF Unspent, Wallets, Indexes, WalletAssumption
  <2>3. bump' \in Bumps /\ bump'.event # 0 /\ bump'.coin \in wallet.seen
    BY <2>1, <2>2 DEF Bumps
  <2>4. QED
    BY <1>9, <2>3 DEF BumpList, Handles
<1>10. CASE BumpChange
  <2>1. bump # NoBump /\ pc = "up"
    BY <1>10 DEF BumpChange, NoBump
  <2>2. /\ wallet' \in Wallets
        /\ wallet'.seen = wallet.seen /\ wallet'.spent = wallet.spent
        /\ handed' \in [Indexes -> Nat] /\ db.revealed <= wallet'.revealed
    <3> HIDE DEF Inv
    <3>1. QED
      BY <1>10, <2>1, AddressRevealed DEF BumpChange
  <2>3. bump' \in Bumps /\ bump'.event = bump.event /\ bump'.coin = bump.coin
    BY <1>10 DEF BumpChange, Bumps
  <2>4. QED
    BY <1>10, <2>1, <2>2, <2>3 DEF BumpChange
<1>11. CASE BumpSign
  <2>1. bump # NoBump /\ pc = "up"
    BY <1>11 DEF BumpSign, NoBump
  <2>2. bump.event \in 1..MaxBuilt /\ bump.coin \in 0..MaxIndex /\ 0 \in 0..MaxIndex
    BY <2>1 DEF Bumps, WalletAssumption
  <2>3. built' \subseteq (1..MaxBuilt) \X (0..MaxIndex)
    BY <1>11, <2>2 DEF BumpSign
  <2>4. NoBump \in Bumps
    BY DEF NoBump, Bumps, WalletAssumption
  <2>5. QED
    BY <1>11, <2>3, <2>4 DEF BumpSign
<1>12. ASSUME Gone, UNCHANGED <<db, chain, built, retired>>
       PROVE  Inv'
  <2>1. Empty \in Wallets /\ Empty.seen = {}
    BY DEF Empty, Wallets, WalletAssumption
  <2>2. NoBump \in Bumps
    BY DEF NoBump, Bumps, WalletAssumption
  <2>3. QED
    BY <1>12, <2>1, <2>2 DEF Gone
<1>13. ASSUME NEW n \in 1..MaxBuilt, FundAborts(n)
       PROVE  Inv'
  BY <1>12, <1>13 DEF FundAborts
<1>14. CASE Crash
  BY <1>12, <1>14 DEF Crash
<1>15. ASSUME NEW n \in 1..MaxBuilt, BroadcastTransactions(n)
       PROVE  Inv'
  BY <1>15 DEF BroadcastTransactions, Package
<1>16. ASSUME NEW t \in sending, Send(t)
       PROVE  Inv'
  BY <1>16 DEF Send
<1>17. ASSUME NEW t \in sending, SendFails(t)
       PROVE  Inv'
  BY <1>17 DEF SendFails
<1>18. ASSUME NEW i \in Indexes, Pay(i)
       PROVE  Inv'
  BY <1>18 DEF Pay
<1>19. CASE UNCHANGED vars
  BY <1>19 DEF vars
<1> HIDE DEF Inv
<1>20. QED
  BY <1>1, <1>2, <1>3, <1>4, <1>5, <1>6, <1>7, <1>8, <1>9, <1>10, <1>11, <1>13,
     <1>14, <1>15, <1>16, <1>17, <1>18, <1>19 DEF Next, StartUp

\* The invariant holds in every state of every run of the wallet.
LEMMA InvHolds == Spec => []Inv
<1>1. WalletAssumption
  BY WalletAssumption
<1>2. QED
  BY <1>1, InitInv, StepInv, PTL DEF Spec

-----------------------------------------------------------------------------
(***************************************************************************)
(* What it implies.                                                        *)
(***************************************************************************)
\* Every variable keeps its type, for any number of addresses; the coin that a
\* bump has listed is still one of the wallet's when the bump is signed.
THEOREM TypeCorrect == Spec => []TypeOK
<1>1. Inv => TypeOK
  BY DEF Inv, Types
<1>2. QED
  BY <1>1, InvHolds, PTL

\* get_address, get_change_script and get_change_destination_script never give
\* out an address that a scan or sync had persisted as revealed, although every
\* start loads the wallet from the database and scans, syncs and persists fail.
THEOREM AddressesStayFresh == Spec => PersistedNotReissued
<1> DEFINE A == \A i \in Indexes : handed'[i] > handed[i] => i > db.revealed
<1>1. Inv /\ [Next]_vars => [A]_vars
  <2> SUFFICES ASSUME Inv, Next
               PROVE  A
    OBVIOUS
  <2>1. CASE GetAddress
    BY <2>1, WalletAssumption, AddressRevealed DEF GetAddress
  <2>2. CASE BumpChange
    <3>1. pc = "up"
      BY <2>2 DEF Inv, Types, TypeOK, BumpChange, NoBump
    <3>2. QED
      BY <2>2, <3>1, WalletAssumption, AddressRevealed DEF BumpChange
  <2>3. CASE UNCHANGED handed
    <3>1. handed \in [Indexes -> Nat]
      BY DEF Inv, Types, TypeOK
    <3>2. QED
      BY <2>3, <3>1
  <2>4. QED
    BY <2>1, <2>2, <2>3
       DEF Next, StartUp, chain, Load, FullScan, FullScanUnpersisted, FullScanFails, Sync,
           SyncUnpersisted, Fund, BumpList, BumpSign, Crash, FundAborts,
           BroadcastTransactions, Send, SendFails, Pay
<1>2. QED
  BY <1>1, InvHolds, PTL DEF Spec, PersistedNotReissued

\* create_funding_transaction and the bumps never choose a coin whose spending
\* a completed scan or sync had reported: the database holds all of those
\* spendings, and every wallet is loaded from it.
THEOREM SpentStaysSpent == Spec => ReportedNotReused
<1> DEFINE A == \A t \in Chosen' \ Chosen : t[2] \notin retired
<1>1. Inv /\ [Next]_vars => [A]_vars
  <2> SUFFICES ASSUME Inv, Next
               PROVE  A
    OBVIOUS
  <2>1. 0 \notin retired
    BY WalletAssumption DEF Inv, Types, Indexes, WalletAssumption
  <2>2. pc = "up" => retired \cap Unspent = {}
    BY DEF Inv, Kept, Unspent
  <2>3. ASSUME NEW n \in 1..MaxBuilt, Fund(n)
        PROVE  A
    <3>1. PICK c \in Unspent : built' = built \cup {<<n, c>>} /\ bump' = bump /\ pc = "up"
      BY <2>3 DEF Fund, Handles
    <3>2. QED
      BY <2>2, <3>1 DEF Chosen
  <2>4. ASSUME NEW n \in 1..MaxBuilt, BumpList(n)
        PROVE  A
    <3>1. PICK c \in Unspent : /\ bump' = [event |-> n, coin |-> c, step |-> "listed"]
                               /\ built' = built /\ pc = "up"
      BY <2>4 DEF BumpList, Handles
    <3>2. QED
      BY <2>2, <3>1 DEF Chosen
  <2>5. CASE BumpChange
    <3>1. bump'.event = bump.event /\ bump'.coin = bump.coin /\ built' = built
      BY <2>5 DEF BumpChange, Inv, Types, TypeOK, Bumps
    <3>2. QED
      BY <3>1 DEF Chosen
  <2>6. CASE BumpSign
    BY <2>1, <2>6 DEF BumpSign, NoBump, Chosen
  <2>7. CASE bump' = NoBump /\ built' = built
    BY <2>1, <2>7 DEF NoBump, Chosen
  <2>8. CASE UNCHANGED <<bump, built>>
    BY <2>8 DEF Chosen
  <2>9. QED
    BY <2>3, <2>4, <2>5, <2>6, <2>7, <2>8
       DEF Next, StartUp, Load, FullScan, FullScanUnpersisted, FullScanFails, Sync,
           SyncUnpersisted, GetAddress, Crash, FundAborts, Gone, BroadcastTransactions,
           Send, SendFails, Pay
<1>2. QED
  BY <1>1, InvHolds, PTL DEF Spec, ReportedNotReused
================================================================================
