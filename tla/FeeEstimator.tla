----------------------------- MODULE FeeEstimator -----------------------------
(***************************************************************************)
(* The fee estimates of BitcoindClient (bitcoind_client.rs): a poller asks *)
(* bitcoind five questions, one RPC after another, and stores eight fee    *)
(* rates one after another, while LDK reads any of them at any moment.     *)
(* Rates are satoshis per 1000 weight units, u32 in the code; bitcoind     *)
(* answers in BTC per 1000 virtual bytes, here whole satoshis.             *)
(***************************************************************************)
EXTENDS Naturals

CONSTANTS
    Quotes,       \* bitcoind's possible answers: each [Queries -> Nat or NoRate]
    NoRate,       \* an answer without a rate
    Word,         \* 2^32 in the code; the instance uses a smaller power of two
    MaxChanges    \* bound: how often bitcoind's answers change

MIN_FEERATE == 253

\* The RPCs in the order of the calls: getmempoolinfo, then estimatesmartfee
\* for 144, 18, 6 and 2 blocks.
RpcOrder == <<"mempoolmin", "background", "normal", "high_prio", "very_high_prio">>
Queries == {RpcOrder[n] : n \in 1..5}

\* The targets in the order of the stores.
StoreOrder == <<"MaximumFeeEstimate", "UrgentOnChainSweep", "MinAllowedAnchorChannelRemoteFee",
                "MinAllowedNonAnchorChannelRemoteFee", "AnchorChannelFee", "NonAnchorChannelFee",
                "ChannelCloseMinimum", "OutputSpendingFee">>
Targets == {StoreOrder[n] : n \in 1..8}

ASSUME FeeAssumption ==
    /\ Word \in Nat /\ Word > 50000 /\ MaxChanges \in Nat /\ NoRate \notin Nat
    /\ Quotes \subseteq [Queries -> Nat \cup {NoRate}] /\ Quotes # {}

VARIABLES
    fees,      \* the shared map: [Targets -> rate]
    pc,        \* the poller: <<"rpc", n>>, <<"store", n>> or <<"sleep", 0>>
    est,       \* its local estimates of this round
    quote,     \* what bitcoind answers at the moment
    changes,
    aborted    \* the process is over: an unwrap or an assertion failed

vars == <<fees, pc, est, quote, changes, aborted>>

-----------------------------------------------------------------------------
\* Mutant: the cast keeps the value.
SatPerKwWide(btcPerKvb) == (btcPerKvb + 2) \div 4

\* FeeResponse and MempoolMinFeeResponse: times 10^8, divided by 4, rounded
\* half up; the cast to u32 saturates.
SatPerKw(btcPerKvb) ==
    LET r == (btcPerKvb + 2) \div 4 IN IF r < Word THEN r ELSE Word - 1

Default(q) ==
    CASE q = "mempoolmin" -> MIN_FEERATE
      [] q = "background" -> MIN_FEERATE
      [] q = "normal" -> 2000
      [] q = "high_prio" -> 5000
      [] q = "very_high_prio" -> 50000

\* Mutant: the floor is applied to missing answers only.
EstimateNoFloor(q, answer) == IF answer = NoRate THEN Default(q) ELSE SatPerKw(answer)

\* The estimate the poller makes of an answer.
Estimate(q, answer) ==
    IF answer = NoRate THEN Default(q)
    ELSE IF SatPerKw(answer) > MIN_FEERATE THEN SatPerKw(answer) ELSE MIN_FEERATE

\* Mutant: the remote minimum is taken from the wrong estimate.
RateFromNormal(t, e) ==
    CASE t = "MaximumFeeEstimate" -> e["very_high_prio"]
      [] t = "UrgentOnChainSweep" -> e["high_prio"]
      [] t = "MinAllowedAnchorChannelRemoteFee" -> e["mempoolmin"]
      [] t = "MinAllowedNonAnchorChannelRemoteFee" -> (e["normal"] + Word - 250) % Word
      [] t = "NonAnchorChannelFee" -> e["normal"]
      [] OTHER -> e["background"]

\* What a round stores for a target; u32 subtraction wraps without overflow
\* checks.
Rate(t, e) ==
    CASE t = "MaximumFeeEstimate" -> e["very_high_prio"]
      [] t = "UrgentOnChainSweep" -> e["high_prio"]
      [] t = "MinAllowedAnchorChannelRemoteFee" -> e["mempoolmin"]
      [] t = "MinAllowedNonAnchorChannelRemoteFee" -> (e["background"] + Word - 250) % Word
      [] t = "NonAnchorChannelFee" -> e["normal"]
      [] OTHER -> e["background"]

\* The map before the first round.
InitialFees ==
    [t \in Targets |-> CASE t = "MaximumFeeEstimate" -> 50000
                         [] t = "UrgentOnChainSweep" -> 5000
                         [] t = "NonAnchorChannelFee" -> 2000
                         [] OTHER -> MIN_FEERATE]

Init ==
    /\ fees = InitialFees
    /\ pc = <<"rpc", 1>> /\ est = [q \in Queries |-> 0]
    /\ quote \in Quotes /\ changes = 0 /\ aborted = FALSE

-----------------------------------------------------------------------------
Rpc ==
    /\ ~aborted /\ pc[1] = "rpc"
    /\ LET q == RpcOrder[pc[2]] IN est' = [est EXCEPT ![q] = Estimate(q, quote[q])]
    /\ pc' = IF pc[2] = 5 THEN <<"store", 1>> ELSE <<"rpc", pc[2] + 1>>
    /\ UNCHANGED <<fees, quote, changes, aborted>>

\* The RPC fails, or getmempoolinfo reports another maxmempool than the one
\* asserted: the node aborts.
RpcFails ==
    /\ ~aborted /\ pc[1] = "rpc"
    /\ aborted' = TRUE
    /\ UNCHANGED <<fees, pc, est, quote, changes>>

\* Mutant: the last store of a round is missing.
StoreSeven ==
    /\ ~aborted /\ pc[1] = "store"
    /\ fees' = [fees EXCEPT ![StoreOrder[pc[2]]] = Rate(StoreOrder[pc[2]], est)]
    /\ pc' = IF pc[2] = 7 THEN <<"sleep", 0>> ELSE <<"store", pc[2] + 1>>
    /\ UNCHANGED <<est, quote, changes, aborted>>

Store ==
    /\ ~aborted /\ pc[1] = "store"
    /\ fees' = [fees EXCEPT ![StoreOrder[pc[2]]] = Rate(StoreOrder[pc[2]], est)]
    /\ pc' = IF pc[2] = 8 THEN <<"sleep", 0>> ELSE <<"store", pc[2] + 1>>
    /\ UNCHANGED <<est, quote, changes, aborted>>

Wake ==
    /\ ~aborted /\ pc[1] = "sleep"
    /\ pc' = <<"rpc", 1>>
    /\ UNCHANGED <<fees, est, quote, changes, aborted>>

\* bitcoind's view of the mempool changes.
Change ==
    /\ changes < MaxChanges
    /\ changes' = changes + 1
    /\ quote' \in Quotes \ {quote}
    /\ UNCHANGED <<fees, pc, est, aborted>>

Aborted == aborted /\ UNCHANGED vars

Poll == Rpc \/ Store \/ Wake
Next == Poll \/ RpcFails \/ Change \/ Aborted

Spec == Init /\ [][Next]_vars

\* The runtime polls the task; RPCs end, in an answer or an error.
LiveSpec == Spec /\ WF_vars(Poll)

-----------------------------------------------------------------------------
\* Types: what get_est_sat_per_1000_weight may return is a u32.
TypeOK ==
    /\ fees \in [Targets -> 0..(Word - 1)]
    /\ est \in [Queries -> 0..(Word - 1)]
    /\ pc \in {"rpc"} \X (1..5) \cup {"store"} \X (1..8) \cup {<<"sleep", 0>>}
    /\ quote \in Quotes /\ aborted \in BOOLEAN

\* "The minimum feerate we are allowed to send": no rate LDK uses for its own
\* transactions is below it, whatever bitcoind answers and however the answer
\* rounds.
FloorKept ==
    \A t \in Targets \ {"MinAllowedNonAnchorChannelRemoteFee"} : fees[t] >= MIN_FEERATE

\* The least rate accepted from the peer of a channel without anchors stays
\* below the node's own background rate, except between the stores of the two:
\* the subtraction of 250 never wraps to a rate no peer could meet.
RemoteMinimumBelowOwn ==
    pc # <<"store", 5>> =>
        fees["MinAllowedNonAnchorChannelRemoteFee"] <= fees["AnchorChannelFee"]

\* Once bitcoind's answers stay the same, all eight rates come to agree with
\* them for good, unless an RPC fails and takes the node down.
FeesFollow ==
    <>[](aborted \/ \A t \in Targets :
            fees[t] = Rate(t, [q \in Queries |-> Estimate(q, quote[q])]))
===============================================================================
