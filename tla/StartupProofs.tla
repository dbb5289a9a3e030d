----------------------------- MODULE StartupProofs -----------------------------
(***************************************************************************)
(* Proofs about the start and the fee estimator (Startup, which extends    *)
(* Args and FeeEstimator): for all answers of bitcoind, any word that      *)
(* holds the default rates, and all command lines and environments.        *)
(***************************************************************************)
EXTENDS Startup, TLAPS

-----------------------------------------------------------------------------
(***************************************************************************)
(* The rates.                                                              *)
(***************************************************************************)
\* What the poller makes of an answer of bitcoind is a u32 and not below the
\* floor.
LEMMA EstimateRange ==
    ASSUME FeeAssumption, NEW q \in Queries, NEW answer \in Nat \cup {NoRate}
    PROVE  Estimate(q, answer) \in MIN_FEERATE..(Word - 1)
<1>1. q \in {"mempoolmin", "background", "normal", "high_prio", "very_high_prio"}
  BY DEF Queries, RpcOrder
<1>2. Default(q) \in MIN_FEERATE..(Word - 1)
  BY <1>1 DEF Default, MIN_FEERATE, FeeAssumption
<1>3. ASSUME answer # NoRate
      PROVE  SatPerKw(answer) \in 0..(Word - 1)
  BY <1>3 DEF SatPerKw, FeeAssumption
<1>4. QED
  BY <1>2, <1>3 DEF Estimate, MIN_FEERATE, FeeAssumption

\* The subtraction of 250 from an estimate does not wrap.
LEMMA NoWrap ==
    ASSUME FeeAssumption, NEW e \in MIN_FEERATE..(Word - 1)
    PROVE  (e + Word - 250) % Word = e - 250
BY DEF MIN_FEERATE, FeeAssumption

\* The rates a round stores are u32s; all but one are not below the floor, and
\* that one is below the background rate.
LEMMA RateRange ==
    ASSUME FeeAssumption, NEW e \in [Queries -> 0..(Word - 1)],
           \A q \in Queries : e[q] >= MIN_FEERATE,
           NEW t \in Targets
    PROVE  /\ Rate(t, e) \in 0..(Word - 1)
           /\ t # "MinAllowedNonAnchorChannelRemoteFee" => Rate(t, e) >= MIN_FEERATE
           /\ t = "MinAllowedNonAnchorChannelRemoteFee" => Rate(t, e) <= e["background"]
           /\ t = "AnchorChannelFee" => Rate(t, e) = e["background"]
<1>1. \A q \in {"mempoolmin", "background", "normal", "high_prio", "very_high_prio"} :
         e[q] \in MIN_FEERATE..(Word - 1)
  BY DEF Queries, RpcOrder, FeeAssumption, MIN_FEERATE
<1>2. CASE t = "MinAllowedNonAnchorChannelRemoteFee"
  <2>1. Rate(t, e) = e["background"] - 250
    BY <1>1, <1>2, NoWrap DEF Rate
  <2>2. QED
    BY <1>1, <1>2, <2>1 DEF MIN_FEERATE, FeeAssumption
<1>3. CASE t # "MinAllowedNonAnchorChannelRemoteFee"
  <2>1. Rate(t, e) \in {e[q] : q \in {"mempoolmin", "background", "normal",
                                      "high_prio", "very_high_prio"}}
    BY <1>3 DEF Rate
  <2>2. Rate(t, e) \in MIN_FEERATE..(Word - 1)
    BY <1>1, <2>1
  <2>3. t = "AnchorChannelFee" => Rate(t, e) = e["background"]
    BY DEF Rate
  <2>4. QED
    BY <1>3, <2>2, <2>3 DEF MIN_FEERATE, FeeAssumption
<1>4. QED
  BY <1>2, <1>3

-----------------------------------------------------------------------------
(***************************************************************************)
(* The invariant of the fee estimator.                                     *)
(***************************************************************************)
\* The estimates that the poller has made in this round are not below the
\* floor.  All of them have been made when it stores the first rate.
Estimated ==
    \A k \in 1..5 :
        pc[1] = "store" \/ (pc[1] = "rpc" /\ k < pc[2]) => est[RpcOrder[k]] >= MIN_FEERATE

\* Between the two stores the remote minimum is compared with the rate that
\* is about to be stored.
Below ==
    fees["MinAllowedNonAnchorChannelRemoteFee"]
        <= IF pc = <<"store", 5>> THEN est["background"] ELSE fees["AnchorChannelFee"]

FeeInv == TypeOK /\ Estimated /\ FloorKept /\ Below

\* The initial rates and estimates satisfy it.
LEMMA FeeInit == FeeAssumption /\ Init => FeeInv
<1>1. Init => aborted \in BOOLEAN
  BY DEF Init
<1> SUFFICES ASSUME FeeAssumption, Init
             PROVE  FeeInv
  OBVIOUS
<1>2. fees \in [Targets -> 0..(Word - 1)] /\ est \in [Queries -> 0..(Word - 1)]
  BY DEF Init, InitialFees, FeeAssumption, MIN_FEERATE
<1>3. TypeOK
  <2>1. pc \in {"rpc"} \X (1..5)
    BY DEF Init
  <2>2. quote \in Quotes
    BY DEF Init
  <2>3. aborted \in BOOLEAN
    BY <1>1
  <2>4. QED
    BY <1>2, <2>1, <2>2, <2>3 DEF TypeOK
<1>4. FloorKept
  BY DEF FloorKept, Init, InitialFees, MIN_FEERATE
<1>5. Estimated
  BY DEF Estimated, Init
<1>6. Below
  <2>1. "MinAllowedNonAnchorChannelRemoteFee" \in Targets /\ "AnchorChannelFee" \in Targets
    BY DEF Targets, StoreOrder
  <2>2. /\ fees["MinAllowedNonAnchorChannelRemoteFee"] = MIN_FEERATE
        /\ fees["AnchorChannelFee"] = MIN_FEERATE
    BY <2>1 DEF Init, InitialFees
  <2>3. pc # <<"store", 5>>
    BY DEF Init
  <2>4. QED
    BY <2>2, <2>3 DEF Below, MIN_FEERATE
<1>7. QED
  BY <1>3, <1>4, <1>5, <1>6 DEF FeeInv

\* The five questions are different ones.
LEMMA RpcOrderInjective ==
    \A j, k \in 1..5 : RpcOrder[j] = RpcOrder[k] => j = k
BY DEF RpcOrder

\* The answer to an RPC.
LEMMA RpcStep == FeeAssumption /\ FeeInv /\ Rpc => FeeInv'
<1> SUFFICES ASSUME FeeAssumption, FeeInv, Rpc
             PROVE  FeeInv'
  OBVIOUS
<1> DEFINE k == pc[2]
           q == RpcOrder[k]
<1>1. pc = <<"rpc", k>> /\ k \in 1..5
  BY DEF FeeInv, TypeOK, Rpc
<1>2. q \in Queries
  BY <1>1 DEF Queries
<1>3. quote[q] \in Nat \cup {NoRate}
  BY <1>2 DEF FeeInv, TypeOK, FeeAssumption
<1>4. Estimate(q, quote[q]) \in MIN_FEERATE..(Word - 1)
  <2> DEFINE a == quote[q]
  <2>1. a \in Nat \cup {NoRate}
    BY <1>3
  <2> HIDE DEF q, a
  <2>2. Estimate(q, a) \in MIN_FEERATE..(Word - 1)
    BY <1>2, <2>1, EstimateRange
  <2> USE DEF a
  <2>3. QED
    BY <2>2
<1>5. est' = [est EXCEPT ![q] = Estimate(q, quote[q])]
  BY DEF Rpc
<1>6. est' \in [Queries -> 0..(Word - 1)] /\ est'[q] >= MIN_FEERATE
  BY <1>2, <1>4, <1>5 DEF FeeInv, TypeOK, MIN_FEERATE, FeeAssumption
<1>7. pc' = IF k = 5 THEN <<"store", 1>> ELSE <<"rpc", k + 1>>
  BY DEF Rpc
<1>8. TypeOK'
  BY <1>1, <1>6, <1>7 DEF FeeInv, TypeOK, Rpc
<1>9. Estimated'
  <2> SUFFICES ASSUME NEW j \in 1..5, j <= k
               PROVE  est'[RpcOrder[j]] >= MIN_FEERATE
    BY <1>1, <1>7 DEF Estimated
  <2>1. CASE j = k
    BY <1>6, <2>1
  <2>2. CASE j < k
    <3>1. est[RpcOrder[j]] >= MIN_FEERATE
      BY <1>1, <2>2 DEF FeeInv, Estimated
    <3>2. RpcOrder[j] # q
      BY <1>1, <2>2, RpcOrderInjective
    <3>3. RpcOrder[j] \in Queries
      BY DEF Queries
    <3>4. est'[RpcOrder[j]] = est[RpcOrder[j]]
      BY <1>5, <3>2, <3>3 DEF FeeInv, TypeOK
    <3>5. QED
      BY <3>1, <3>4
  <2>3. QED
    BY <1>1, <2>1, <2>2
<1>10. FloorKept' /\ Below'
  <2>1. pc # <<"store", 5>> /\ pc' # <<"store", 5>>
    BY <1>1, <1>7
  <2>2. QED
    BY <2>1 DEF FeeInv, FloorKept, Below, Rpc
<1>11. QED
  BY <1>8, <1>9, <1>10 DEF FeeInv

\* The store of a rate.
LEMMA StoreStep == FeeAssumption /\ FeeInv /\ Store => FeeInv'
<1> SUFFICES ASSUME FeeAssumption, FeeInv, Store
             PROVE  FeeInv'
  OBVIOUS
<1> DEFINE k == pc[2]
           t == StoreOrder[k]
<1>1. pc = <<"store", k>> /\ k \in 1..8
  BY DEF FeeInv, TypeOK, Store
<1>2. t \in Targets
  BY <1>1 DEF Targets
<1>3. est \in [Queries -> 0..(Word - 1)] /\ fees \in [Targets -> 0..(Word - 1)]
  BY DEF FeeInv, TypeOK
<1>4. \A j \in Queries : est[j] >= MIN_FEERATE
  BY <1>1 DEF FeeInv, Estimated, Queries
<1>5. /\ Rate(t, est) \in 0..(Word - 1)
      /\ t # "MinAllowedNonAnchorChannelRemoteFee" => Rate(t, est) >= MIN_FEERATE
      /\ t = "MinAllowedNonAnchorChannelRemoteFee" => Rate(t, est) <= est["background"]
      /\ t = "AnchorChannelFee" => Rate(t, est) = est["background"]
  BY <1>2, <1>3, <1>4, RateRange
<1>6. fees' = [fees EXCEPT ![t] = Rate(t, est)]
  BY DEF Store
<1>7. pc' = IF k = 8 THEN <<"sleep", 0>> ELSE <<"store", k + 1>>
  BY DEF Store
<1>8. TypeOK'
  BY <1>1, <1>2, <1>3, <1>5, <1>6, <1>7 DEF FeeInv, TypeOK, Store
<1>9. Estimated'
  BY <1>1, <1>7 DEF FeeInv, Estimated, Store
<1>10. FloorKept'
  BY <1>2, <1>3, <1>5, <1>6 DEF FeeInv, FloorKept
<1>11. Below'
  <2> DEFINE min == "MinAllowedNonAnchorChannelRemoteFee"
             own == "AnchorChannelFee"
  <2>1. min \in Targets /\ own \in Targets
    BY DEF Targets, StoreOrder
  <2>2. (t = min <=> k = 4) /\ (t = own <=> k = 5)
    BY <1>1 DEF StoreOrder
  <2>3. (pc = <<"store", 5>> <=> k = 5) /\ (pc' = <<"store", 5>> <=> k = 4)
    BY <1>1, <1>7
  <2>4. UNCHANGED est
    BY DEF Store
  <2>5. CASE k = 4
    BY <1>3, <1>5, <1>6, <2>1, <2>2, <2>3, <2>4, <2>5 DEF Below
  <2>6. CASE k = 5
    <3>1. fees[min] <= est["background"]
      BY <2>3, <2>6 DEF FeeInv, Below
    <3>2. fees'[min] = fees[min] /\ fees'[own] = est["background"]
      BY <1>3, <1>5, <1>6, <2>1, <2>2, <2>6
    <3>3. QED
      BY <2>3, <2>6, <3>1, <3>2 DEF Below
  <2>7. CASE k \notin {4, 5}
    <3>1. fees'[min] = fees[min] /\ fees'[own] = fees[own]
      BY <1>3, <1>6, <2>1, <2>2, <2>7
    <3>2. QED
      BY <2>3, <2>7, <3>1 DEF FeeInv, Below
  <2>8. QED
    BY <2>5, <2>6, <2>7
<1>12. QED
  BY <1>8, <1>9, <1>10, <1>11 DEF FeeInv

\* The other steps of the poller, of bitcoind and of the start.
LEMMA OtherFeeSteps ==
    ASSUME FeeInv, aborted' \in BOOLEAN,
           \/ Wake \/ RpcFails \/ Change
           \/ UNCHANGED <<fees, pc, est, quote>>
    PROVE  FeeInv'
<1>1. TypeOK'
  BY DEF FeeInv, TypeOK, Wake, RpcFails, Change
<1>2. Estimated'
  BY DEF FeeInv, Estimated, Wake, RpcFails, Change
<1>3. FloorKept'
  BY DEF FeeInv, FloorKept, Wake, RpcFails, Change
<1>4. Below'
  <2>1. CASE Wake
    <3>1. pc # <<"store", 5>> /\ pc' # <<"store", 5>>
      BY <2>1 DEF Wake
    <3>2. QED
      BY <2>1, <3>1 DEF FeeInv, Below, Wake
  <2>2. CASE UNCHANGED <<fees, pc, est>>
    BY <2>2 DEF FeeInv, Below
  <2>3. QED
    BY <2>1, <2>2 DEF RpcFails, Change
<1>5. QED
  BY <1>1, <1>2, <1>3, <1>4 DEF FeeInv

\* Every step of the start and of the poller keeps it.
LEMMA FeeStep == FeeAssumption /\ FeeInv /\ [StartNext]_allvars => FeeInv'
<1> SUFFICES ASSUME FeeAssumption, FeeInv, [StartNext]_allvars
             PROVE  FeeInv'
  OBVIOUS
<1> USE OtherFeeSteps
<1>1. aborted \in BOOLEAN
  BY DEF FeeInv, TypeOK
<1>2. CASE ParseArgs
  <2>1. UNCHANGED <<fees, pc, est, quote>>
    BY <1>2 DEF ParseArgs
  <2>2. aborted' = aborted \/ aborted' = TRUE
    BY <1>2 DEF ParseArgs
  <2>3. aborted' \in BOOLEAN
    <3>1. aborted' = aborted => aborted' \in BOOLEAN
      BY <1>1
    <3>2. aborted' = TRUE => aborted' \in BOOLEAN
      OBVIOUS
    <3>3. QED
      BY <2>2, <3>1, <3>2
  <2>4. QED
    BY <2>1, <2>3
<1>3. CASE UNCHANGED vars
  BY <1>1, <1>3 DEF vars
<1>4. CASE Over
  BY <1>4 DEF Over
<1>5. CASE Polling
  <2>1. CASE Rpc
    BY <2>1, RpcStep
  <2>2. CASE Store
    BY <2>2, StoreStep
  <2>3. CASE Wake
    BY <1>1, <2>3 DEF Wake
  <2>4. CASE RpcFails
    BY <2>4 DEF RpcFails
  <2>5. CASE Change
    BY <1>1, <2>5 DEF Change
  <2>6. QED
    BY <1>5, <2>1, <2>2, <2>3, <2>4, <2>5 DEF Polling, Poll
<1>6. QED
  BY <1>2, <1>3, <1>4, <1>5
     DEF StartNext, Start, NewClient, ClientFails, CheckNetwork, Ended, allvars

\* It holds in every state of every run.
LEMMA FeeInvHolds == StartSpec => []FeeInv
<1>1. StartInit => FeeInv
  BY FeeAssumption, FeeInit DEF StartInit
<1>2. FeeInv /\ [StartNext]_allvars => FeeInv'
  BY FeeAssumption, FeeStep
<1>3. QED
  BY <1>1, <1>2, PTL DEF StartSpec

\* Every rate that get_est_sat_per_1000_weight may read is a u32, at every
\* point of a round of the poller.
THEOREM TypeCorrect == StartSpec => []TypeOK
<1>1. FeeInv => TypeOK
  BY DEF FeeInv
<1>2. QED
  BY <1>1, FeeInvHolds, PTL

\* No rate that LDK uses for its own transactions is ever below MIN_FEERATE,
\* for all answers of bitcoind and every interleaving of reads and stores.
THEOREM RatesAboveFloor == StartSpec => []FloorKept
<1>1. FeeInv => FloorKept
  BY DEF FeeInv
<1>2. QED
  BY <1>1, FeeInvHolds, PTL

\* The subtraction of 250 never wraps, and the least rate accepted from a peer
\* stays below the node's own but between the two stores.
THEOREM PeersCanMeetMinimum == StartSpec => []RemoteMinimumBelowOwn
<1>1. FeeInv => RemoteMinimumBelowOwn
  BY DEF FeeInv, Below, RemoteMinimumBelowOwn
<1>2. QED
  BY <1>1, FeeInvHolds, PTL

-----------------------------------------------------------------------------
(***************************************************************************)
(* The arguments.                                                          *)
(***************************************************************************)
\* The credentials it takes are in a place that has them, and it finds some
\* if any place that it looks at has them.
LEMMA AuthFound ==
    ASSUME NEW first \in Firsts, NEW net \in Networks, NEW env \in Environments
    PROVE  /\ RpcAuth(first, net, env) # "none" =>
                  RpcAuth(first, net, env) \in SourcesWithNetworkCookie(first, net, env)
           /\ SourcesWithNetworkCookie(first, net, env) # {} => RpcAuth(first, net, env) # "none"
<1>1. first.auth \in {"absent", "pair", "malformed"}
  BY DEF Firsts
<1>2. QED
  BY <1>1 DEF RpcAuth, SourcesWithNetworkCookie, HelpSources, CookieAuth

\* What the index of parse_startup_args amounts to: the reading of the usage
\* line that it takes.
Taken(rest) ==
    <<IF PortSet(rest) THEN 1 ELSE 0,
      IF Has(rest, NetworkIdx(rest)) THEN 1 ELSE 0,
      IF Has(rest, NetworkIdx(rest) + 1) THEN 1 ELSE 0>>

\* The settings it returns are the meaning of that reading.
LEMMA TakenMeans ==
    ASSUME NEW cmd \in [first : Firsts, rest : Seq(Words)], NEW env, cmd.rest # <<>>
    PROVE  LET s == Settings(cmd, env)
           IN  [f \in DOMAIN s \ {"result", "auth"} |-> s[f]]
                  = Meaning(cmd.rest, Taken(cmd.rest))
<1> DEFINE rest == cmd.rest
           n == NetworkIdx(rest)
           r == Taken(rest)
           s == Settings(cmd, env)
           m == n + r[2]
<1>1. rest \in Seq(Words) /\ Len(rest) \in Nat /\ Len(rest) >= 1
  OBVIOUS
<1>2. n \in {2, 3} /\ n = 2 + r[1]
  BY DEF NetworkIdx, Taken
<1>3. r[1] = 1 <=> PortSet(rest)
  BY DEF Taken
<1>4. (r[2] = 1 <=> n <= Len(rest)) /\ r[2] \in {0, 1}
  BY DEF Taken, Has
<1>5. (r[3] = 1 <=> n + 1 <= Len(rest)) /\ r[3] \in {0, 1}
  BY DEF Taken, Has
<1>6. SubSeq(rest, n + 2, Len(rest)) = SubSeq(rest, m + 1, Len(rest))
  <2> HIDE DEF n, r, rest
  <2>1. CASE r[2] = 1
    <3>1. m + 1 = n + 2
      BY <1>2, <2>1
    <3>2. QED
      BY <3>1
  <2>2. CASE r[2] = 0
    <3>1. SubSeq(rest, n + 2, Len(rest)) = <<>>
      BY <1>1, <1>2, <1>4, <2>2
    <3>2. SubSeq(rest, m + 1, Len(rest)) = <<>>
      BY <1>1, <1>2, <1>4, <2>2
    <3>3. QED
      BY <3>1, <3>2
  <2>3. QED
    BY <1>4, <2>1, <2>2
<1> DEFINE v == Meaning(rest, r)
           F == {"dir", "port", "network", "name", "addrs"}
<1>7. DOMAIN s \ {"result", "auth"} = F
  BY DEF Settings
<1>8. v = [f \in F |-> v[f]]
  BY DEF Meaning
<1>9. s.dir = v.dir /\ s.port = v.port
  BY <1>3 DEF Settings, Meaning
<1>10. s.network = v.network
  <2>1. s.network = IF n <= Len(rest) THEN rest[n] ELSE "testnet"
    BY DEF Settings, Network, Has
  <2>2. v.network = IF r[2] = 1 THEN rest[n] ELSE "testnet"
    BY <1>2 DEF Meaning
  <2>3. QED
    BY <2>1, <2>2, <1>4
<1>11. s.name = v.name
  <2>1. s.name = IF n + 1 <= Len(rest) THEN rest[n + 1] ELSE NoName
    BY DEF Settings, Has
  <2>2. v.name = IF r[3] = 1 THEN rest[m] ELSE NoName
    BY <1>2 DEF Meaning
  <2>3. r[3] = 1 => m = n + 1
    <3> HIDE DEF n, r, rest
    <3>1. QED
      BY <1>1, <1>2, <1>4, <1>5
  <2>4. QED
    BY <2>1, <2>2, <2>3, <1>5
<1>12. s.addrs = v.addrs
  <2>1. s.addrs = SubSeq(rest, n + 2, Len(rest))
    BY DEF Settings
  <2>2. v.addrs = SubSeq(rest, m + 1, Len(rest))
    BY <1>2 DEF Meaning
  <2>3. QED
    BY <2>1, <2>2, <1>6
<1>13. \A f \in F : s[f] = v[f]
  <2> HIDE DEF s, v
  <2>1. QED
    BY <1>9, <1>10, <1>11, <1>12
<1> HIDE DEF s, v, F
<1>14. [f \in DOMAIN s \ {"result", "auth"} |-> s[f]] = v
  BY <1>7, <1>8, <1>13
<1>15. QED
  BY <1>14 DEF s, v

\* The usage line allows that reading, if the network is one and what follows
\* it is a name and addresses.
LEMMA TakenReads ==
    ASSUME ArgsAssumption, NEW rest \in Seq(Words), rest # <<>>,
           Network(rest) \in Networks, ~BadTail(rest)
    PROVE  Taken(rest) \in Readings /\ Reads(rest, Taken(rest))
<1> DEFINE n == NetworkIdx(rest)
           r == Taken(rest)
           m == n + r[2]
           v == Meaning(rest, r)
<1>1. Len(rest) \in Nat /\ Len(rest) >= 1
  OBVIOUS
<1>2. n \in {2, 3} /\ n = 2 + r[1] /\ (n = 3 => 2 <= Len(rest))
  BY DEF NetworkIdx, Taken, PortSet, Has
<1>3. r[1] \in {0, 1} /\ (r[1] = 1 <=> PortSet(rest))
  BY DEF Taken
<1>4. (r[2] = 1 <=> n <= Len(rest)) /\ r[2] \in {0, 1}
  BY DEF Taken, Has
<1>5. (r[3] = 1 <=> n + 1 <= Len(rest)) /\ r[3] \in {0, 1}
  BY DEF Taken, Has
<1>6. r \in Readings
  BY DEF Taken, Readings
<1>7. Has(rest, 1 + r[1] + r[2] + r[3]) /\ (r[3] = 0 => Len(rest) = 1 + r[1] + r[2] + r[3])
  <2> HIDE DEF n, r
  <2>1. QED
    BY <1>1, <1>2, <1>3, <1>4, <1>5 DEF Has
<1>8. v.port \in Ports \cup {"9735"}
  BY <1>3 DEF Meaning, PortSet
<1>9. v.network \in Networks
  <2>1. v.network = IF r[2] = 1 THEN rest[n] ELSE "testnet"
    BY <1>2 DEF Meaning
  <2>2. Network(rest) = IF n <= Len(rest) THEN rest[n] ELSE "testnet"
    BY DEF Network, Has
  <2>3. QED
    BY <2>1, <2>2, <1>4
<1>10. v.name \notin LongNames
  <2>1. v.name = IF r[3] = 1 THEN rest[m] ELSE NoName
    BY <1>2 DEF Meaning
  <2>2. r[3] = 1 => m = n + 1
    <3> HIDE DEF n, r
    <3>1. QED
      BY <1>1, <1>2, <1>4, <1>5
  <2>3. n + 1 <= Len(rest) => rest[n + 1] \notin LongNames
    BY DEF BadTail, Has
  <2>4. QED
    BY <2>1, <2>2, <2>3, <1>5 DEF ArgsAssumption
<1>11. \A i \in DOMAIN v.addrs : v.addrs[i] \in Addresses
  <2>1. v.addrs = SubSeq(rest, m + 1, Len(rest))
    BY <1>2 DEF Meaning
  <2>2. \A i \in n + 2 .. Len(rest) : rest[i] \in Addresses
    BY DEF BadTail
  <2> HIDE DEF n, r, v
  <2>3. CASE r[2] = 1
    <3>1. m + 1 = n + 2
      BY <1>2, <2>3
    <3> SUFFICES ASSUME NEW i \in DOMAIN v.addrs
                 PROVE  v.addrs[i] \in Addresses
      OBVIOUS
    <3>2. /\ i \in 1..(Len(rest) - (n + 2) + 1)
          /\ v.addrs[i] = rest[n + 2 + i - 1]
      BY <1>1, <1>2, <2>1, <3>1
    <3>3. n + 2 + i - 1 \in n + 2 .. Len(rest)
      BY <1>1, <1>2, <3>2
    <3>4. QED
      BY <2>2, <3>2, <3>3
  <2>4. CASE r[2] = 0
    <3>1. SubSeq(rest, m + 1, Len(rest)) = <<>>
      BY <1>1, <1>2, <1>4, <2>4
    <3>2. v.addrs = <<>> /\ DOMAIN <<>> = {}
      BY <2>1, <3>1
    <3>3. QED
      BY <3>2
  <2>5. QED
    BY <1>4, <2>3, <2>4
<1> HIDE DEF n, r, v
<1>12. Reads(rest, r)
  BY <1>7, <1>8, <1>9, <1>10, <1>11 DEF Reads, v
<1>13. QED
  BY <1>6, <1>12 DEF r

\* Where a reading of the usage line gives a name only behind a network, the
\* index finds the same network, and what follows it is in order.
LEMMA ReadingFound ==
    ASSUME ArgsAssumption, NEW rest \in Seq(Words), NEW r \in Readings,
           Reads(rest, r), NetworkBeforeName(r)
    PROVE  /\ rest # <<>> /\ ~BadTail(rest)
           /\ Network(rest) = Meaning(rest, r).network
           /\ Network(rest) \in Networks
<1> DEFINE n == NetworkIdx(rest)
           m == 2 + r[1] + r[2]
           last == 1 + r[1] + r[2] + r[3]
           v == Meaning(rest, r)
<1>1. r[1] \in {0, 1} /\ r[2] \in {0, 1} /\ r[3] \in {0, 1} /\ (r[3] = 1 => r[2] = 1)
  BY DEF Readings, NetworkBeforeName
<1>2. Len(rest) \in Nat /\ last <= Len(rest) /\ (r[3] = 0 => Len(rest) = last)
  BY DEF Reads, Has
<1>3. /\ v.port \in Ports \cup {"9735"} /\ v.network \in Networks
      /\ v.name \notin LongNames
      /\ \A i \in DOMAIN v.addrs : v.addrs[i] \in Addresses
  BY DEF Reads
<1>4. rest # <<>>
  <2>1. Len(rest) >= 1
    BY <1>1, <1>2
  <2>2. QED
    BY <2>1
<1>5. n = 2 + r[1]
  <2>1. CASE r[1] = 1
    <3>1. 2 <= Len(rest) /\ rest[2] \in Words
      BY <1>1, <1>2, <2>1
    <3>2. rest[2] \in Ports
      BY <1>3, <2>1, <3>1 DEF Meaning, ArgsAssumption
    <3>3. QED
      BY <2>1, <3>1, <3>2 DEF NetworkIdx, PortSet, Has
  <2>2. CASE r[1] = 0
    <3>1. ~PortSet(rest)
      <4>1. CASE r[2] = 1
        <5>1. v.network = rest[2]
          BY <2>2, <4>1 DEF Meaning
        <5>2. QED
          BY <1>3, <5>1 DEF PortSet, ArgsAssumption
      <4>2. CASE r[2] = 0
        <5>1. r[3] = 0
          BY <1>1, <4>2
        <5>2. Len(rest) = 1
          <6> HIDE DEF v
          <6>1. QED
            BY <1>2, <2>2, <4>2, <5>1
        <5>3. QED
          BY <5>2 DEF PortSet, Has
      <4>3. QED
        BY <1>1, <4>1, <4>2
    <3>2. QED
      BY <2>2, <3>1 DEF NetworkIdx
  <2>3. QED
    BY <1>1, <2>1, <2>2
<1>6. r[2] = 1 <=> n <= Len(rest)
  BY <1>1, <1>2, <1>5
<1>7. r[3] = 1 <=> n + 1 <= Len(rest)
  BY <1>1, <1>2, <1>5
<1>8. Network(rest) = v.network
  <2>1. v.network = IF r[2] = 1 THEN rest[n] ELSE "testnet"
    BY <1>5 DEF Meaning
  <2>2. Network(rest) = IF n <= Len(rest) THEN rest[n] ELSE "testnet"
    BY DEF Network, Has
  <2>3. QED
    BY <2>1, <2>2, <1>6
<1>9. n + 1 <= Len(rest) => m = n + 1 /\ rest[n + 1] \notin LongNames
  <2>1. n + 1 <= Len(rest) => r[3] = 1 /\ r[2] = 1
    BY <1>1, <1>7
  <2>2. r[2] = 1 => m = n + 1
    BY <1>1, <1>5
  <2>3. r[3] = 1 => v.name = rest[m]
    BY DEF Meaning
  <2>4. QED
    BY <1>3, <2>1, <2>2, <2>3
<1>10. \A i \in n + 2 .. Len(rest) : rest[i] \in Addresses
  <2> SUFFICES ASSUME NEW i \in n + 2 .. Len(rest)
               PROVE  rest[i] \in Addresses
    OBVIOUS
  <2>1. n \in Nat /\ m = n + 1
    BY <1>1, <1>2, <1>5, <1>9
  <2>2. v.addrs = SubSeq(rest, m + 1, Len(rest))
    BY DEF Meaning
  <2> HIDE DEF n, m, v
  <2>3. i - n - 1 \in 1..(Len(rest) - (m + 1) + 1)
    BY <1>2, <2>1
  <2>4. i - n - 1 \in DOMAIN v.addrs /\ v.addrs[i - n - 1] = rest[i]
    BY <1>2, <2>1, <2>2, <2>3
  <2>5. QED
    BY <1>3, <2>4
<1>11. ~BadTail(rest)
  BY <1>9, <1>10 DEF BadTail, Has
<1>12. QED
  BY <1>3, <1>4, <1>8, <1>11

\* parse_startup_args, checked against the usage line, for every command line
\* and every environment.
LEMMA ParseAsDocumented ==
    ASSUME ArgsAssumption, NEW cmd \in [first : Firsts, rest : Seq(Words)],
           NEW env \in Environments
    PROVE  LET s == Parse(cmd, env)
           IN  /\ s.result = "ok" /\ ~cmd.first.shortcut =>
                     /\ s.auth \in SourcesWithNetworkCookie(cmd.first, s.network, env)
                     /\ [f \in DOMAIN s \ {"result", "auth"} |-> s[f]] \in Usage(cmd.rest)
               /\ s.result # "ok" /\ cmd.first.path = "ok" =>
                     \A r \in Readings :
                        Reads(cmd.rest, r) /\ NetworkBeforeName(r) =>
                           SourcesWithNetworkCookie(cmd.first, Meaning(cmd.rest, r).network, env) = {}
<1> DEFINE rest == cmd.rest
           net == Network(rest)
           s == Parse(cmd, env)
<1>1. cmd.first \in Firsts /\ rest \in Seq(Words)
  OBVIOUS
<1>2. ASSUME s.result = "ok", ~cmd.first.shortcut
      PROVE  /\ s.auth \in SourcesWithNetworkCookie(cmd.first, s.network, env)
             /\ [f \in DOMAIN s \ {"result", "auth"} |-> s[f]] \in Usage(rest)
  <2>1. /\ rest # <<>> /\ net \in Networks /\ ~BadTail(rest)
        /\ RpcAuth(cmd.first, net, env) # "none"
        /\ s = Settings(cmd, env)
    BY <1>2 DEF Parse, Err, Panic
  <2>2. s.auth = RpcAuth(cmd.first, net, env) /\ s.network = net
    BY <2>1 DEF Settings
  <2> HIDE DEF s, net, rest
  <2>3. s.auth \in SourcesWithNetworkCookie(cmd.first, s.network, env)
    BY <1>1, <2>1, <2>2, AuthFound
  <2>4. Taken(rest) \in Readings /\ Reads(rest, Taken(rest))
    BY <1>1, <2>1, TakenReads DEF net
  <2>5. [f \in DOMAIN s \ {"result", "auth"} |-> s[f]] = Meaning(rest, Taken(rest))
    BY <2>1, TakenMeans DEF rest
  <2>6. QED
    BY <2>3, <2>4, <2>5 DEF Usage
<1>3. ASSUME s.result # "ok", cmd.first.path = "ok", NEW r \in Readings,
             Reads(rest, r), NetworkBeforeName(r)
      PROVE  SourcesWithNetworkCookie(cmd.first, Meaning(rest, r).network, env) = {}
  <2>1. /\ rest # <<>> /\ ~BadTail(rest)
        /\ net = Meaning(rest, r).network /\ net \in Networks
    <3> HIDE DEF s, rest
    <3>1. QED
      BY <1>1, <1>3, ReadingFound
  <2>2. ~cmd.first.shortcut
    BY <1>3 DEF Parse, Workshop
  <2>3. RpcAuth(cmd.first, net, env) = "none"
    <3>1. Settings(cmd, env).result = "ok"
      BY DEF Settings
    <3> HIDE DEF rest, net
    <3>2. QED
      BY <1>3, <2>1, <2>2, <3>1 DEF Parse, rest, net
  <2> HIDE DEF rest, net, s
  <2>4. SourcesWithNetworkCookie(cmd.first, net, env) = {}
    BY <1>1, <2>1, <2>3, AuthFound
  <2>5. QED
    BY <2>1, <2>4
<1>4. QED
  BY <1>2, <1>3

\* The settings are those of the command line until the client is made.
StartInv ==
    /\ phase \in {"args", "client", "refused"} => asked \in Commands
    /\ phase = "client" =>
          settings = Parse(asked.cmd, asked.env) /\ settings.result = "ok"
    /\ phase = "refused" => Parse(asked.cmd, asked.env).result # "ok"

\* Every step of the start keeps this.
LEMMA StartStep == StartInv /\ [StartNext]_allvars => StartInv'
<1> SUFFICES ASSUME StartInv, [StartNext]_allvars
             PROVE  StartInv'
  OBVIOUS
<1> USE DEF StartInv
<1>1. CASE ParseArgs
  <2> DEFINE s == Parse(asked.cmd, asked.env)
  <2>1. asked' = asked /\ asked \in Commands
    BY <1>1 DEF ParseArgs
  <2>2. \/ s.result = "ok" /\ phase' = "client" /\ settings' = s
        \/ s.result # "ok" /\ phase' = "refused"
    BY <1>1 DEF ParseArgs
  <2>3. QED
    BY <2>1, <2>2
<1>2. CASE NewClient
  BY <1>2 DEF NewClient
<1>3. CASE Over
  BY <1>3 DEF Over
<1>4. CASE CheckNetwork
  BY <1>3, <1>4 DEF CheckNetwork
<1>5. CASE UNCHANGED startvars
  BY <1>5 DEF startvars
<1>6. QED
  BY <1>1, <1>2, <1>3, <1>4, <1>5
     DEF StartNext, Start, ClientFails, Polling, Ended, allvars

\* What parse_startup_args returns is a reading of the usage line it prints,
\* with credentials from a place of the help that has them, the cookie being
\* the network's; and it refuses no command line that the usage line allows,
\* unless that names the node and no network or none of these places has
\* credentials.
THEOREM UsageIsFollowed == StartSpec => []ArgumentsAsDocumented
<1>1. StartInit => StartInv
  BY DEF StartInit, StartInv
<1>2. StartSpec => []StartInv
  BY <1>1, StartStep, PTL DEF StartSpec
<1>3. StartInv => ArgumentsAsDocumented
  <2> SUFFICES ASSUME StartInv
               PROVE  ArgumentsAsDocumented
    OBVIOUS
  <2>1. CASE phase \in {"client", "refused"}
    <3> DEFINE cmd == asked.cmd
               env == asked.env
               s == Parse(cmd, env)
    <3>1. cmd \in [first : Firsts, rest : Seq(Words)] /\ env \in Environments
      BY <2>1, StartAssumption DEF StartInv
    <3> HIDE DEF cmd, env
    <3>2. /\ s.result = "ok" /\ ~cmd.first.shortcut =>
               /\ s.auth \in SourcesWithNetworkCookie(cmd.first, s.network, env)
               /\ [f \in DOMAIN s \ {"result", "auth"} |-> s[f]] \in Usage(cmd.rest)
          /\ s.result # "ok" /\ cmd.first.path = "ok" =>
               \A r \in Readings :
                  Reads(cmd.rest, r) /\ NetworkBeforeName(r) =>
                     SourcesWithNetworkCookie(cmd.first, Meaning(cmd.rest, r).network, env) = {}
      BY <3>1, ArgsAssumption, ParseAsDocumented
    <3> HIDE DEF s
    <3>3. /\ phase = "client" => settings = s /\ s.result = "ok"
          /\ phase = "refused" => s.result # "ok"
      BY DEF StartInv, s, cmd, env
    <3>4. QED
      BY <3>2, <3>3 DEF ArgumentsAsDocumented, cmd, env
  <2>2. CASE phase \notin {"client", "refused"}
    BY <2>2 DEF ArgumentsAsDocumented
  <2>3. QED
    BY <2>1, <2>2
<1>4. QED
  BY <1>2, <1>3, PTL
================================================================================
