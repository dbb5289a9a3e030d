---------------------------- MODULE MCFeeEstimator ----------------------------
\* TLC instance of the start and the fee estimator.  bitcoind's answers, in
\* satoshis per 1000 virtual bytes, in five situations: no estimates yet; an
\* empty mempool with rates at and below the floor; rates that round up and
\* down to it; a busy mempool; one whose rates do not fit the word.
EXTENDS Startup

Q(m, b, n, h, v) ==
    [q \in Queries |-> CASE q = "mempoolmin" -> m [] q = "background" -> b
                         [] q = "normal" -> n [] q = "high_prio" -> h
                         [] q = "very_high_prio" -> v]

MCQuotes == {Q(NoRate, NoRate, NoRate, NoRate, NoRate), Q(0, 0, 1000, 1000, 1000),
             Q(1009, 1010, 1013, 1014, 1015), Q(4000, 20000, 40000, 60000, 80000),
             Q(1000, 1000, 100000, 300000, 900000)}

-----------------------------------------------------------------------------
\* Command lines: every rest of at most five arguments over five words, and
\* the networks not among them; every form of the first argument, and eight
\* environments where that has no credentials.
First(auth, path) == [shortcut |-> FALSE, auth |-> auth, path |-> path]
Env(v, f, d, t, r) ==
    [vars |-> v, file |-> f, datadir |-> d,
     cookie |-> [n \in Networks |-> CASE n = "testnet" -> t [] n = "regtest" -> r [] OTHER -> "absent"]]
NoEnv == Env(FALSE, "absent", "absent", "absent", "absent")

Tails == UNION {[1..n -> {"9733", "word", "regtest", "long", "addr"}] : n \in 0..4}
         \cup {<<"testnet">>, <<"9733", "signet", "word", "addr">>}
Rests == {<<>>} \cup {<<"word">> \o t : t \in Tails}

MCCommands ==
    {[cmd |-> [first |-> f, rest |-> r], env |-> NoEnv] :
        f \in {First("pair", "ok"), First("pair", "parts"), First("pair", "port"),
               First("malformed", "ok"), [First("pair", "ok") EXCEPT !.shortcut = TRUE]},
        r \in Rests}
    \cup {[cmd |-> [first |-> First("absent", "ok"), rest |-> r], env |-> e] :
        r \in Rests,
        e \in {NoEnv, Env(FALSE, "absent", "pair", "absent", "absent"),
               Env(TRUE, "both", "pair", "absent", "absent"),
               Env(FALSE, "both", "absent", "pair", "pair"),
               Env(FALSE, "bad", "absent", "absent", "pair"),
               Env(FALSE, "partial", "malformed", "pair", "absent"),
               Env(FALSE, "absent", "absent", "malformed", "pair"),
               Env(FALSE, "absent", "pair", "pair", "malformed")}}
=============================================================================
