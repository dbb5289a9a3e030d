--------------------------------- MODULE Args ---------------------------------
(***************************************************************************)
(* The command line (args.rs).  parse_startup_args walks the arguments     *)
(* with an index and takes the RPC credentials from the first of four      *)
(* places that has them; the usage line and the help it prints are the     *)
(* reference.                                                              *)
(*                                                                         *)
(* A command is [first, rest]: the first argument and those behind it.     *)
(* The first is [shortcut, auth, path]: whether it is "workshop", what is  *)
(* in front of its last "@", and what is behind it.  An argument in rest   *)
(* is a word, of which only its classes matter.                            *)
(***************************************************************************)
EXTENDS Naturals, Sequences

CONSTANTS
    Words,        \* the arguments behind the first one
    Ports,        \* those that are a u16
    LongNames,    \* those of more than 32 bytes
    Addresses     \* those that are a socket address

Networks == {"testnet", "regtest", "signet"}

\* The name of a node that announces none.
NoName == ""

\* A network's name is no number and is short, and so is no name at all; the
\* default port is a port.
ASSUME ArgsAssumption ==
    /\ Ports \cup LongNames \cup Addresses \subseteq Words
    /\ Networks \cap (Ports \cup LongNames) = {}
    /\ NoName \notin LongNames
    /\ "9735" \in Words => "9735" \in Ports

Firsts == [shortcut : BOOLEAN, auth : {"absent", "pair", "malformed"},
           path : {"ok", "parts", "port"}]

\* Where credentials may be found: both variables, the .env file, and a cookie
\* in bitcoind's default data directory or in a network's directory below it.
Cookies == {"absent", "malformed", "pair"}
Environments == [vars : BOOLEAN, file : {"absent", "bad", "partial", "both"},
                 datadir : Cookies, cookie : [Networks -> Cookies]]

-----------------------------------------------------------------------------
(***************************************************************************)
(* What the code does.                                                     *)
(***************************************************************************)
Err == [result |-> "err"]
Panic == [result |-> "panic"]

\* get_config_info.
Workshop ==
    [result |-> "ok", auth |-> "config", dir |-> "./", port |-> "9733",
     network |-> "regtest", name |-> "Programming Lightning Workshop",
     addrs |-> <<"0.0.0.0:9733">>]

\* get_cookie_path and get_rpc_auth_from_cookie.
CookieAuth(net, env) == env.cookie[net] = "pair"

\* Mutant: the cookie of the default network.
RpcAuthAnyCookie(first, net, env) ==
    CASE first.auth = "pair" -> "first"
      [] first.auth = "malformed" -> "none"
      [] first.auth = "absent" ->
            IF env.vars THEN "vars"
            ELSE IF env.file = "both" THEN ".env"
            ELSE IF CookieAuth("testnet", env) THEN "cookie" ELSE "none"

\* The first of: the first argument, the variables, the .env file (rejected
\* as a whole for one line without "="), the cookie.  "none" is Err.
RpcAuth(first, net, env) ==
    CASE first.auth = "pair" -> "first"
      [] first.auth = "malformed" -> "none"
      [] first.auth = "absent" ->
            IF env.vars THEN "vars"
            ELSE IF env.file = "both" THEN ".env"
            ELSE IF CookieAuth(net, env) THEN "cookie" ELSE "none"

\* env::args().skip(n), counted from the second argument.
Has(rest, n) == n <= Len(rest)

PortSet(rest) == Has(rest, 2) /\ rest[2] \in Ports

\* arg_idx: where the network stands.
NetworkIdx(rest) == IF PortSet(rest) THEN 3 ELSE 2

Network(rest) ==
    IF Has(rest, NetworkIdx(rest)) THEN rest[NetworkIdx(rest)] ELSE "testnet"

\* What follows the network: a name, then addresses only.
BadTail(rest) ==
    LET n == NetworkIdx(rest)
    IN  \/ Has(rest, n + 1) /\ rest[n + 1] \in LongNames
        \/ \E i \in n + 2 .. Len(rest) : rest[i] \notin Addresses

Settings(cmd, env) ==
    LET n == NetworkIdx(cmd.rest)
    IN  [result |-> "ok",
         auth |-> RpcAuth(cmd.first, Network(cmd.rest), env),
         dir |-> cmd.rest[1],
         port |-> IF PortSet(cmd.rest) THEN cmd.rest[2] ELSE "9735",
         network |-> Network(cmd.rest),
         name |-> IF Has(cmd.rest, n + 1) THEN cmd.rest[n + 1] ELSE NoName,
         addrs |-> SubSeq(cmd.rest, n + 2, Len(cmd.rest))]

\* parse_startup_args, its checks in their order.
Parse(cmd, env) ==
    IF cmd.first.shortcut THEN Workshop
    ELSE IF cmd.rest = <<>> \/ cmd.first.path = "parts" THEN Err
    ELSE IF cmd.first.path = "port" \/ Network(cmd.rest) \notin Networks THEN Panic
    ELSE IF RpcAuth(cmd.first, Network(cmd.rest), env) = "none" THEN Err
    ELSE IF BadTail(cmd.rest) THEN Panic
    ELSE Settings(cmd, env)

-----------------------------------------------------------------------------
(***************************************************************************)
(* What the usage line says: directory [port] [network] [name address*].   *)
(* A reading <<p, n, m>> of the arguments has (1) or has not (0) a port, a *)
(* network and a name.                                                     *)
(***************************************************************************)
Readings == {0, 1} \X {0, 1} \X {0, 1}

\* The settings a reading gives.
Meaning(rest, r) ==
    LET n == 2 + r[1]
        m == n + r[2]
    IN  [dir |-> rest[1],
         port |-> IF r[1] = 1 THEN rest[2] ELSE "9735",
         network |-> IF r[2] = 1 THEN rest[n] ELSE "testnet",
         name |-> IF r[3] = 1 THEN rest[m] ELSE NoName,
         addrs |-> SubSeq(rest, m + 1, Len(rest))]

\* The usage line allows the reading.
Reads(rest, r) ==
    LET last == 1 + r[1] + r[2] + r[3]
    IN  /\ Has(rest, last) /\ (r[3] = 0 => Len(rest) = last)
        /\ LET s == Meaning(rest, r)
           IN  /\ s.port \in Ports \cup {"9735"} /\ s.network \in Networks
               /\ s.name \notin LongNames
               /\ \A i \in DOMAIN s.addrs : s.addrs[i] \in Addresses

\* Everything the arguments behind the first one may mean.
Usage(rest) == {Meaning(rest, r) : r \in {q \in Readings : Reads(rest, q)}}

\* A reading in which a name is given only behind a network.
NetworkBeforeName(r) == r[3] = 1 => r[2] = 1

\* The places that the printed help names and that have credentials: the first
\* argument, a cookie "in the default bitcoind data directory", the variables,
\* the .env file.
HelpSources(first, env) ==
    IF first.auth # "absent" THEN {a \in {"first"} : first.auth = "pair"}
    ELSE {a \in {"vars"} : env.vars} \cup {a \in {".env"} : env.file = "both"}
         \cup {a \in {"datadir"} : env.datadir = "pair"}

\* The same with the network's cookie in place of the one the help names.
SourcesWithNetworkCookie(first, net, env) ==
    (HelpSources(first, env) \ {"datadir"})
        \cup {a \in {"cookie"} : first.auth = "absent" /\ env.cookie[net] = "pair"}
===============================================================================
