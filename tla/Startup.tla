-------------------------------- MODULE Startup --------------------------------
(***************************************************************************)
(* The first steps of start_ldk (main.rs): the arguments are parsed, the   *)
(* bitcoind client is made, whose fee poller runs from then on, and        *)
(* bitcoind's chain is compared with the network asked for.  It puts the   *)
(* command line (Args) in front of the fee estimator (FeeEstimator).       *)
(*                                                                         *)
(* What the property below needs of the command line is kept until the     *)
(* client is made; the network is kept until it is compared.               *)
(***************************************************************************)
EXTENDS FeeEstimator, Args

CONSTANTS
    Commands,     \* command lines, each with an environment: [cmd, env]
    Chains        \* what bitcoind may call its chain

ASSUME StartAssumption ==
    Commands \subseteq [cmd : [first : Firsts, rest : Seq(Words)], env : Environments]

VARIABLES
    phase,        \* "args", "client", "check", "run", "refused" or "over"
    asked,        \* the command line and its environment
    settings      \* LdkUserInfo

startvars == <<phase, asked, settings>>
allvars == <<vars, startvars>>

Forgotten == [result |-> "forgotten"]

StartInit == Init /\ phase = "args" /\ asked \in Commands /\ settings = Forgotten

-----------------------------------------------------------------------------
\* parse_startup_args: Err returns, a panic aborts.
ParseArgs ==
    /\ phase = "args"
    /\ LET s == Parse(asked.cmd, asked.env)
       IN  \/ /\ s.result = "ok"
              /\ phase' = "client" /\ settings' = s
              /\ UNCHANGED aborted
           \/ /\ s.result # "ok"
              /\ phase' = "refused" /\ aborted' = TRUE
              /\ UNCHANGED settings
    /\ UNCHANGED <<fees, pc, est, quote, changes, asked>>

\* BitcoindClient::new makes the RPC client and spawns the fee poller.
NewClient ==
    /\ phase = "client" /\ phase' = "check"
    /\ settings' = [result |-> "ok", network |-> settings.network]
    /\ asked' = Forgotten
    /\ UNCHANGED vars

\* The process is over: start_ldk returned, or an unwrap aborted it.
Over ==
    /\ phase' = "over" /\ aborted' = TRUE
    /\ asked' = Forgotten /\ settings' = Forgotten
    /\ UNCHANGED <<fees, pc, est, quote, changes>>

\* The data directory or the log's cannot be made, there is no client, or no
\* answer for get_blockchain_info.
ClientFails == phase \in {"client", "check"} /\ ~aborted /\ Over

\* What bitcoind calls a network.
ChainName(network) ==
    CASE network = "regtest" -> "regtest"
      [] network = "signet" -> "signet"
      [] network = "testnet" -> "test"

\* bitcoind's chain is the network asked for, or start_ldk returns.  The
\* poller may have been at work for a while.
CheckNetwork ==
    /\ phase = "check" /\ ~aborted
    /\ \E chain \in Chains :
          \/ /\ chain = ChainName(settings.network)
             /\ phase' = "run" /\ settings' = Forgotten
             /\ UNCHANGED <<vars, asked>>
          \/ chain # ChainName(settings.network) /\ Over

Start == ParseArgs \/ NewClient \/ CheckNetwork

\* The fee poller, from the moment the client is made.
Polling ==
    /\ phase \in {"check", "run"}
    /\ Poll \/ RpcFails \/ Change
    /\ UNCHANGED startvars

Ended == aborted /\ UNCHANGED allvars

StartNext == Start \/ ClientFails \/ Polling \/ Ended

StartSpec == StartInit /\ [][StartNext]_allvars

\* start_ldk and the poller are tasks of the runtime, and RPCs end.
StartLiveSpec ==
    /\ StartSpec
    /\ WF_allvars(Start)
    /\ WF_allvars(Poll /\ phase \in {"check", "run"} /\ UNCHANGED startvars)

-----------------------------------------------------------------------------
\* parse_startup_args against the usage line and the help it prints: the
\* settings it returns are a reading of the usage line, with credentials from
\* a place of the help that has them; and it refuses no well-formed command
\* line with credentials, unless that gives a name and no network.  The cookie
\* is not where the help says, see CookieAsDocumented: the network's counts.
ArgumentsAsDocumented ==
    /\ phase = "client" /\ ~asked.cmd.first.shortcut =>
          /\ settings.auth \in SourcesWithNetworkCookie(asked.cmd.first, settings.network, asked.env)
          /\ [f \in DOMAIN settings \ {"result", "auth"} |-> settings[f]]
                \in Usage(asked.cmd.rest)
    /\ phase = "refused" /\ asked.cmd.first.path = "ok" =>
          \A r \in Readings :
             Reads(asked.cmd.rest, r) /\ NetworkBeforeName(r) =>
                SourcesWithNetworkCookie(asked.cmd.first, Meaning(asked.cmd.rest, r).network,
                                         asked.env) = {}

\* "[bitcoin-network] [announced-node-name announced-listen-addr*]": a name
\* needs no network.  It does: the name is taken for one.
NameNeedsNoNetwork ==
    phase = "refused" /\ asked.cmd.first.path = "ok" =>
        \A s \in Usage(asked.cmd.rest) :
            SourcesWithNetworkCookie(asked.cmd.first, s.network, asked.env) = {}

\* "a .cookie file in the default bitcoind data directory": a command line is
\* not refused where that file has credentials, or another place of the help.
\* It is: the code looks into the network's directory only.
CookieAsDocumented ==
    phase = "refused" /\ asked.cmd.first.path = "ok" =>
        \A r \in Readings :
           Reads(asked.cmd.rest, r) /\ NetworkBeforeName(r) =>
              HelpSources(asked.cmd.first, asked.env) = {}
================================================================================
