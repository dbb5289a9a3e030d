------------------------------- MODULE KVStore -------------------------------
(***************************************************************************)
(* What a KVStore promises its callers (the node's monitor persister,      *)
(* background processor, sweeper, event handler and command loop): every   *)
(* read, write and remove takes effect at one instant between its call and *)
(* its return, and a write, or a non-lazy remove that found a value, is    *)
(* not undone by a power loss once it returned Ok.  A remove that found    *)
(* none makes no such promise.  FilesystemStore is shown to implement it.  *)
(***************************************************************************)
EXTENDS Naturals

CONSTANTS Threads, Requests, Keys, Values, Missing, NoReq, NoRsp,
          IoErrors  \* whether system calls may fail

VARIABLES store,    \* [Keys -> Values \cup {Missing}]
          survive,  \* [Keys -> SUBSET (Values \cup {Missing})]: what a power
                    \* loss may turn each key's value into
          req, rsp  \* each thread's pending request, and its result so far

kvvars == <<store, survive, req, rsp>>

Init ==
    /\ store = [k \in Keys |-> Missing]
    /\ survive = [k \in Keys |-> {Missing}]
    /\ req = [t \in Threads |-> NoReq]
    /\ rsp = [t \in Threads |-> NoRsp]

Call(t) ==
    /\ req[t] = NoReq
    /\ \E r \in Requests : req' = [req EXCEPT ![t] = r]
    /\ UNCHANGED <<store, survive, rsp>>

Pending(t, kind) == req[t] # NoReq /\ req[t].kind = kind /\ rsp[t] = NoRsp

Respond(t, x) == rsp' = [rsp EXCEPT ![t] = x] /\ UNCHANGED req

\* The instant at which t's request sets key k to x.  It is "applied" but a
\* power loss may still undo it.
Apply(t, k, x) ==
    /\ store' = [store EXCEPT ![k] = x]
    /\ survive' = [survive EXCEPT ![k] = @ \cup {x}]

Read(t) ==
    /\ Pending(t, "read")
    /\ Respond(t, store[req[t].key])
    /\ UNCHANGED <<store, survive>>

Write(t) ==
    /\ Pending(t, "write")
    /\ Apply(t, req[t].key, req[t].val)
    /\ Respond(t, "applied")

Remove(t) ==
    /\ Pending(t, "remove")
    /\ store[req[t].key] # Missing
    /\ Apply(t, req[t].key, Missing)
    /\ Respond(t, IF req[t].lazy THEN "ok" ELSE "applied")

\* Removing what is not there is a success, or an error when another remover
\* was faster.  It commits nothing: when the removal that took effect was lazy,
\* or has not been committed yet, a power loss may still undo it.
RemoveMissing(t) ==
    /\ Pending(t, "remove")
    /\ store[req[t].key] = Missing
    /\ \E x \in {"ok", "err"} : Respond(t, x)
    /\ UNCHANGED <<store, survive>>

\* The store cannot find out whether the key is there: it says Ok and leaves
\* what there is.
RemoveUnchecked(t) ==
    /\ IoErrors
    /\ Pending(t, "remove")
    /\ Respond(t, "ok")
    /\ UNCHANGED <<store, survive>>

\* Only the value of this instant can be found after a power loss.
Commit(t) ==
    /\ rsp[t] = "applied"
    /\ survive' = [survive EXCEPT ![req[t].key] = {store[req[t].key]}]
    /\ Respond(t, "ok")
    /\ UNCHANGED store

List(t) ==
    /\ Pending(t, "list")
    /\ \E x \in {"ok", "err"} : Respond(t, x)
    /\ UNCHANGED <<store, survive>>

\* An I/O error that is noticed, or a name that is not valid: whatever took
\* effect stays, the caller gets Err.
Fail(t) ==
    /\ req[t] # NoReq
    /\ rsp[t] \in {NoRsp, "applied"}
    /\ Respond(t, "err")
    /\ UNCHANGED <<store, survive>>

Return(t) ==
    /\ rsp[t] \notin {NoRsp, "applied"}
    /\ req' = [req EXCEPT ![t] = NoReq]
    /\ rsp' = [rsp EXCEPT ![t] = NoRsp]
    /\ UNCHANGED <<store, survive>>

Forget == req' = [t \in Threads |-> NoReq] /\ rsp' = [t \in Threads |-> NoRsp]

\* The process dies: nothing that took effect is undone.
Restart == Forget /\ UNCHANGED <<store, survive>>

\* The machine dies: each key falls back to one of its surviving values.
PowerLoss ==
    /\ Forget
    /\ \A k \in Keys : store'[k] \in survive[k]
    /\ survive' = [k \in Keys |-> {store'[k]}]
    /\ DOMAIN store' = Keys

Next ==
    \/ \E t \in Threads : \/ Call(t) \/ Read(t) \/ Write(t) \/ Remove(t)
                          \/ RemoveMissing(t) \/ RemoveUnchecked(t) \/ Commit(t)
                          \/ List(t) \/ Fail(t) \/ Return(t)
    \/ Restart
    \/ PowerLoss

Spec == Init /\ [][Next]_kvvars
=============================================================================
