-------------------------------- MODULE Rpc --------------------------------
(***************************************************************************)
(* Remote calls (src/rpc, and the proxies, stubs, servers and service loops*)
(* of the three stores): one client, one store, and one service thread per *)
(* connection, as the services' main functions start them.                 *)
(*                                                                         *)
(* A stream is a sequence of units: the name of a function (its length and *)
(* its bytes), its parameters (a whole hm_param_pack_t), a status, a reply *)
(* (a pack again).  The transport keeps to the contract of param_pack.h: a *)
(* unit arrives whole or recv fails; what was in flight when a connection  *)
(* broke is lost from some point on, what had arrived can still be read.   *)
(* A unit names the call it belongs to, for the properties only.           *)
(***************************************************************************)
EXTENDS Naturals, Sequences

CONSTANTS Store,     \* the store at the other end
          Proxies,   \* the functions the client calls
          MaxCalls,  \* bound: calls the client makes
          MaxConns   \* bound: connections it opens, one after the other

\* The functions each server registers when it is created.
KeyStoreFunctions ==
    {"set_rtoken", "set_wtoken", "get_rtoken", "get_wtoken", "del_rtoken",
     "del_wtoken", "get_indexed_rights"}
DataStoreFunctions ==
    {"create_block", "create_block_with_id", "read_block", "update_block",
     "delete_block"}
CredentialStoreFunctions == {"get_pub_key_by_id"}
func_table == [key_store |-> KeyStoreFunctions,
               data_store |-> DataStoreFunctions,
               credential_store |-> CredentialStoreFunctions][Store]

\* Mutant: the get_rtoken proxy does not take its reply.
KeyStoreProxyReadsFewer == {"get_wtoken", "get_indexed_rights"}

\* The proxies that pass out_params and take a reply from the stream.
KeyStoreProxyReads == {"get_rtoken", "get_wtoken", "get_indexed_rights"}
DataStoreProxyReads == {"create_block", "read_block"}
CredentialStoreProxyReads == {"get_pub_key_by_id"}

\* Mutant: the get_rtoken stub does not fill *out.
KeyStoreStubReturnsFewer == {"get_wtoken", "get_indexed_rights"}

\* The stubs that leave a pack in *out, which the server sends.
KeyStoreStubReturns == {"get_rtoken", "get_wtoken", "get_indexed_rights"}
DataStoreStubReturns == {"create_block", "read_block"}
CredentialStoreStubReturns == {"get_pub_key_by_id"}

out_params(f) ==
    f \in KeyStoreProxyReads \cup DataStoreProxyReads \cup CredentialStoreProxyReads
out_pack(f) ==
    f \in KeyStoreStubReturns \cup DataStoreStubReturns \cup CredentialStoreStubReturns

ASSUME RpcAssumption ==
    /\ Store \in {"key_store", "data_store", "credential_store"}
    /\ Proxies \subseteq KeyStoreFunctions \cup DataStoreFunctions
                            \cup CredentialStoreFunctions
    /\ MaxCalls \in Nat
    /\ MaxConns \in Nat \ {0}

Calls == 1..MaxCalls
Conns == 1..MaxConns

VARIABLES issued,    \* the functions called, in order; the last is the current
          cpc,       \* where the client is in hm_rpc_client_sync_call
          cout,      \* units it has still to send
          conn,      \* its connection
          up,        \* a connection is not broken
          c2s, s2c,  \* the streams of a connection
          spc,       \* where a service thread is
          scall,     \* the call it is working on
          sout,      \* units it has still to send
          finish,    \* service->finish
          \* History, read by the properties only:
          done,      \* done[i]: what running call i came to
          outcome,   \* outcome[i]: what the caller of i was told
          answered,  \* answered[i]: the calls whose units call i consumed
          served     \* functions run by a thread since it was told to stop

clientVars == <<issued, cpc, cout, conn>>
linkVars == <<up, c2s, s2c>>
serverVars == <<spc, scall, sout, finish>>
historyVars == <<done, outcome, answered, served>>
vars == <<issued, cpc, cout, conn, up, c2s, s2c, spc, scall, sout, finish,
          done, outcome, answered, served>>

Unit == [kind : {"name", "params", "ok", "error", "reply"}, call : Calls]
U(k, i) == [kind |-> k, call |-> i]

TypeOK ==
    /\ issued \in Seq(Proxies) /\ Len(issued) <= MaxCalls
    /\ cpc \in {"idle", "send", "status", "reply"}
    /\ cout \in Seq(Unit)
    /\ conn \in Conns
    /\ up \in [Conns -> BOOLEAN]
    /\ c2s \in [Conns -> Seq(Unit)] /\ s2c \in [Conns -> Seq(Unit)]
    /\ spc \in [Conns -> {"none", "top", "recv_name", "recv_params", "exec",
                          "send", "send_last", "ended"}]
    /\ scall \in [Conns -> Calls \cup {0}]
    /\ sout \in [Conns -> Seq(Unit)]
    /\ finish \in [Conns -> BOOLEAN]
    /\ done \in [Calls -> {"no", "ok", "error"}]
    /\ outcome \in [Calls -> {"none", "ok", "error", "failed"}]
    /\ answered \in [Calls -> SUBSET Calls]
    /\ served \in [Conns -> Nat]

Init ==
    /\ issued = <<>> /\ cpc = "idle" /\ cout = <<>> /\ conn = 1
    /\ up = [k \in Conns |-> k = 1]
    /\ c2s = [k \in Conns |-> <<>>] /\ s2c = [k \in Conns |-> <<>>]
    /\ spc = [k \in Conns |-> IF k = 1 THEN "top" ELSE "none"]
    /\ scall = [k \in Conns |-> 0]
    /\ sout = [k \in Conns |-> <<>>]
    /\ finish = [k \in Conns |-> FALSE]
    /\ done = [i \in Calls |-> "no"]
    /\ outcome = [i \in Calls |-> "none"]
    /\ answered = [i \in Calls |-> {}]
    /\ served = [k \in Conns |-> 0]

\* What may be left of a stream when its connection breaks.
Prefixes(stream) == {SubSeq(stream, 1, m) : m \in 0..Len(stream)}

-----------------------------------------------------------------------------
\* The client: hm_rpc_client_sync_call

cur == Len(issued)

SyncCall(f) ==
    /\ cpc = "idle" /\ cur < MaxCalls
    /\ issued' = Append(issued, f)
    /\ cout' = <<U("name", cur + 1), U("params", cur + 1)>>
    /\ cpc' = "send"
    /\ UNCHANGED <<conn, linkVars, serverVars, historyVars>>

ClientSend ==
    /\ cpc = "send" /\ up[conn]
    /\ c2s' = [c2s EXCEPT ![conn] = Append(@, Head(cout))]
    /\ cout' = Tail(cout)
    /\ cpc' = IF Tail(cout) = <<>> THEN "status" ELSE "send"
    /\ UNCHANGED <<issued, conn, up, s2c, serverVars, historyVars>>

\* The call returns to its caller.
CallReturns(r) ==
    /\ cpc' = "idle" /\ cout' = <<>>
    /\ outcome' = [outcome EXCEPT ![cur] = r]

\* The client takes the next unit of the stream.
ClientTakes ==
    /\ s2c[conn] # <<>>
    /\ s2c' = [s2c EXCEPT ![conn] = Tail(@)]
    /\ answered' = [answered EXCEPT ![cur] = @ \cup {Head(s2c[conn]).call}]

ClientRecvStatus ==
    LET error == Head(s2c[conn]).kind IN
    /\ cpc = "status"
    /\ ClientTakes
    /\ \/ /\ error = "ok" /\ out_params(issued[cur])
          /\ cpc' = "reply"
          /\ UNCHANGED <<cout, outcome>>
       \/ /\ ~(error = "ok" /\ out_params(issued[cur]))
          /\ CallReturns(IF error = "ok" THEN "ok" ELSE "error")
    /\ UNCHANGED <<issued, conn, up, c2s, serverVars, done, served>>

ClientRecvReply ==
    /\ cpc = "reply"
    /\ ClientTakes
    /\ CallReturns("ok")
    /\ UNCHANGED <<issued, conn, up, c2s, serverVars, done, served>>

\* Mutant: the error of the transport is not passed on.
ClientFailsUnseen ==
    /\ ~up[conn]
    /\ \/ cpc = "send"
       \/ cpc \in {"status", "reply"} /\ s2c[conn] = <<>>
    /\ CallReturns("ok")
    /\ UNCHANGED <<issued, conn, linkVars, serverVars, done, answered, served>>

\* send, or recv with nothing left to read, fails on a broken connection.
ClientFails ==
    /\ ~up[conn]
    /\ \/ cpc = "send"
       \/ cpc \in {"status", "reply"} /\ s2c[conn] = <<>>
    /\ CallReturns("failed")
    /\ UNCHANGED <<issued, conn, linkVars, serverVars, done, answered, served>>

-----------------------------------------------------------------------------
\* The service thread of connection k

\* Mutant: the flag is not looked at.
ServiceLoopEndless(k) ==
    /\ spc[k] = "top"
    /\ spc' = [spc EXCEPT ![k] = "recv_name"]
    /\ UNCHANGED <<clientVars, linkVars, scall, sout, finish, historyVars>>

\* The loop of hm_*_service_start: finish is looked at between calls only.
ServiceLoop(k) ==
    /\ spc[k] = "top"
    /\ spc' = [spc EXCEPT ![k] = IF finish[k] THEN "ended" ELSE "recv_name"]
    /\ UNCHANGED <<clientVars, linkVars, scall, sout, finish, historyVars>>

\* hm_rpc_server_call reads a name.  An unregistered function is answered with
\* HM_FAIL, its parameters are left in the stream, and the service ends.
ServerRecvName(k) ==
    LET i == Head(c2s[k]).call IN
    /\ spc[k] = "recv_name" /\ c2s[k] # <<>>
    /\ c2s' = [c2s EXCEPT ![k] = Tail(@)]
    /\ scall' = [scall EXCEPT ![k] = i]
    /\ \/ /\ issued[i] \in func_table
          /\ spc' = [spc EXCEPT ![k] = "recv_params"]
          /\ UNCHANGED <<sout, done>>
       \/ /\ issued[i] \notin func_table
          /\ sout' = [sout EXCEPT ![k] = <<U("error", i)>>]
          /\ spc' = [spc EXCEPT ![k] = "send_last"]
          /\ done' = [done EXCEPT ![i] = "error"]
    /\ UNCHANGED <<clientVars, up, s2c, finish, outcome, answered, served>>

ServerRecvParams(k) ==
    /\ spc[k] = "recv_params" /\ c2s[k] # <<>>
    /\ c2s' = [c2s EXCEPT ![k] = Tail(@)]
    /\ spc' = [spc EXCEPT ![k] = "exec"]
    /\ UNCHANGED <<clientVars, up, s2c, scall, sout, finish, historyVars>>

\* recv fails: the service ends.  After the name an error is sent first, into
\* a connection that is broken already.
ServerRecvFails(k) ==
    /\ spc[k] \in {"recv_name", "recv_params"} /\ c2s[k] = <<>> /\ ~up[k]
    /\ spc' = [spc EXCEPT ![k] = "ended"]
    /\ UNCHANGED <<clientVars, linkVars, scall, sout, finish, historyVars>>

\* Mutant: the pack left from the call before is sent.
ExecuteStaleReply(k, r) ==
    LET i == scall[k]
        reply == IF out_pack(issued[i]) THEN <<U("reply", i - 1)>> ELSE <<>> IN
    /\ spc[k] = "exec"
    /\ spc' = [spc EXCEPT ![k] = "send"]
    /\ sout' = [sout EXCEPT ![k] = IF r = "ok" THEN <<U("ok", i)>> \o reply
                                              ELSE <<U("error", i)>>]
    /\ done' = [done EXCEPT ![i] = r]
    /\ served' = [served EXCEPT ![k] = @ + IF finish[k] THEN 1 ELSE 0]
    /\ UNCHANGED <<clientVars, linkVars, scall, finish, outcome, answered>>

\* The stub runs; r is what the store's function returns.
Execute(k, r) ==
    LET i == scall[k]
        reply == IF out_pack(issued[i]) THEN <<U("reply", i)>> ELSE <<>> IN
    /\ spc[k] = "exec"
    /\ spc' = [spc EXCEPT ![k] = "send"]
    /\ sout' = [sout EXCEPT ![k] = IF r = "ok" THEN <<U("ok", i)>> \o reply
                                              ELSE <<U("error", i)>>]
    /\ done' = [done EXCEPT ![i] = r]
    /\ served' = [served EXCEPT ![k] = @ + IF finish[k] THEN 1 ELSE 0]
    /\ UNCHANGED <<clientVars, linkVars, scall, finish, outcome, answered>>

\* After the last unit: back to the loop, or out of it after a refused call.
ServerSend(k) ==
    LET after == [send |-> "top", send_last |-> "ended"] IN
    /\ spc[k] \in {"send", "send_last"} /\ up[k]
    /\ s2c' = [s2c EXCEPT ![k] = Append(@, Head(sout[k]))]
    /\ sout' = [sout EXCEPT ![k] = Tail(@)]
    /\ spc' = [spc EXCEPT ![k] = IF Tail(sout[k]) = <<>> THEN after[@] ELSE @]
    /\ UNCHANGED <<clientVars, up, c2s, scall, finish, historyVars>>

ServerSendFails(k) ==
    /\ spc[k] \in {"send", "send_last"} /\ ~up[k]
    /\ sout' = [sout EXCEPT ![k] = <<>>]
    /\ spc' = [spc EXCEPT ![k] = "ended"]
    /\ UNCHANGED <<clientVars, linkVars, scall, finish, historyVars>>

\* The connection is lost from here on.
Lose(k) ==
    /\ up' = [up EXCEPT ![k] = FALSE]
    /\ \E p \in Prefixes(c2s[k]) : c2s' = [c2s EXCEPT ![k] = p]
    /\ \E p \in Prefixes(s2c[k]) : s2c' = [s2c EXCEPT ![k] = p]

\* The thread's function destroys the transport; unread input makes the peer
\* lose what it has not received yet.
ServiceEnds(k) ==
    /\ spc[k] = "ended" /\ up[k]
    /\ Lose(k)
    /\ UNCHANGED <<clientVars, serverVars, historyVars>>

\* hm_*_service_stop, from another thread.
ServiceStop(k) ==
    /\ spc[k] \notin {"none", "ended"} /\ ~finish[k]
    /\ finish' = [finish EXCEPT ![k] = TRUE]
    /\ UNCHANGED <<clientVars, linkVars, spc, scall, sout, historyVars>>

-----------------------------------------------------------------------------
\* Connections

LinkBreaks(k) ==
    /\ up[k] /\ spc[k] # "ended"
    /\ Lose(k)
    /\ UNCHANGED <<clientVars, serverVars, historyVars>>

\* The client, in a call or not, goes away and comes back on a new connection;
\* the old service thread works on with what has reached it.
Reconnect ==
    /\ conn < MaxConns
    /\ conn' = conn + 1
    /\ up' = [up EXCEPT ![conn] = FALSE, ![conn + 1] = TRUE]
    /\ \E p \in Prefixes(c2s[conn]) : c2s' = [c2s EXCEPT ![conn] = p]
    /\ s2c' = [s2c EXCEPT ![conn] = <<>>]
    /\ spc' = [spc EXCEPT ![conn + 1] = "top"]
    /\ cpc' = "idle" /\ cout' = <<>>
    /\ outcome' = [i \in Calls |->
            IF i = cur /\ cpc # "idle" THEN "failed" ELSE outcome[i]]
    /\ UNCHANGED <<issued, scall, sout, finish, done, answered, served>>

-----------------------------------------------------------------------------
\* The specification

ClientStep == ClientSend \/ ClientRecvStatus \/ ClientRecvReply \/ ClientFails

ServerStep(k) ==
    \/ ServiceLoop(k) \/ ServerRecvName(k) \/ ServerRecvParams(k)
    \/ ServerRecvFails(k) \/ \E r \in {"ok", "error"} : Execute(k, r)
    \/ ServerSend(k) \/ ServerSendFails(k) \/ ServiceEnds(k)

Next ==
    \/ \E f \in Proxies : SyncCall(f)
    \/ ClientStep \/ Reconnect
    \/ \E k \in Conns : ServerStep(k) \/ ServiceStop(k) \/ LinkBreaks(k)

Spec == Init /\ [][Next]_vars

\* The client thread and the service threads run, and the stores' functions
\* return.  Nothing obliges anyone to call, stop, break or reconnect.
FairSpec ==
    /\ Spec
    /\ WF_vars(ClientStep)
    /\ \A k \in Conns : WF_vars(ServerStep(k))

-----------------------------------------------------------------------------
\* Properties

\* What the caller of hm_rpc_client_sync_call is told is the answer to its own
\* call and what running the function came to: client and server never get out
\* of step, whichever functions answer with a reply and wherever a connection
\* breaks, a service is stopped or a client starts over.
AnswersMatch ==
    \A i \in Calls :
        /\ answered[i] \subseteq {i}
        /\ outcome[i] \in {"ok", "error"} => done[i] = outcome[i]

\* A service told to stop runs at most the call it is waiting for.
StopsSoon == \A k \in Conns : served[k] <= 1

\* Every call returns, with an answer or as failed.
CallReturned == cpc # "idle" ~> cpc = "idle"

\* The calls are remote calls as MidHermes takes them to be: run at most once,
\* answered after they have run, and run after their end only if they were
\* reported as failed.
Remote == INSTANCE RemoteCall WITH n <- Len(issued)
RemoteCallSpec == Remote!Spec
=============================================================================
