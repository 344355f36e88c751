------------------------------- MODULE Marshal -------------------------------
(***************************************************************************)
(* What a remote call carries: the parameters that the proxies pack and the*)
(* stubs extract, the table a server finds the function in, and the fields *)
(* of both directions of one connection.                                   *)
(*                                                                         *)
(* The transport delivers fields; a receive of n bytes takes fields until  *)
(* there are n bytes, as hermes_transport_receive does, and fails when     *)
(* the last one does not fit or the connection ends before.  A value is    *)
(* tagged with its call and the name it has there, for the properties.     *)
(***************************************************************************)
EXTENDS ParamPack, HashTable

CONSTANTS Hashes,     \* hash functions: [Names -> buckets]
          MaxCalls    \* bound: calls the client makes

-----------------------------------------------------------------------------
\* Signatures, as the proxies, the stubs and their servers have them.

KeyStoreRegistered ==
    <<"set_rtoken", "set_wtoken", "get_rtoken", "get_wtoken", "del_rtoken",
      "del_wtoken", "get_indexed_rights">>
DataStoreRegistered ==
    <<"create_block", "create_block_with_id", "read_block", "update_block",
      "delete_block">>
CredentialStoreRegistered == <<"get_pub_key_by_id">>

Registered == [key_store |-> KeyStoreRegistered,
               data_store |-> DataStoreRegistered,
               credential_store |-> CredentialStoreRegistered]
Names == UNION {ToSet(Registered[s]) : s \in DOMAIN Registered}

ASSUME NamesAssumption == Names \subseteq ToSet(Order)

\* The functions of the three stores, whose names differ.
OfStores(key, data, credential) ==
    [f \in UNION {DOMAIN key, DOMAIN data, DOMAIN credential} |->
        IF f \in DOMAIN key THEN key[f] ELSE IF f \in DOMAIN data THEN data[f] ELSE credential[f]]

\* HM_PARAM_PACK of the proxies.
KeyStorePacks ==
    [set_rtoken |-> <<"block_id", "user_id", "owner_id", "read_token">>,
     set_wtoken |-> <<"block_id", "user_id", "owner_id", "write_token">>,
     get_rtoken |-> <<"block_id", "user_id">>,
     get_wtoken |-> <<"block_id", "user_id">>,
     del_rtoken |-> <<"block_id", "user_id", "owner_id">>,
     del_wtoken |-> <<"block_id", "user_id", "owner_id">>,
     get_indexed_rights |-> <<"block_id", "index">>]
DataStorePacks ==
    [create_block |-> <<"block", "meta", "mac">>,
     create_block_with_id |-> <<"id", "block", "meta", "mac">>,
     read_block |-> <<"id">>,
     update_block |-> <<"id", "block", "meta", "mac", "old_mac">>,
     delete_block |-> <<"id", "old_mac">>]
CredentialStorePacks == [get_pub_key_by_id |-> <<"id">>]
ProxyPacks == OfStores(KeyStorePacks, DataStorePacks, CredentialStorePacks)

\* HM_PARAM_EXTRACT of the stubs.
KeyStoreExtracts ==
    [set_rtoken |-> <<"block_id", "user_id", "owner_id", "read_token">>,
     set_wtoken |-> <<"block_id", "user_id", "owner_id", "write_token">>,
     get_rtoken |-> <<"block_id", "user_id">>,
     get_wtoken |-> <<"block_id", "user_id">>,
     del_rtoken |-> <<"block_id", "user_id", "owner_id">>,
     del_wtoken |-> <<"block_id", "user_id", "owner_id">>,
     get_indexed_rights |-> <<"block_id", "index">>]
\* Mutant: the update_block stub extracts the two MACs in the other order.
DataStoreExtractsSwapped ==
    [create_block |-> <<"block", "meta", "mac">>,
     create_block_with_id |-> <<"id", "block", "meta", "mac">>,
     read_block |-> <<"id">>,
     update_block |-> <<"id", "block", "meta", "old_mac", "mac">>,
     delete_block |-> <<"id", "old_mac">>]

DataStoreExtracts ==
    [create_block |-> <<"block", "meta", "mac">>,
     create_block_with_id |-> <<"id", "block", "meta", "mac">>,
     read_block |-> <<"id">>,
     update_block |-> <<"id", "block", "meta", "mac", "old_mac">>,
     delete_block |-> <<"id", "old_mac">>]
CredentialStoreExtracts == [get_pub_key_by_id |-> <<"id">>]
StubExtracts == OfStores(KeyStoreExtracts, DataStoreExtracts, CredentialStoreExtracts)

\* HM_PARAM_PACK of the stubs.
KeyStoreReplies ==
    [get_rtoken |-> <<"read_token", "owner_id">>,
     get_wtoken |-> <<"write_token", "owner_id">>,
     get_indexed_rights |-> <<"user_id", "rights_mask">>]
DataStoreReplies == [create_block |-> <<"id">>, read_block |-> <<"block", "meta">>]
CredentialStoreReplies == [get_pub_key_by_id |-> <<"key">>]
StubReplies == OfStores(KeyStoreReplies, DataStoreReplies, CredentialStoreReplies)

\* HM_PARAM_EXTRACT of the proxies that expect a reply.
KeyStoreResults ==
    [get_rtoken |-> <<"read_token", "owner_id">>,
     get_wtoken |-> <<"write_token", "owner_id">>,
     get_indexed_rights |-> <<"user_id", "rights_mask">>]
\* Mutant: the read_block proxy extracts the meta first.
DataStoreResultsSwapped == [create_block |-> <<"id">>, read_block |-> <<"meta", "block">>]

DataStoreResults == [create_block |-> <<"id">>, read_block |-> <<"block", "meta">>]
CredentialStoreResults == [get_pub_key_by_id |-> <<"key">>]
ProxyResults == OfStores(KeyStoreResults, DataStoreResults, CredentialStoreResults)

TypeOf(p) == IF p \in {"index", "rights_mask"} THEN "int32" ELSE "buffer"
TypesOf(names) == [k \in DOMAIN names |-> TypeOf(names[k])]

\* The value of the parameter called name.
ByName(names, values, name) ==
    values[CHOOSE k \in DOMAIN names : names[k] = name].val

-----------------------------------------------------------------------------
\* The connection

VARIABLES store, hash,   \* the store at the other end, and its hash function
          table,         \* func_table of its server
          closed,        \* the connection has ended
          toServer, toClient,   \* the fields in flight
          calls,         \* calls made
          call,          \* the function of the last one, what it was given, and
                         \* whether the connection had ended before it
          client,        \* where the client is in hm_rpc_client_sync_call
          server,        \* where the server is in hm_rpc_server_call
          returned,      \* what the last call returned
          ran,           \* History: what the store did, in the last call
          skewed         \* History: a call ended after half a request

vars == <<store, hash, table, closed, toServer, toClient, calls, call, client, server,
          returned, ran, skewed>>

None == "none"          \* not a name, nor an outcome
NoCall == [f |-> None, params |-> <<>>, late |-> FALSE]
NotReturned == [as |-> None, values |-> <<>>]
NotRun == [f |-> None, args |-> <<>>, as |-> None, empty |-> None]

\* A function's name on the wire; it is never empty.
Name(f) == [kind |-> "data", val |-> f, len |-> DataLength]

At(place, need) == [at |-> place, need |-> need]
Doing(place, need, f) == [at |-> place, need |-> need, func |-> f]

\* A receive of n bytes takes k fields, or fails.
Takes(fields, n, k) == Bytes(fields)[k] = n
Fails(fields, n) ==
    IF Lengths(fields) >= n THEN \A k \in DOMAIN fields : ~Takes(fields, n, k) ELSE closed
Rest(fields, k) == SubSeq(fields, k + 1, Len(fields))

\* A send of nothing fails, and what comes after it is not sent.
Sent(fields) == LET empty == {k \in DOMAIN fields : fields[k].len = 0} IN
    IF empty = {} THEN fields ELSE SubSeq(fields, 1, Min(empty) - 1)

\* The server of a store registers its functions when it is created.
FuncTable(s, h) ==
    LET names == Registered[s]
        after[n \in 0..Len(names)] ==
            IF n = 0 THEN [b \in {h[f] : f \in Names} |-> <<>>]
            ELSE TableSet(after[n - 1], h, names[n], names[n])
    IN after[Len(names)]

Init ==
    /\ store \in DOMAIN Registered /\ hash \in Hashes
    /\ table = FuncTable(store, hash)
    /\ closed = FALSE /\ toServer = <<>> /\ toClient = <<>>
    /\ calls = 0 /\ call = NoCall /\ client = At("idle", 0)
    /\ server = Doing("length", 4, NoEntry)
    /\ returned = NotReturned /\ ran = NotRun /\ skewed = FALSE

-----------------------------------------------------------------------------
\* The client: hm_rpc_client_sync_call, and the proxies around it

Return(as, values) ==
    /\ client' = At("idle", 0)
    /\ returned' = [as |-> as, values |-> values]

Arg(name) == [type |-> TypeOf(name), val |-> <<"arg", calls + 1, name>>]

\* What a client may pack for f: what the proxy packs, or, where a client calls
\* hm_rpc_client_sync_call itself, more or less or something else.  A value
\* of length 0, which the proxies refuse, is left out.
PacksFor(f) ==
    LET names == ProxyPacks[f]
        exact == [k \in DOMAIN names |-> Arg(names[k])]
        Longer(m) == exact \o [k \in 1..(m - Len(exact)) |-> Arg("extra")] IN
    {<<>>, Front(exact), exact, Longer(Len(exact) + 1), Longer(MaxParams),
     Longer(MaxParams + 1), [exact EXCEPT ![1].type = "int32"]}

\* The request is written.  A pack of too many parameters is no pack, and nothing is
\* sent; one of none is refused by hm_param_pack_send, when the name has been sent.
Call(f, params) ==
    LET name == <<Number(DataLength), Name(f)>> IN
    /\ client.at = "idle" /\ calls < MaxCalls
    /\ calls' = calls + 1 /\ call' = [f |-> f, params |-> params, late |-> closed]
    /\ IF ~Packs(params) \/ closed
       THEN Return("failed", <<>>) /\ UNCHANGED <<toServer, skewed>>
       ELSE /\ toServer' = toServer \o name \o PackFields(params)
            /\ IF params = <<>> THEN Return("failed", <<>>) /\ skewed' = TRUE
               ELSE /\ client' = At("status", 4) /\ returned' = NotReturned
                    /\ UNCHANGED skewed
    /\ ran' = NotRun
    /\ UNCHANGED <<store, hash, table, closed, toClient, server>>

\* A receive of the client succeeds.
ClientTakes(place, k) ==
    /\ client.at = place /\ Takes(toClient, client.need, k)
    /\ toClient' = Rest(toClient, k)
    /\ UNCHANGED <<store, hash, table, closed, toServer, calls, call, server, ran, skewed>>

\* The status; a proxy with out_params goes on to the pack.
ReadStatus ==
    /\ \E k \in DOMAIN toClient : ClientTakes("status", k)
    /\ LET error == Head(toClient).val IN
       IF error # "ok" THEN Return("error", <<>>)
       ELSE IF call.f \in DOMAIN ProxyResults
       THEN client' = At("length", 4) /\ UNCHANGED returned
       ELSE Return("ok", <<>>)

ReadReplyLength ==
    /\ \E k \in DOMAIN toClient : ClientTakes("length", k)
    /\ client' = At("pack", Head(toClient).val)
    /\ UNCHANGED returned

ReadReply == \E k \in DOMAIN toClient :
    /\ ClientTakes("pack", k)
    /\ LET got == SubSeq(toClient, 1, k)
           pack == Unpack(got)
           names == ProxyResults[call.f] IN
       IF Readable(got) /\ Extracts(pack, TypesOf(names))
       THEN Return("ok", [p \in ToSet(names) |-> ByName(names, pack, p)])
       ELSE Return("failed", <<>>)

ClientFails ==
    /\ client.at # "idle" /\ Fails(toClient, client.need)
    /\ Return("failed", <<>>)
    /\ UNCHANGED <<store, hash, table, closed, toServer, toClient, calls, call, server,
                   ran, skewed>>

\* The client closes the connection.
Leave ==
    /\ client.at = "idle" /\ ~closed
    /\ closed' = TRUE
    /\ UNCHANGED <<store, hash, table, toServer, toClient, calls, call, client, server,
                   returned, ran, skewed>>

-----------------------------------------------------------------------------
\* The server: hm_rpc_server_call in the loop of the service, and the stubs

ServerTakes(place, k) ==
    /\ server.at = place /\ Takes(toServer, server.need, k)
    /\ toServer' = Rest(toServer, k)
    /\ UNCHANGED <<store, hash, table, calls, call, client, returned, skewed>>

Answers(fields) ==
    /\ server' = Doing("length", 4, NoEntry)
    /\ toClient' = IF closed THEN toClient ELSE toClient \o fields
    /\ UNCHANGED closed

\* The service ends and closes the connection.  What it has sent last may be lost
\* where there is something left that it has not read.
EndsWith(fields) ==
    /\ server' = Doing("ended", 0, NoEntry) /\ closed' = TRUE
    /\ LET all == toClient \o (IF closed THEN <<>> ELSE fields) IN
       \E k \in (IF toServer' = <<>> THEN {} ELSE 0..Len(all)) \cup {Len(all)} :
            toClient' = SubSeq(all, 1, k)

\* Mutant: the service goes on when an answer has not been sent.
ServiceReturnsNever(fields) == Answers(fields)

\* The reply has not been sent whole: hm_rpc_server_call fails, the service returns.
ServiceReturns(fields) == EndsWith(fields)

ReadNameLength ==
    /\ \E k \in DOMAIN toServer : ServerTakes("length", k)
    /\ server' = Doing("name", Head(toServer).val, NoEntry)
    /\ UNCHANGED <<closed, toClient, ran>>

\* A function that is not registered ends the service.
ReadName ==
    /\ \E k \in DOMAIN toServer : ServerTakes("name", k)
    /\ LET f == TableGet(table, hash, Head(toServer).val) IN
       IF f = NoEntry THEN EndsWith(<<Number("error")>>)
       ELSE server' = Doing("pack length", 4, f) /\ UNCHANGED <<closed, toClient>>
    /\ UNCHANGED ran

ReadPackLength ==
    /\ \E k \in DOMAIN toServer : ServerTakes("pack length", k)
    /\ server' = Doing("pack", Head(toServer).val, server.func)
    /\ UNCHANGED <<closed, toClient, ran>>

\* What a store may give back empty: the contents of a file that a crash left empty.
Contents == {"read_token", "write_token", "owner_id", "block", "meta", "key"}
Result(name, empty) ==
    [type |-> TypeOf(name), val |-> IF name = empty THEN Empty ELSE <<"res", calls, name>>]

\* The stub extracts the parameters and the function of the store runs with them: it
\* refuses, or it has results, which the stub packs and the server sends.
Runs(f, pack) ==
    LET names == StubExtracts[f]
        args == [p \in ToSet(names) |-> ByName(names, pack, p)]
        results == IF f \in DOMAIN StubReplies THEN StubReplies[f] ELSE <<>> IN
    \/ /\ ran' = [f |-> f, args |-> args, as |-> "error", empty |-> None]
       /\ Answers(<<Number("error")>>)
    \/ \E empty \in (ToSet(results) \cap Contents) \cup {None} :
        LET fields == PackFields([k \in DOMAIN results |-> Result(results[k], empty)]) IN
        /\ ran' = [f |-> f, args |-> args, as |-> "ok", empty |-> empty]
        /\ IF Sent(fields) = fields THEN Answers(<<Number("ok")>> \o fields)
           ELSE ServiceReturns(<<Number("ok")>> \o Sent(fields))

ReadPack == \E k \in DOMAIN toServer :
    /\ ServerTakes("pack", k)
    /\ LET got == SubSeq(toServer, 1, k) IN
       IF ~Readable(got) THEN EndsWith(<<Number("error")>>) /\ UNCHANGED ran
       ELSE IF ~Extracts(Unpack(got), TypesOf(StubExtracts[server.func]))
       THEN Answers(<<Number("error")>>) /\ UNCHANGED ran
       ELSE Runs(server.func, Unpack(got))

\* A receive of the server fails, and the service ends: without a word while it waits
\* for a call, with HM_FAIL when it was a pack that did not come.
ServerFails ==
    /\ server.at # "ended" /\ Fails(toServer, server.need)
    /\ UNCHANGED <<store, hash, table, toServer, calls, call, client, returned, ran, skewed>>
    /\ EndsWith(IF server.at \in {"pack length", "pack"} THEN <<Number("error")>> ELSE <<>>)

-----------------------------------------------------------------------------

Client == ReadStatus \/ ReadReplyLength \/ ReadReply \/ ClientFails
Server == ReadNameLength \/ ReadName \/ ReadPackLength \/ ReadPack \/ ServerFails

Next ==
    \/ \E f \in Names : \E params \in PacksFor(f) : Call(f, params)
    \/ Leave \/ Client \/ Server

Spec == Init /\ [][Next]_vars

\* Both ends run; the client does not have to call, nor to leave.
FairSpec == Spec /\ WF_vars(Client) /\ WF_vars(Server)

-----------------------------------------------------------------------------
\* Properties

\* The parameters of the last call begin with what its proxy packs.
FitsSignature ==
    LET names == ProxyPacks[call.f] IN
    /\ Len(call.params) >= Len(names) /\ Len(call.params) <= MaxParams
    /\ \A k \in DOMAIN names : call.params[k].type = TypeOf(names[k])

\* What a function of the store is run with is what the client passed in this very call
\* under the name the function gives it: proxy and stub agree, and no field of one
\* call is taken for one of another.
ArgumentsArrive ==
    ran.as # None =>
        /\ ran.f = call.f
        /\ \A p \in DOMAIN ran.args : ran.args[p] = <<"arg", calls, p>>

\* A call that succeeds has been done, and returns the results of its own execution,
\* each under its name, also when one of them is empty and the connection dies of it.
ResultsReturn ==
    returned.as = "ok" =>
        /\ ran.as = "ok"
        /\ \A p \in DOMAIN returned.values :
             returned.values[p] = IF p = ran.empty THEN Empty ELSE <<"res", calls, p>>

\* A call is refused, or fails, for a reason: the store refused it or returned something
\* empty, the parameters do not fit, the store has no such function, or the
\* connection was out of step or closed.  In particular a server finds every function
\* it has registered, whichever of them share a bucket.
RefusalsExplained ==
    returned.as \in {"failed", "error"} =>
        \/ ran.as = "error" \/ ran.empty # None
        \/ ~FitsSignature \/ call.f \notin ToSet(Registered[store])
        \/ skewed \/ call.late

\* Every call returns: the server answers it, or ends and closes the connection.
RemoteCallEnds == client.at # "idle" ~> client.at = "idle"
=============================================================================
