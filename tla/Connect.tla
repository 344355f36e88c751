------------------------------- MODULE Connect -------------------------------
(***************************************************************************)
(* How a client of the examples connects (client/hermes_client.c): to the  *)
(* credential store, the key store and the data store, each of which serves*)
(* a connection in a thread of its own (the main.c of the three services). *)
(* A thread of the key store or the data store first connects to the       *)
(* credential store itself, and asks it for the client's public key in the *)
(* middle of the handshake with the client (session_callback.c).           *)
(*                                                                         *)
(* A handshake is Themis' four messages, driven by init_secure_session at  *)
(* both ends.  A receive may always fail, since a short read ends it; that *)
(* stands for a failing send and for data lost with a connection as well.  *)
(***************************************************************************)
EXTENDS Naturals, Sequences, FiniteSets

CONSTANTS MaxCalls,     \* bound: remote calls of the client's command
          MaxCrashes    \* bound: services killed

ASSUME ConnectAssumption == MaxCalls \in Nat /\ MaxCrashes \in Nat

\* A connection is named by who dialled and whom; the client dials in this order.
ClientLinks == <<<<"c", "cs">>, <<"c", "ks">>, <<"c", "ds">>>>
ServiceLinks == {<<"c", "ks">>, <<"c", "ds">>}
StoreLink(l) == <<l[2], "cs">>
Links == {ClientLinks[n] : n \in 1..3} \cup {StoreLink(l) : l \in ServiceLinks}
Services == {"cs", "ks", "ds"}

VARIABLES known,     \* the credential store has the client's public key
          client,    \* "running" or "gone"
          calls,     \* remote calls the client has made
          calling,   \* the connections it waits on for an answer
          running,   \* the services that run
          socks,     \* socks[l]: who holds a socket of the connection
          req, rsp,  \* messages to the dialled and to the dialler
          dial,      \* dial[l]: what the dialler waits for
          serve,     \* serve[l]: where the service's thread for l is
          crashes

vars == <<known, client, calls, calling, running, socks, req, rsp, dial, serve, crashes>>
clientVars == <<client, calls, calling>>
worldVars == <<known, running, crashes>>

Messages == {"hs1", "hs2", "hs3", "hs4", "query", "found", "unknown", "call", "answer"}

\* The type invariant; the ends of a connection take turns, so that at most one message
\* is under way in a direction.
TypeOK ==
    /\ known \in BOOLEAN
    /\ client \in {"running", "gone"} /\ calls \in 0..MaxCalls
    /\ calling \subseteq {ClientLinks[n] : n \in 1..3}
    /\ running \subseteq Services
    /\ socks \in [Links -> SUBSET {"c", "cs", "ks", "ds"}]
    /\ req \in [Links -> Seq(Messages)] /\ rsp \in [Links -> Seq(Messages)]
    /\ \A l \in Links : Len(req[l]) <= 1 /\ Len(rsp[l]) <= 1
    /\ dial \in [Links -> {"none", "hs2", "hs4", "up", "failed"}]
    /\ serve \in [Links -> {"none", "backlog", "dialling", "hs1", "lookup", "hs3",
                            "serving", "gone"}]
    /\ crashes \in 0..MaxCrashes

Init ==
    /\ known \in BOOLEAN
    /\ client = "running" /\ calls = 0 /\ calling = {}
    /\ running = Services
    /\ socks = [l \in Links |-> {}]
    /\ req = [l \in Links |-> <<>>] /\ rsp = [l \in Links |-> <<>>]
    /\ dial = [l \in Links |-> "none"] /\ serve = [l \in Links |-> "none"]
    /\ crashes = 0

-----------------------------------------------------------------------------
\* Sockets

Sent(queues, l, m) == [queues EXCEPT ![l] = Append(@, m)]

\* x closes its socket of each connection in ls.
Closed(ls, x) == [l \in Links |-> IF l \in ls THEN socks[l] \ {x} ELSE socks[l]]

\* The next message that the dialler, or the server, of l reads is m.  At the end of
\* the stream, or with part of a message, a read fails.
ToDialler(l, m) == rsp[l] # <<>> /\ Head(rsp[l]) = m
ToServer(l, m) == req[l] # <<>> /\ Head(req[l]) = m
Taken(queues, l) == [queues EXCEPT ![l] = Tail(@)]
DiallerReadFails(l) == rsp[l] # <<>> \/ l[2] \notin socks[l]
ServerReadFails(l) == req[l] # <<>> \/ l[1] \notin socks[l]

-----------------------------------------------------------------------------
\* The dialler's end: server_connect, create_secure_transport, and
\* init_secure_session with is_server false

\* A service that runs has a socket that listens, so that its kernel accepts.
Dial(l) ==
    /\ dial[l] = "none"
    /\ IF l[2] \in running
       THEN /\ socks' = [socks EXCEPT ![l] = {l[1], l[2]}]
            /\ req' = Sent(req, l, "hs1")
            /\ dial' = [dial EXCEPT ![l] = "hs2"]
            /\ serve' = [serve EXCEPT ![l] = "backlog"]
       ELSE /\ dial' = [dial EXCEPT ![l] = "failed"]
            /\ UNCHANGED <<socks, req, serve>>
    /\ UNCHANGED <<clientVars, worldVars, rsp>>

\* The client, and a service towards the credential store, knows the one key it
\* expects (get_public_key_for_id_wrapper).
Handshake(l) ==
    /\ \/ /\ dial[l] = "hs2" /\ ToDialler(l, "hs2")
          /\ rsp' = Taken(rsp, l)
          /\ req' = Sent(req, l, "hs3")
          /\ dial' = [dial EXCEPT ![l] = "hs4"]
       \/ /\ dial[l] = "hs4" /\ ToDialler(l, "hs4")
          /\ rsp' = Taken(rsp, l)
          /\ dial' = [dial EXCEPT ![l] = "up"]
          /\ UNCHANGED req
       \/ /\ dial[l] \in {"hs2", "hs4"} /\ DiallerReadFails(l)
          /\ dial' = [dial EXCEPT ![l] = "failed"]
          /\ UNCHANGED <<req, rsp>>
    /\ UNCHANGED <<clientVars, worldVars, socks, serve>>

-----------------------------------------------------------------------------
\* The client: main of hermes_client.c

Connected(n) == \A m \in 1..n : dial[ClientLinks[m]] = "up"

ClientConnects(n) ==
    /\ client = "running" /\ Connected(n - 1)
    /\ Dial(ClientLinks[n]) \/ Handshake(ClientLinks[n])

\* The process ends, and its sockets with it.
ClientLeaves ==
    /\ client' = "gone" /\ calling' = {}
    /\ socks' = Closed(Links, "c")
    /\ UNCHANGED <<calls, worldVars, req, rsp, dial, serve>>

ClientFails ==
    /\ client = "running"
    /\ \/ \E n \in 1..3 : dial[ClientLinks[n]] = "failed"
       \/ \E l \in calling : DiallerReadFails(l)
    /\ ClientLeaves

\* Mutant: the client does not wait for the answer.
ClientCallsOn(l) ==
    /\ client = "running" /\ Connected(3) /\ calling = {} /\ calls < MaxCalls
    /\ calls' = calls + 1
    /\ req' = Sent(req, l, "call")
    /\ UNCHANGED <<client, calling, worldVars, socks, rsp, dial, serve>>

\* The command makes remote calls, one at a time, of any of the stores.
ClientCalls(l) ==
    /\ client = "running" /\ Connected(3) /\ calling = {} /\ calls < MaxCalls
    /\ calls' = calls + 1 /\ calling' = {l}
    /\ req' = Sent(req, l, "call")
    /\ UNCHANGED <<client, worldVars, socks, rsp, dial, serve>>

ClientAnswered(l) ==
    /\ l \in calling /\ ToDialler(l, "answer")
    /\ rsp' = Taken(rsp, l)
    /\ calling' = {}
    /\ UNCHANGED <<client, calls, worldVars, socks, req, dial, serve>>

ClientExits ==
    /\ client = "running" /\ Connected(3) /\ calling = {}
    /\ ClientLeaves

\* The user interrupts it.
ClientQuits == client = "running" /\ ClientLeaves

-----------------------------------------------------------------------------
\* The services' main loops

Accept(l) ==
    /\ serve[l] = "backlog"
    /\ serve' = [serve EXCEPT ![l] = IF l \in ServiceLinks THEN "dialling" ELSE "hs1"]
    /\ UNCHANGED <<clientVars, worldVars, socks, req, rsp, dial>>

\* pthread_create fails: the socket stays open and nobody serves it.
AcceptFails(l) ==
    /\ serve[l] = "backlog"
    /\ serve' = [serve EXCEPT ![l] = "gone"]
    /\ UNCHANGED <<clientVars, worldVars, socks, req, rsp, dial>>

-----------------------------------------------------------------------------
\* A thread of the key store or the data store: key_store, data_store in main.c

\* server_connect and create_secure_transport towards the credential store; then
\* the thread turns to the client.
ServiceDials(l) ==
    /\ serve[l] = "dialling"
    /\ Dial(StoreLink(l)) \/ Handshake(StoreLink(l))

ServiceTurnsToClient(l) ==
    /\ serve[l] = "dialling" /\ dial[StoreLink(l)] = "up"
    /\ serve' = [serve EXCEPT ![l] = "hs1"]
    /\ UNCHANGED <<clientVars, worldVars, socks, req, rsp, dial>>

\* Mutant: the thread waits for the credential store to come back.
ServiceGivesUpNever(l) == FALSE

\* The thread returns: it has closed its connection to the credential store, and
\* leaves the client's open.
ServiceGivesUp(l) ==
    /\ serve[l] = "dialling" /\ dial[StoreLink(l)] = "failed"
    /\ socks' = Closed({StoreLink(l)}, l[2])
    /\ serve' = [serve EXCEPT ![l] = "gone"]
    /\ UNCHANGED <<clientVars, worldVars, req, rsp, dial>>

\* The client's first message names it: the callback that Themis calls asks the
\* credential store for its key, by a remote call.
ServiceAsks(l) ==
    /\ serve[l] = "hs1" /\ ToServer(l, "hs1")
    /\ req' = Sent(Taken(req, l), StoreLink(l), "query")
    /\ serve' = [serve EXCEPT ![l] = "lookup"]
    /\ UNCHANGED <<clientVars, worldVars, socks, rsp, dial>>

\* Mutant: the callback takes a call that failed for a key that was found.
KeyFoundOrFailed(l) == ToDialler(StoreLink(l), "found") \/ DiallerReadFails(StoreLink(l))

KeyFound(l) == ToDialler(StoreLink(l), "found")

ServiceLearnsKey(l) ==
    /\ serve[l] = "lookup" /\ KeyFound(l)
    /\ rsp' = Sent(IF rsp[StoreLink(l)] = <<>> THEN rsp ELSE Taken(rsp, StoreLink(l)), l, "hs2")
    /\ serve' = [serve EXCEPT ![l] = "hs3"]
    /\ UNCHANGED <<clientVars, worldVars, socks, req, dial>>

\* create_secure_transport_with_callback fails.  The key store's thread returns and
\* leaves both of its connections open.  The data store's does not look: service_create
\* refuses the missing transport, and it closes the client's connection.
ServiceAbandons(l) ==
    /\ \/ serve[l] \in {"hs1", "hs3"} /\ ServerReadFails(l)
       \/ serve[l] = "lookup" /\ DiallerReadFails(StoreLink(l))
    /\ serve' = [serve EXCEPT ![l] = "gone"]
    /\ socks' = IF l[2] = "ds" THEN Closed({l}, "ds") ELSE socks
    /\ UNCHANGED <<clientVars, worldVars, req, rsp, dial>>

-----------------------------------------------------------------------------
\* A thread of the credential store: credential_store in main.c

\* Its callback reads the client's key from its own files; the services are known.
StoreAccepts(l) ==
    /\ l[2] = "cs" /\ serve[l] = "hs1" /\ ToServer(l, "hs1")
    /\ l[1] = "c" => known
    /\ req' = Taken(req, l)
    /\ rsp' = Sent(rsp, l, "hs2")
    /\ serve' = [serve EXCEPT ![l] = "hs3"]
    /\ UNCHANGED <<clientVars, worldVars, socks, dial>>

\* Mutant: like the key store, it leaves the connection open.
StoreRefusesOpen(l) ==
    /\ l[2] = "cs" /\ serve[l] \in {"hs1", "hs3"} /\ ServerReadFails(l)
    /\ serve' = [serve EXCEPT ![l] = "gone"]
    /\ UNCHANGED <<clientVars, worldVars, socks, req, rsp, dial>>

\* No secure transport: service_create returns NULL, and the thread closes the
\* connection before it returns.
StoreRefuses(l) ==
    /\ l[2] = "cs" /\ serve[l] \in {"hs1", "hs3"} /\ ServerReadFails(l)
    /\ socks' = Closed({l}, "cs")
    /\ serve' = [serve EXCEPT ![l] = "gone"]
    /\ UNCHANGED <<clientVars, worldVars, req, rsp, dial>>

StoreAnswersQuery(l) ==
    /\ serve[l] = "serving" /\ ToServer(l, "query")
    /\ req' = Taken(req, l)
    /\ rsp' = Sent(rsp, l, IF known THEN "found" ELSE "unknown")
    /\ UNCHANGED <<clientVars, worldVars, socks, dial, serve>>

-----------------------------------------------------------------------------
\* Any service's thread, once the handshake has come that far

Established(l) ==
    /\ serve[l] = "hs3" /\ ToServer(l, "hs3")
    /\ req' = Taken(req, l)
    /\ rsp' = Sent(rsp, l, "hs4")
    /\ serve' = [serve EXCEPT ![l] = "serving"]
    /\ UNCHANGED <<clientVars, worldVars, socks, dial>>

ServesCall(l) ==
    /\ serve[l] = "serving" /\ ToServer(l, "call")
    /\ req' = Taken(req, l)
    /\ rsp' = Sent(rsp, l, "answer")
    /\ UNCHANGED <<clientVars, worldVars, socks, dial, serve>>

\* Mutant: the thread forgets to destroy its transport.
ServiceEndsOpen(l) ==
    /\ serve[l] = "serving" /\ ServerReadFails(l)
    /\ serve' = [serve EXCEPT ![l] = "gone"]
    /\ UNCHANGED <<clientVars, worldVars, socks, req, rsp, dial>>

\* hm_*_service_start returns and transport_destroy closes the connection; the one
\* to the credential store stays open.
ServiceEnds(l) ==
    /\ serve[l] = "serving" /\ ServerReadFails(l)
    /\ socks' = Closed({l}, l[2])
    /\ serve' = [serve EXCEPT ![l] = "gone"]
    /\ UNCHANGED <<clientVars, worldVars, req, rsp, dial>>

-----------------------------------------------------------------------------
\* Services come and go

\* A service is killed, or ends itself: exit_handler, or a write to a connection that
\* the peer has closed, since nothing ignores SIGPIPE.
Crash(p) ==
    LET own == {l \in Links : l[1] = p}
        served == {l \in Links : l[2] = p} IN
    /\ p \in running /\ crashes < MaxCrashes
    /\ running' = running \ {p} /\ crashes' = crashes + 1
    /\ UNCHANGED known
    /\ socks' = Closed(Links, p)
    /\ serve' = [l \in Links |-> IF l \in served /\ serve[l] # "none" THEN "gone" ELSE serve[l]]
    /\ dial' = [l \in Links |-> IF l \in own /\ dial[l] # "none" THEN "failed" ELSE dial[l]]
    /\ UNCHANGED <<clientVars, req, rsp>>

Restart(p) ==
    /\ p \notin running
    /\ running' = running \cup {p}
    /\ UNCHANGED <<known, clientVars, socks, req, rsp, dial, serve, crashes>>

\* The client's key is taken out of the credential store.
Removed ==
    /\ known /\ known' = FALSE
    /\ UNCHANGED <<clientVars, running, crashes, socks, req, rsp, dial, serve>>

-----------------------------------------------------------------------------
\* The specification

ClientStep ==
    \/ \E n \in 1..3 : ClientConnects(n)
    \/ \E l \in calling : ClientAnswered(l)
    \/ ClientFails \/ ClientExits

ThreadStep(l) ==
    \/ Accept(l)
    \/ /\ l \in ServiceLinks
       /\ \/ ServiceDials(l) \/ ServiceTurnsToClient(l) \/ ServiceGivesUp(l)
          \/ ServiceAsks(l) \/ ServiceLearnsKey(l) \/ ServiceAbandons(l)
    \/ StoreAccepts(l) \/ StoreRefuses(l) \/ StoreAnswersQuery(l)
    \/ Established(l) \/ ServesCall(l) \/ ServiceEnds(l)

Next ==
    \/ ClientStep \/ ClientQuits
    \/ \E n \in 1..3 : ClientCalls(ClientLinks[n])
    \/ \E l \in Links : ThreadStep(l) \/ AcceptFails(l)
    \/ \E p \in Services : Crash(p) \/ Restart(p)
    \/ Removed

Spec == Init /\ [][Next]_vars

\* The client and the services' threads run.  Nothing obliges a client to call or to
\* quit, a service to crash or to come back, or a thread to fail to start.
FairSpec ==
    /\ Spec
    /\ WF_vars(ClientStep)
    /\ \A l \in Links : WF_vars(ThreadStep(l))

-----------------------------------------------------------------------------
\* Properties

\* The server of l has no thread for it any more and holds its socket, so that the
\* dialler will neither be answered nor see the connection end.
Abandoned(l) ==
    serve[l] = "gone" /\ l[2] \in socks[l] /\ dial[l] \in {"hs2", "hs4"}

\* A client that is unknown to the credential store by the time a service comes to ask
\* for its key is never served: whichever service dies, and whatever is cut short in the
\* middle of the handshake, a lookup that failed is not taken for one that found a key.
UnknownNotServed ==
    \A l \in ServiceLinks :
        [](~known /\ serve[l] \in {"none", "backlog", "dialling", "hs1"}
            => [](serve[l] # "serving"))

\* A client that has its connection is not left waiting: for as long as it may call,
\* the server's thread is there, or the end of the connection can be seen.
EstablishedNeverAbandoned ==
    \A l \in Links : dial[l] = "up" => serve[l] = "serving" \/ l[2] \notin socks[l]

\* The client gets through or gives up, unless a thread that was to serve it, or to
\* answer the one that serves it, returned and left its connection open.
ClientEnds == client = "running" ~> (client = "gone" \/ \E l \in Links : Abandoned(l))

\* When the client is gone, so are the threads that served it, unless one waits for
\* the credential store in a handshake that nobody answers.
ThreadsEnd ==
    client = "gone" ~>
        \/ \A n \in 1..3 : serve[ClientLinks[n]] \in {"none", "gone"}
        \/ \E l \in ServiceLinks : Abandoned(StoreLink(l))

\* The credential store is never the one that abandons a client, as long as its
\* threads start: it closes the connection of a handshake that fails.
StoreNeverAbandons ==
    [][\A l \in Links : l[2] = "cs" /\ serve[l] # "backlog" => (Abandoned(l)' => Abandoned(l))]_vars
=============================================================================
