--------------------------- MODULE ConnectProofs ---------------------------
(***************************************************************************)
(* Proofs about Connect for any number of remote calls and of crashes.     *)
(***************************************************************************)
EXTENDS Connect, TLAPS

-----------------------------------------------------------------------------
\* The inductive invariant: the ends of a connection take turns.

\* What may be under way in one direction: nothing, or one message.
Slot == {<<>>} \cup {<<m>> : m \in Messages}

Silent(l) == req[l] = <<>> /\ rsp[l] = <<>>

CLinks == {<<"c", "cs">>, <<"c", "ks">>, <<"c", "ds">>}

Types ==
    /\ known \in BOOLEAN
    /\ client \in {"running", "gone"} /\ calls \in 0..MaxCalls
    /\ calling \subseteq CLinks
    /\ running \subseteq Services
    /\ socks \in [Links -> SUBSET {"c", "cs", "ks", "ds"}]
    /\ req \in [Links -> Slot] /\ rsp \in [Links -> Slot]
    /\ dial \in [Links -> {"none", "hs2", "hs4", "up", "failed"}]
    /\ serve \in [Links -> {"none", "backlog", "dialling", "hs1", "lookup", "hs3",
                            "serving", "gone"}]
    /\ crashes \in 0..MaxCrashes

\* A connection.  A message is answered before the next one is sent, in either
\* direction; the server of one that is established is there, or has closed it; while a
\* service asks for the client's key, the client waits.
Turn(l) ==
    /\ req[l] = <<>> \/ rsp[l] = <<>>
    /\ dial[l] = "none" => serve[l] = "none" /\ Silent(l)
    /\ dial[l] = "up" \/ rsp[l] = <<"hs4">>
            => serve[l] = "serving" \/ (serve[l] = "gone" /\ l[2] \notin socks[l])
    /\ serve[l] = "lookup" => Silent(l)

Turns == \A l \in Links : Turn(l)

\* The client has one call under way, and nothing on the connections it does not wait on.
ClientTurns ==
    /\ \A k, l \in calling : k = l
    /\ \A l \in CLinks :
            client = "running" /\ dial[l] = "up" /\ l \notin calling => Silent(l)

\* Nothing has been asked, nor answered, over the connection to the credential store.
Unasked(l) == req[StoreLink(l)] # <<"query">> /\ rsp[StoreLink(l)] # <<"found">>

\* That connection until the service asks over it for the client's key.
StoreTurn(l) ==
    /\ serve[l] \in {"none", "backlog"} => dial[StoreLink(l)] = "none"
    /\ serve[l] = "hs1" => dial[StoreLink(l)] = "up"
    /\ serve[l] \in {"dialling", "hs1"} /\ dial[StoreLink(l)] = "up" => Silent(StoreLink(l))
    /\ serve[l] \in {"none", "backlog", "dialling", "hs1"} => Unasked(l)

StoreTurns == \A l \in ServiceLinks : StoreTurn(l)

IInv == Types /\ Turns /\ ClientTurns /\ StoreTurns

-----------------------------------------------------------------------------
\* The connections and the queues.

LEMMA LinkFacts ==
    /\ CLinks \subseteq Links /\ ServiceLinks \subseteq CLinks
    /\ CLinks = {ClientLinks[n] : n \in 1..3}
    /\ \A l \in ServiceLinks :
            /\ StoreLink(l) \in Links \ CLinks /\ l[2] # "cs"
            /\ StoreLink(l)[1] = l[2] /\ StoreLink(l)[2] = "cs"
    /\ \A k, l \in ServiceLinks : StoreLink(k) = StoreLink(l) => k = l
    /\ \A l \in CLinks : l[1] = "c"
    /\ \A l \in Links : l[1] \in {"c", "ks", "ds"} /\ l[2] \in Services
  BY DEF CLinks, Links, ClientLinks, ServiceLinks, StoreLink, Services

LEMMA SlotFacts ==
    /\ <<>> \in Slot
    /\ \A m \in Messages : <<m>> \in Slot /\ <<m>> # <<>> /\ Append(<<>>, m) = <<m>>
    /\ \A q \in Slot : q # <<>> => Tail(q) = <<>>
    /\ \A q \in Slot, m \in Messages : q # <<>> /\ Head(q) = m <=> q = <<m>>
    /\ \A m, n \in Messages : <<m>> = <<n>> => m = n
  BY DEF Slot, Messages

LEMMA MessageFacts ==
    /\ {"hs1", "hs2", "hs3", "hs4"} \subseteq Messages
    /\ {"query", "found", "unknown", "call", "answer"} \subseteq Messages
  BY DEF Messages

-----------------------------------------------------------------------------
\* The dialler's steps.  A store's connection is dialled by a thread that is about
\* to ask over it.

DialsFor(l) ==
    \/ l \in CLinks
    \/ \E k \in ServiceLinks : l = StoreLink(k) /\ serve[k] = "dialling"

LEMMA DialKeeps ==
  ASSUME IInv, NEW l \in Links, DialsFor(l), Dial(l)
  PROVE  IInv'
<1> USE LinkFacts, SlotFacts DEF IInv, DialsFor
<1>1. dial[l] = "none" /\ serve[l] = "none" /\ Silent(l)
  BY DEF Dial, Turns, Turn
<1>2. UNCHANGED <<clientVars, worldVars, rsp>>
  BY DEF Dial
<1> USE <1>1, <1>2 DEF clientVars, worldVars
<1>3. CASE l[2] \in running
  <2>1. Sent(req, l, "hs1") = [req EXCEPT ![l] = <<"hs1">>]
    BY MessageFacts DEF Sent, Taken, Silent, Types
  <2>2. /\ socks' = [socks EXCEPT ![l] = {l[1], l[2]}]
        /\ req' = [req EXCEPT ![l] = <<"hs1">>]
        /\ dial' = [dial EXCEPT ![l] = "hs2"]
        /\ serve' = [serve EXCEPT ![l] = "backlog"]
    BY <1>3, <2>1 DEF Dial
  <2>3. {l[1], l[2]} \in SUBSET {"c", "cs", "ks", "ds"}
    BY DEF Services
  <2> USE <2>2, <2>3
  <2>4. Types'
    BY DEF Types, Messages
  <2>5. Turns'
    BY DEF Turns, Turn, Silent, Types, Messages
  <2>6. ClientTurns'
    BY DEF ClientTurns, Silent, Turns, Turn, Types
  <2>7. StoreTurns'
    BY DEF StoreTurns, StoreTurn, Unasked, Silent, Turns, Turn, Types, Messages
  <2>8. QED
    BY <2>4, <2>5, <2>6, <2>7
<1>4. CASE l[2] \notin running
  <2>1. dial' = [dial EXCEPT ![l] = "failed"] /\ UNCHANGED <<socks, req, serve>>
    BY <1>4 DEF Dial
  <2> USE <2>1
  <2>2. Types'
    BY DEF Types, Messages
  <2>3. Turns'
    BY DEF Turns, Turn, Silent, Types, Messages
  <2>4. ClientTurns'
    BY DEF ClientTurns, Silent, Turns, Turn, Types
  <2>5. StoreTurns'
    BY DEF StoreTurns, StoreTurn, Unasked, Silent, Turns, Turn, Types, Messages
  <2>6. QED
    BY <2>2, <2>3, <2>4, <2>5
<1>5. QED
  BY <1>3, <1>4

LEMMA HandshakeKeeps ==
  ASSUME IInv, NEW l \in Links, DialsFor(l), Handshake(l)
  PROVE  IInv'
<1> USE LinkFacts, SlotFacts DEF IInv, DialsFor
<1>1. UNCHANGED <<clientVars, worldVars, socks, serve>>
  BY DEF Handshake
<1> USE <1>1 DEF clientVars, worldVars
<1>2. CASE /\ dial[l] = "hs2" /\ ToDialler(l, "hs2")
           /\ rsp' = Taken(rsp, l)
           /\ req' = Sent(req, l, "hs3")
           /\ dial' = [dial EXCEPT ![l] = "hs4"]
  <2>1. /\ rsp[l] = <<"hs2">> /\ req[l] = <<>>
        /\ rsp' = [rsp EXCEPT ![l] = <<>>]
        /\ req' = [req EXCEPT ![l] = <<"hs3">>]
        /\ dial' = [dial EXCEPT ![l] = "hs4"]
    BY <1>2, MessageFacts DEF Sent, Taken, ToDialler, Messages, Types, Turns, Turn
  <2> USE <2>1
  <2>2. Types'
    BY DEF Types, Messages
  <2>3. Turns'
    BY DEF Turns, Turn, Silent, Types, Messages
  <2>4. ClientTurns'
    BY DEF ClientTurns, Silent, Turns, Turn, Types
  <2>5. StoreTurns'
    BY DEF StoreTurns, StoreTurn, Unasked, Silent, Turns, Turn, Types, Messages
  <2>6. QED
    BY <2>2, <2>3, <2>4, <2>5
<1>3. CASE /\ dial[l] = "hs4" /\ ToDialler(l, "hs4")
           /\ rsp' = Taken(rsp, l)
           /\ dial' = [dial EXCEPT ![l] = "up"]
           /\ UNCHANGED req
  <2>1. /\ rsp[l] = <<"hs4">> /\ req[l] = <<>>
        /\ rsp' = [rsp EXCEPT ![l] = <<>>]
        /\ dial' = [dial EXCEPT ![l] = "up"]
        /\ UNCHANGED req
    BY <1>3, MessageFacts DEF Sent, Taken, ToDialler, Messages, Types, Turns, Turn
  <2> USE <2>1
  <2>2. Types'
    BY DEF Types, Messages
  <2>3. Turns'
    BY DEF Turns, Turn, Silent, Types, Messages
  <2>4. ClientTurns'
    BY DEF ClientTurns, Silent, Turns, Turn, Types
  <2>5. StoreTurns'
    BY DEF StoreTurns, StoreTurn, Unasked, Silent, Turns, Turn, Types, Messages
  <2>6. QED
    BY <2>2, <2>3, <2>4, <2>5
<1>4. CASE /\ dial[l] \in {"hs2", "hs4"}
           /\ dial' = [dial EXCEPT ![l] = "failed"]
           /\ UNCHANGED <<req, rsp>>
  <2> USE <1>4
  <2>1. Types'
    BY DEF Types, Messages
  <2>2. Turns'
    BY DEF Turns, Turn, Silent, Types, Messages
  <2>3. ClientTurns'
    BY DEF ClientTurns, Silent, Turns, Turn, Types
  <2>4. StoreTurns'
    BY DEF StoreTurns, StoreTurn, Unasked, Silent, Turns, Turn, Types, Messages
  <2>5. QED
    BY <2>1, <2>2, <2>3, <2>4
<1>5. QED
  BY <1>2, <1>3, <1>4 DEF Handshake

-----------------------------------------------------------------------------
\* The client's steps.

LEMMA ClientLeavesKeeps ==
  ASSUME IInv, ClientLeaves
  PROVE  IInv'
<1> USE LinkFacts, SlotFacts DEF IInv
<1>1. /\ client' = "gone" /\ calling' = {}
      /\ socks' = Closed(Links, "c")
  BY DEF ClientLeaves
<1>2. UNCHANGED <<known, calls, running, req, rsp, dial, serve, crashes>>
  BY DEF ClientLeaves, worldVars
<1> USE <1>1, <1>2
<1>3. Types'
  BY DEF Types, Messages, Closed
<1>4. Turns'
  BY DEF Turns, Turn, Silent, Types, Messages, Closed
<1>5. ClientTurns'
  BY DEF ClientTurns, Silent, Turns, Turn, Types, Closed
<1>6. StoreTurns'
  BY DEF StoreTurns, StoreTurn, Unasked, Silent, Turns, Turn, Types, Messages, Closed
<1>7. QED
  BY <1>3, <1>4, <1>5, <1>6

LEMMA ClientCallsKeeps ==
  ASSUME IInv, NEW l \in CLinks, ClientCalls(l)
  PROVE  IInv'
<1> USE LinkFacts, SlotFacts DEF IInv
<1>1. /\ client = "running" /\ calling = {}
      /\ l \in Links /\ dial[l] = "up"
  BY DEF ClientCalls, Connected
<1>2. Silent(l)
  BY <1>1 DEF ClientTurns
<1>3. /\ calls' \in 0..MaxCalls /\ calling' = {l}
      /\ req' = [req EXCEPT ![l] = <<"call">>]
  BY <1>1, <1>2, MessageFacts, ConnectAssumption DEF Sent, ClientCalls, Silent, Types
<1>4. UNCHANGED <<known, client, running, socks, rsp, dial, serve, crashes>>
  BY DEF ClientCalls, worldVars
<1> USE <1>1, <1>2, <1>3, <1>4
<1>5. Types'
  BY DEF Types, Messages
<1>6. Turns'
  BY DEF Turns, Turn, Silent, Types, Messages
<1>7. ClientTurns'
  BY DEF ClientTurns, Silent, Turns, Turn, Types
<1>8. StoreTurns'
  BY DEF StoreTurns, StoreTurn, Unasked, Silent, Turns, Turn, Types, Messages
<1>9. QED
  BY <1>5, <1>6, <1>7, <1>8

LEMMA ClientAnsweredKeeps ==
  ASSUME IInv, NEW l \in calling, ClientAnswered(l)
  PROVE  IInv'
<1> USE LinkFacts, SlotFacts DEF IInv
<1>1. /\ l \in CLinks /\ rsp[l] = <<"answer">> /\ req[l] = <<>>
      /\ rsp' = [rsp EXCEPT ![l] = <<>>] /\ calling' = {}
  BY MessageFacts DEF Sent, Taken, ClientAnswered, ToDialler, Messages, Types, Turns, Turn
<1>2. UNCHANGED <<known, client, calls, running, socks, req, dial, serve, crashes>>
  BY DEF ClientAnswered, worldVars
<1> USE <1>1, <1>2
<1>3. Types'
  BY DEF Types, Messages
<1>4. Turns'
  BY DEF Turns, Turn, Silent, Types, Messages
<1>5. ClientTurns'
  BY DEF ClientTurns, Silent, Turns, Turn, Types
<1>6. StoreTurns'
  BY DEF StoreTurns, StoreTurn, Unasked, Silent, Turns, Turn, Types, Messages
<1>7. QED
  BY <1>3, <1>4, <1>5, <1>6

-----------------------------------------------------------------------------
\* The steps of a service's thread.

LEMMA AcceptKeeps ==
  ASSUME IInv, NEW l \in Links, Accept(l) \/ AcceptFails(l)
  PROVE  IInv'
<1> USE LinkFacts, SlotFacts DEF IInv
<1>1. /\ serve[l] = "backlog"
      /\ \/ l \in ServiceLinks /\ serve' = [serve EXCEPT ![l] = "dialling"]
         \/ l \notin ServiceLinks /\ serve' = [serve EXCEPT ![l] = "hs1"]
         \/ serve' = [serve EXCEPT ![l] = "gone"]
  BY DEF Accept, AcceptFails
<1>2. UNCHANGED <<known, client, calls, calling, running, socks, req, rsp, dial, crashes>>
  BY DEF Accept, AcceptFails, clientVars, worldVars
<1> USE <1>1, <1>2
<1>3. Types'
  BY DEF Types, Messages
<1>4. Turns'
  BY DEF Turns, Turn, Silent, Types, Messages
<1>5. ClientTurns'
  BY DEF ClientTurns, Silent, Turns, Turn, Types
<1>6. StoreTurns'
  BY DEF StoreTurns, StoreTurn, Unasked, Silent, Turns, Turn, Types, Messages
<1>7. QED
  BY <1>3, <1>4, <1>5, <1>6

LEMMA ServiceTurnsToClientKeeps ==
  ASSUME IInv, NEW l \in ServiceLinks, ServiceTurnsToClient(l)
  PROVE  IInv'
<1> USE LinkFacts, SlotFacts DEF IInv
<1>1. /\ serve[l] = "dialling" /\ dial[StoreLink(l)] = "up"
      /\ serve' = [serve EXCEPT ![l] = "hs1"]
  BY DEF ServiceTurnsToClient
<1>2. UNCHANGED <<known, client, calls, calling, running, socks, req, rsp, dial, crashes>>
  BY DEF ServiceTurnsToClient, clientVars, worldVars
<1> USE <1>1, <1>2
<1>3. Types'
  BY DEF Types, Messages
<1>4. Turns'
  BY DEF Turns, Turn, Silent, Types, Messages
<1>5. ClientTurns'
  BY DEF ClientTurns, Silent, Turns, Turn, Types
<1>6. StoreTurns'
  BY DEF StoreTurns, StoreTurn, Unasked, Silent, Turns, Turn, Types, Messages
<1>7. QED
  BY <1>3, <1>4, <1>5, <1>6

LEMMA ServiceGivesUpKeeps ==
  ASSUME IInv, NEW l \in ServiceLinks, ServiceGivesUp(l)
  PROVE  IInv'
<1> USE LinkFacts, SlotFacts DEF IInv
<1>1. /\ serve[l] = "dialling" /\ dial[StoreLink(l)] = "failed"
      /\ serve' = [serve EXCEPT ![l] = "gone"]
      /\ socks' = Closed({StoreLink(l)}, l[2])
  BY DEF ServiceGivesUp
<1>2. UNCHANGED <<known, client, calls, calling, running, req, rsp, dial, crashes>>
  BY DEF ServiceGivesUp, clientVars, worldVars
<1> USE <1>1, <1>2
<1>3. Types'
  BY DEF Types, Messages, Closed
<1>4. Turns'
  BY DEF Turns, Turn, Silent, Types, Messages, Closed
<1>5. ClientTurns'
  BY DEF ClientTurns, Silent, Turns, Turn, Types, Closed
<1>6. StoreTurns'
  BY DEF StoreTurns, StoreTurn, Unasked, Silent, Turns, Turn, Types, Messages, Closed
<1>7. QED
  BY <1>3, <1>4, <1>5, <1>6

LEMMA ServiceAsksKeeps ==
  ASSUME IInv, NEW l \in ServiceLinks, ServiceAsks(l)
  PROVE  IInv'
<1> USE LinkFacts, SlotFacts DEF IInv
<1>1. l \in Links /\ StoreLink(l) \in Links /\ StoreLink(l) # l
  OBVIOUS
<1>2. /\ serve[l] = "hs1" /\ req[l] = <<"hs1">> /\ rsp[l] = <<>>
      /\ Silent(StoreLink(l)) /\ dial[StoreLink(l)] = "up"
  BY <1>1 DEF ServiceAsks, ToServer, Messages, Types, Turns, Turn, StoreTurns, StoreTurn
<1>3. /\ Taken(req, l) = [req EXCEPT ![l] = <<>>]
      /\ Taken(req, l) \in [Links -> Slot]
  BY <1>1, <1>2, MessageFacts DEF Sent, Taken, Types
<1>4. Taken(req, l)[StoreLink(l)] = <<>>
  BY <1>1, <1>2, <1>3 DEF Types, Silent
<1>5. Sent(Taken(req, l), StoreLink(l), "query") =
              [Taken(req, l) EXCEPT ![StoreLink(l)] = <<"query">>]
  BY <1>1, <1>3, <1>4, MessageFacts DEF Sent
<1>6. /\ serve' = [serve EXCEPT ![l] = "lookup"]
      /\ req' = [req EXCEPT ![l] = <<>>, ![StoreLink(l)] = <<"query">>]
  BY <1>3, <1>5 DEF ServiceAsks
<1>7. UNCHANGED <<known, client, calls, calling, running, socks, rsp, dial, crashes>>
  BY DEF ServiceAsks, clientVars, worldVars
<1> USE <1>1, <1>2, <1>3, <1>4, <1>5, <1>6, <1>7
<1>8. Types'
  BY DEF Types, Messages
<1>9. Turns'
  BY DEF Turns, Turn, Silent, Types, Messages
<1>10. ClientTurns'
  BY DEF ClientTurns, Silent, Turns, Turn, Types
<1>11. StoreTurns'
  BY DEF StoreTurns, StoreTurn, Unasked, Silent, Turns, Turn, Types, Messages
<1>12. QED
  BY <1>8, <1>9, <1>10, <1>11

LEMMA ServiceLearnsKeyKeeps ==
  ASSUME IInv, NEW l \in ServiceLinks, ServiceLearnsKey(l)
  PROVE  IInv'
<1> USE LinkFacts, SlotFacts DEF IInv
<1>1. l \in Links /\ StoreLink(l) \in Links /\ StoreLink(l) # l
  OBVIOUS
<1>2. /\ serve[l] = "lookup" /\ Silent(l)
      /\ rsp[StoreLink(l)] = <<"found">> /\ req[StoreLink(l)] = <<>>
  BY <1>1 DEF ServiceLearnsKey, KeyFound, ToDialler, Messages, Types, Turns, Turn
<1>3. /\ Taken(rsp, StoreLink(l)) = [rsp EXCEPT ![StoreLink(l)] = <<>>]
      /\ Taken(rsp, StoreLink(l)) \in [Links -> Slot]
  BY <1>1, <1>2, MessageFacts DEF Taken, Types
<1>4. Taken(rsp, StoreLink(l))[l] = <<>>
  BY <1>1, <1>2, <1>3 DEF Types, Silent
<1>5. Sent(Taken(rsp, StoreLink(l)), l, "hs2") =
              [Taken(rsp, StoreLink(l)) EXCEPT ![l] = <<"hs2">>]
  BY <1>1, <1>3, <1>4, MessageFacts DEF Sent
<1>6. /\ serve' = [serve EXCEPT ![l] = "hs3"]
      /\ rsp' = [rsp EXCEPT ![StoreLink(l)] = <<>>, ![l] = <<"hs2">>]
  BY <1>2, <1>3, <1>5 DEF ServiceLearnsKey
<1>7. UNCHANGED <<known, client, calls, calling, running, socks, req, dial, crashes>>
  BY DEF ServiceLearnsKey, clientVars, worldVars
<1> USE <1>1, <1>2, <1>3, <1>4, <1>5, <1>6, <1>7
<1>8. Types'
  BY DEF Types, Messages
<1>9. Turns'
  BY DEF Turns, Turn, Silent, Types, Messages
<1>10. ClientTurns'
  BY DEF ClientTurns, Silent, Turns, Turn, Types
<1>11. StoreTurns'
  BY DEF StoreTurns, StoreTurn, Unasked, Silent, Turns, Turn, Types, Messages
<1>12. QED
  BY <1>8, <1>9, <1>10, <1>11

LEMMA ServiceAbandonsKeeps ==
  ASSUME IInv, NEW l \in ServiceLinks, ServiceAbandons(l)
  PROVE  IInv'
<1> USE LinkFacts, SlotFacts DEF IInv
<1>1. /\ serve[l] \in {"hs1", "lookup", "hs3"}
      /\ serve' = [serve EXCEPT ![l] = "gone"]
      /\ \A m \in Links : socks'[m] \subseteq socks[m]
      /\ socks' \in [Links -> SUBSET {"c", "cs", "ks", "ds"}]
  BY DEF ServiceAbandons, Closed, Types
<1>2. UNCHANGED <<known, client, calls, calling, running, req, rsp, dial, crashes>>
  BY DEF ServiceAbandons, clientVars, worldVars
<1> USE <1>1, <1>2
<1>3. Types'
  BY DEF Types, Messages
<1>4. Turns'
  BY DEF Turns, Turn, Silent, Types, Messages
<1>5. ClientTurns'
  BY DEF ClientTurns, Silent, Turns, Turn, Types
<1>6. StoreTurns'
  BY DEF StoreTurns, StoreTurn, Unasked, Silent, Turns, Turn, Types, Messages
<1>7. QED
  BY <1>3, <1>4, <1>5, <1>6

LEMMA StoreAcceptsKeeps ==
  ASSUME IInv, NEW l \in Links, StoreAccepts(l)
  PROVE  IInv'
<1> USE LinkFacts, SlotFacts DEF IInv
<1>1. serve[l] = "hs1" /\ req[l] = <<"hs1">> /\ rsp[l] = <<>> /\ l[2] = "cs"
  BY DEF StoreAccepts, ToServer, Messages, Types, Turns, Turn
<1>2. /\ Taken(req, l) = [req EXCEPT ![l] = <<>>]
      /\ Sent(rsp, l, "hs2") = [rsp EXCEPT ![l] = <<"hs2">>]
  BY <1>1, MessageFacts DEF Sent, Taken, Types
<1>3. /\ serve' = [serve EXCEPT ![l] = "hs3"]
      /\ req' = [req EXCEPT ![l] = <<>>]
      /\ rsp' = [rsp EXCEPT ![l] = <<"hs2">>]
  BY <1>2 DEF StoreAccepts
<1>4. UNCHANGED <<known, client, calls, calling, running, socks, dial, crashes>>
  BY DEF StoreAccepts, clientVars, worldVars
<1> USE <1>1, <1>2, <1>3, <1>4
<1>5. Types'
  BY DEF Types, Messages
<1>6. Turns'
  BY DEF Turns, Turn, Silent, Types, Messages
<1>7. ClientTurns'
  BY DEF ClientTurns, Silent, Turns, Turn, Types
<1>8. StoreTurns'
  BY DEF StoreTurns, StoreTurn, Unasked, Silent, Turns, Turn, Types, Messages
<1>9. QED
  BY <1>5, <1>6, <1>7, <1>8

LEMMA StoreRefusesKeeps ==
  ASSUME IInv, NEW l \in Links, StoreRefuses(l)
  PROVE  IInv'
<1> USE LinkFacts, SlotFacts DEF IInv
<1>1. /\ serve[l] \in {"hs1", "hs3"}
      /\ serve' = [serve EXCEPT ![l] = "gone"]
      /\ socks' = Closed({l}, "cs")
  BY DEF StoreRefuses
<1>2. UNCHANGED <<known, client, calls, calling, running, req, rsp, dial, crashes>>
  BY DEF StoreRefuses, clientVars, worldVars
<1> USE <1>1, <1>2
<1>3. Types'
  BY DEF Types, Messages, Closed
<1>4. Turns'
  BY DEF Turns, Turn, Silent, Types, Messages, Closed
<1>5. ClientTurns'
  BY DEF ClientTurns, Silent, Turns, Turn, Types, Closed
<1>6. StoreTurns'
  BY DEF StoreTurns, StoreTurn, Unasked, Silent, Turns, Turn, Types, Messages, Closed
<1>7. QED
  BY <1>3, <1>4, <1>5, <1>6

LEMMA StoreAnswersQueryKeeps ==
  ASSUME IInv, NEW l \in Links, StoreAnswersQuery(l)
  PROVE  IInv'
<1> USE LinkFacts, SlotFacts DEF IInv
<1>1. serve[l] = "serving" /\ req[l] = <<"query">> /\ rsp[l] = <<>>
  BY DEF StoreAnswersQuery, ToServer, Messages, Types, Turns, Turn
<1>2. PICK m \in {"found", "unknown"} : rsp' = Sent(rsp, l, m)
  BY DEF StoreAnswersQuery
<1>3. req' = [req EXCEPT ![l] = <<>>] /\ rsp' = [rsp EXCEPT ![l] = <<m>>]
  <2>1. m \in Messages
    BY MessageFacts
  <2>2. req' = [req EXCEPT ![l] = <<>>]
    BY <1>1, MessageFacts DEF StoreAnswersQuery, Taken, Types
  <2>3. rsp' = [rsp EXCEPT ![l] = <<m>>]
    BY <1>1, <1>2, <2>1 DEF Sent, Types
  <2>4. QED
    BY <2>2, <2>3
<1>4. <<m>> \in Slot /\ <<m>> # <<"hs4">>
  BY DEF Messages
<1>5. UNCHANGED <<known, client, calls, calling, running, socks, dial, serve, crashes>>
  BY DEF StoreAnswersQuery, clientVars, worldVars
<1> USE <1>1, <1>3, <1>4, <1>5
<1>6. Types'
  BY DEF Types, Messages
<1>7. Turns'
  BY DEF Turns, Turn, Silent, Types, Messages
<1>8. ClientTurns'
  BY DEF ClientTurns, Silent, Turns, Turn, Types
<1>9. StoreTurns'
  BY DEF StoreTurns, StoreTurn, Unasked, Silent, Turns, Turn, Types, Messages
<1>10. QED
  BY <1>6, <1>7, <1>8, <1>9

LEMMA EstablishedKeeps ==
  ASSUME IInv, NEW l \in Links, Established(l)
  PROVE  IInv'
<1> USE LinkFacts, SlotFacts DEF IInv
<1>1. serve[l] = "hs3" /\ req[l] = <<"hs3">> /\ rsp[l] = <<>>
  BY DEF Established, ToServer, Messages, Types, Turns, Turn
<1>2. /\ Taken(req, l) = [req EXCEPT ![l] = <<>>]
      /\ Sent(rsp, l, "hs4") = [rsp EXCEPT ![l] = <<"hs4">>]
  BY <1>1, MessageFacts DEF Sent, Taken, Types
<1>3. /\ serve' = [serve EXCEPT ![l] = "serving"]
      /\ req' = [req EXCEPT ![l] = <<>>]
      /\ rsp' = [rsp EXCEPT ![l] = <<"hs4">>]
  BY <1>2 DEF Established
<1>4. UNCHANGED <<known, client, calls, calling, running, socks, dial, crashes>>
  BY DEF Established, clientVars, worldVars
<1> USE <1>1, <1>2, <1>3, <1>4
<1>5. Types'
  BY DEF Types, Messages
<1>6. Turns'
  BY DEF Turns, Turn, Silent, Types, Messages
<1>7. ClientTurns'
  BY DEF ClientTurns, Silent, Turns, Turn, Types
<1>8. StoreTurns'
  BY DEF StoreTurns, StoreTurn, Unasked, Silent, Turns, Turn, Types, Messages
<1>9. QED
  BY <1>5, <1>6, <1>7, <1>8

LEMMA ServesCallKeeps ==
  ASSUME IInv, NEW l \in Links, ServesCall(l)
  PROVE  IInv'
<1> USE LinkFacts, SlotFacts DEF IInv
<1>1. serve[l] = "serving" /\ req[l] = <<"call">> /\ rsp[l] = <<>>
  BY DEF ServesCall, ToServer, Messages, Types, Turns, Turn
<1>2. /\ Taken(req, l) = [req EXCEPT ![l] = <<>>]
      /\ Sent(rsp, l, "answer") = [rsp EXCEPT ![l] = <<"answer">>]
  BY <1>1, MessageFacts DEF Sent, Taken, Types
<1>3. /\ req' = [req EXCEPT ![l] = <<>>]
      /\ rsp' = [rsp EXCEPT ![l] = <<"answer">>]
  BY <1>2 DEF ServesCall
<1>4. UNCHANGED <<known, client, calls, calling, running, socks, dial, serve, crashes>>
  BY DEF ServesCall, clientVars, worldVars
<1> USE <1>1, <1>2, <1>3, <1>4
<1>5. Types'
  BY DEF Types, Messages
<1>6. Turns'
  BY DEF Turns, Turn, Silent, Types, Messages
<1>7. ClientTurns'
  BY DEF ClientTurns, Silent, Turns, Turn, Types
<1>8. StoreTurns'
  BY DEF StoreTurns, StoreTurn, Unasked, Silent, Turns, Turn, Types, Messages
<1>9. QED
  BY <1>5, <1>6, <1>7, <1>8

LEMMA ServiceEndsKeeps ==
  ASSUME IInv, NEW l \in Links, ServiceEnds(l)
  PROVE  IInv'
<1> USE LinkFacts, SlotFacts DEF IInv
<1>1. /\ serve[l] = "serving"
      /\ serve' = [serve EXCEPT ![l] = "gone"]
      /\ socks' = Closed({l}, l[2])
  BY DEF ServiceEnds
<1>2. UNCHANGED <<known, client, calls, calling, running, req, rsp, dial, crashes>>
  BY DEF ServiceEnds, clientVars, worldVars
<1> USE <1>1, <1>2
<1>3. Types'
  BY DEF Types, Messages, Closed
<1>4. Turns'
  BY DEF Turns, Turn, Silent, Types, Messages, Closed
<1>5. ClientTurns'
  BY DEF ClientTurns, Silent, Turns, Turn, Types, Closed
<1>6. StoreTurns'
  BY DEF StoreTurns, StoreTurn, Unasked, Silent, Turns, Turn, Types, Messages, Closed
<1>7. QED
  BY <1>3, <1>4, <1>5, <1>6

-----------------------------------------------------------------------------
\* Services come and go.

LEMMA CrashKeeps ==
  ASSUME IInv, NEW p \in Services, Crash(p)
  PROVE  IInv'
<1> USE LinkFacts, SlotFacts DEF IInv
<1>1. /\ running' \subseteq Services /\ crashes' \in 0..MaxCrashes
      /\ socks' = Closed(Links, p)
      /\ serve' = [l \in Links |-> IF l[2] = p /\ serve[l] # "none" THEN "gone" ELSE serve[l]]
      /\ dial' = [l \in Links |-> IF l[1] = p /\ dial[l] # "none" THEN "failed" ELSE dial[l]]
  BY ConnectAssumption DEF Crash, Types
<1>2. UNCHANGED <<known, client, calls, calling, req, rsp>>
  BY DEF Crash, clientVars
<1> USE <1>1, <1>2
<1>3. Types'
  BY DEF Types, Messages, Closed
<1>4. Turns'
  BY DEF Turns, Turn, Silent, Types, Messages, Closed
<1>5. ClientTurns'
  BY DEF ClientTurns, Silent, Turns, Turn, Types, Closed
<1>6. StoreTurns'
  BY DEF StoreTurns, StoreTurn, Unasked, Silent, Turns, Turn, Types, Messages, Closed
<1>7. QED
  BY <1>3, <1>4, <1>5, <1>6

LEMMA RestartKeeps ==
  ASSUME IInv, NEW p \in Services, Restart(p)
  PROVE  IInv'
<1> USE LinkFacts DEF IInv, Restart, clientVars
<1>1. Types'
  BY DEF Types, Messages
<1>2. Turns'
  BY DEF Turns, Turn, Silent, Types, Messages
<1>3. ClientTurns'
  BY DEF ClientTurns, Silent, Turns, Turn, Types
<1>4. StoreTurns'
  BY DEF StoreTurns, StoreTurn, Unasked, Silent, Turns, Turn, Types, Messages
<1>5. QED
  BY <1>1, <1>2, <1>3, <1>4

LEMMA RemovedKeeps ==
  ASSUME IInv, Removed
  PROVE  IInv'
<1> USE LinkFacts DEF IInv, Removed, clientVars
<1>1. Types'
  BY DEF Types, Messages
<1>2. Turns'
  BY DEF Turns, Turn, Silent, Types, Messages
<1>3. ClientTurns'
  BY DEF ClientTurns, Silent, Turns, Turn, Types
<1>4. StoreTurns'
  BY DEF StoreTurns, StoreTurn, Unasked, Silent, Turns, Turn, Types, Messages
<1>5. QED
  BY <1>1, <1>2, <1>3, <1>4

LEMMA StutterKeeps ==
  ASSUME IInv, UNCHANGED vars
  PROVE  IInv'
<1> USE LinkFacts DEF IInv, vars
<1>1. Types'
  BY DEF Types, Messages
<1>2. Turns'
  BY DEF Turns, Turn, Silent, Types, Messages
<1>3. ClientTurns'
  BY DEF ClientTurns, Silent, Turns, Turn, Types
<1>4. StoreTurns'
  BY DEF StoreTurns, StoreTurn, Unasked, Silent, Turns, Turn, Types, Messages
<1>5. QED
  BY <1>1, <1>2, <1>3, <1>4

-----------------------------------------------------------------------------
\* The induction.

\* The steps over one connection.
LinkStep(l) ==
    \/ DialsFor(l) /\ (Dial(l) \/ Handshake(l))
    \/ l \in CLinks /\ ClientCalls(l)
    \/ l \in calling /\ ClientAnswered(l)
    \/ Accept(l) \/ AcceptFails(l)
    \/ /\ l \in ServiceLinks
       /\ \/ ServiceTurnsToClient(l) \/ ServiceGivesUp(l)
          \/ ServiceAsks(l) \/ ServiceLearnsKey(l) \/ ServiceAbandons(l)
    \/ StoreAccepts(l) \/ StoreRefuses(l) \/ StoreAnswersQuery(l)
    \/ Established(l) \/ ServesCall(l) \/ ServiceEnds(l)

LEMMA NextCases ==
  ASSUME Types, Next
  PROVE  \/ \E l \in Links : LinkStep(l)
         \/ ClientLeaves
         \/ \E p \in Services : Crash(p) \/ Restart(p)
         \/ Removed
<1> USE LinkFacts
<1>1. CASE \E n \in 1..3 : ClientConnects(n)
  BY <1>1 DEF ClientConnects, LinkStep, DialsFor
<1>2. CASE \E l \in calling : ClientAnswered(l)
  BY <1>2 DEF LinkStep, Types
<1>3. CASE ClientFails \/ ClientExits \/ ClientQuits
  BY <1>3 DEF ClientFails, ClientExits, ClientQuits
<1>4. CASE \E n \in 1..3 : ClientCalls(ClientLinks[n])
  BY <1>4 DEF LinkStep
<1>5. CASE \E l \in Links : ThreadStep(l) \/ AcceptFails(l)
  <2>1. PICK l \in Links : ThreadStep(l) \/ AcceptFails(l)
    BY <1>5
  <2>2. CASE l \in ServiceLinks /\ ServiceDials(l)
    <3>1. StoreLink(l) \in Links /\ LinkStep(StoreLink(l))
      BY <2>2 DEF ServiceDials, LinkStep, DialsFor
    <3>2. QED
      BY <3>1
  <2>3. CASE ~(l \in ServiceLinks /\ ServiceDials(l))
    BY <2>1, <2>3 DEF ThreadStep, LinkStep
  <2>4. QED
    BY <2>2, <2>3
<1>6. QED
  BY <1>1, <1>2, <1>3, <1>4, <1>5 DEF Next, ClientStep

LEMMA LinkStepKeeps ==
  ASSUME IInv, NEW l \in Links, LinkStep(l)
  PROVE  IInv'
  BY DialKeeps, HandshakeKeeps, ClientCallsKeeps, ClientAnsweredKeeps, AcceptKeeps,
     ServiceTurnsToClientKeeps, ServiceGivesUpKeeps, ServiceAsksKeeps,
     ServiceLearnsKeyKeeps, ServiceAbandonsKeeps, StoreAcceptsKeeps, StoreRefusesKeeps,
     StoreAnswersQueryKeeps, EstablishedKeeps, ServesCallKeeps, ServiceEndsKeeps
  DEF LinkStep

LEMMA InitIInv ==
  ASSUME Init
  PROVE  IInv
<1> USE LinkFacts, SlotFacts, ConnectAssumption DEF Init
<1>1. Types
  BY DEF Types
<1>2. Turns
  BY DEF Turns, Turn, Silent
<1>3. ClientTurns
  BY DEF ClientTurns, Silent
<1>4. StoreTurns
  BY DEF StoreTurns, StoreTurn, Unasked, Silent, Messages
<1>5. QED
  BY <1>1, <1>2, <1>3, <1>4 DEF IInv

\* The ends of every connection take turns.
THEOREM TurnsTaken == Spec => []IInv
<1>1. Init => IInv
  BY InitIInv
<1>2. IInv /\ [Next]_vars => IInv'
  <2> SUFFICES ASSUME IInv, [Next]_vars
               PROVE  IInv'
    OBVIOUS
  <2>1. CASE Next
    <3>1. Types
      BY DEF IInv
    <3>2. QED
      BY <2>1, <3>1, NextCases, LinkStepKeeps, ClientLeavesKeeps, CrashKeeps, RestartKeeps,
         RemovedKeeps
  <2>2. CASE UNCHANGED vars
    BY <2>2, StutterKeeps
  <2>3. QED
    BY <2>1, <2>2
<1>3. QED
  BY <1>1, <1>2, PTL DEF Spec

-----------------------------------------------------------------------------
\* The theorems.

\* Whatever dies and whatever is cut short, a connection never holds two messages in one
\* direction: neither end speaks out of turn.
THEOREM TypeCorrect == Spec => []TypeOK
<1>1. IInv => TypeOK
  <2>1. ASSUME NEW q \in Slot
        PROVE  q \in Seq(Messages) /\ Len(q) <= 1
    <3>1. CASE q = <<>>
      BY <3>1
    <3>2. CASE \E m \in Messages : q = <<m>>
      BY <3>2
    <3>3. QED
      BY <3>1, <3>2 DEF Slot
  <2>2. QED
    BY <2>1, LinkFacts DEF IInv, Types, TypeOK
<1>2. QED
  BY <1>1, TurnsTaken, PTL

\* A client that has its connection is not left waiting by a thread that returned.
THEOREM ConnectionsKept == Spec => []EstablishedNeverAbandoned
<1>1. IInv => EstablishedNeverAbandoned
  BY DEF IInv, Turns, Turn, EstablishedNeverAbandoned
<1>2. QED
  BY <1>1, TurnsTaken, PTL

\* What a thread that turns to its client may not have: a key for it.
KeyUnknown(l) ==
    ~known /\ serve[l] \notin {"hs3", "serving"} /\ rsp[StoreLink(l)] # <<"found">>

LEMMA LinkStepKeyUnknown ==
  ASSUME IInv, NEW l \in ServiceLinks, KeyUnknown(l), NEW k \in Links, LinkStep(k)
  PROVE  KeyUnknown(l)'
<1> USE LinkFacts, SlotFacts, MessageFacts DEF KeyUnknown, IInv, Types, worldVars
<1>1. CASE Dial(k) \/ (l \in CLinks /\ ClientCalls(k)) \/ Accept(k) \/ AcceptFails(k)
  BY <1>1 DEF Dial, ClientCalls, Accept, AcceptFails
<1>2. CASE Handshake(k)
  <2>1. \/ UNCHANGED rsp
        \/ rsp[k] # <<>> /\ rsp' = [rsp EXCEPT ![k] = <<>>]
    BY <1>2 DEF Handshake, ToDialler, Taken
  <2>2. QED
    BY <1>2, <2>1 DEF Handshake
<1>3. CASE k \in calling /\ ClientAnswered(k)
  BY <1>3 DEF ClientAnswered, Taken
<1>4. CASE /\ k \in ServiceLinks
           /\ \/ ServiceTurnsToClient(k) \/ ServiceGivesUp(k)
              \/ ServiceAsks(k) \/ ServiceAbandons(k)
  BY <1>4 DEF ServiceTurnsToClient, ServiceGivesUp, ServiceAsks, ServiceAbandons
<1>5. CASE k \in ServiceLinks /\ ServiceLearnsKey(k)
  BY <1>5 DEF ServiceLearnsKey, KeyFound, ToDialler, Sent, Taken
<1>6. CASE StoreAccepts(k) \/ StoreRefuses(k)
  BY <1>6 DEF StoreAccepts, StoreRefuses, Sent
<1>7. CASE StoreAnswersQuery(k)
  <2>1. rsp[k] = <<>>
    BY <1>7 DEF StoreAnswersQuery, ToServer, Turns, Turn
  <2>2. rsp' = [rsp EXCEPT ![k] = <<"unknown">>]
    BY <1>7, <2>1 DEF StoreAnswersQuery, Sent
  <2>3. QED
    BY <1>7, <2>2 DEF StoreAnswersQuery
<1>8. CASE Established(k)
  <2>1. rsp[k] = <<>>
    BY <1>8 DEF Established, ToServer, Turns, Turn
  <2>2. rsp' = [rsp EXCEPT ![k] = <<"hs4">>]
    BY <1>8, <2>1 DEF Established, Sent
  <2>3. QED
    BY <1>8, <2>2 DEF Established
<1>9. CASE ServesCall(k)
  <2>1. rsp[k] = <<>>
    BY <1>9 DEF ServesCall, ToServer, Turns, Turn
  <2>2. rsp' = [rsp EXCEPT ![k] = <<"answer">>]
    BY <1>9, <2>1 DEF ServesCall, Sent
  <2>3. QED
    BY <1>9, <2>2 DEF ServesCall
<1>10. CASE ServiceEnds(k)
  BY <1>10 DEF ServiceEnds
<1>11. QED
  BY <1>1, <1>2, <1>3, <1>4, <1>5, <1>6, <1>7, <1>8, <1>9, <1>10 DEF LinkStep

LEMMA NextKeyUnknown ==
  ASSUME IInv, NEW l \in ServiceLinks, KeyUnknown(l), [Next]_vars
  PROVE  KeyUnknown(l)'
<1> USE LinkFacts DEF KeyUnknown, IInv, Types, worldVars, clientVars
<1>1. CASE \E k \in Links : LinkStep(k)
  BY <1>1, LinkStepKeyUnknown
<1>2. CASE ClientLeaves
  BY <1>2 DEF ClientLeaves
<1>3. CASE \E p \in Services : Crash(p) \/ Restart(p)
  BY <1>3 DEF Crash, Restart
<1>4. CASE Removed \/ UNCHANGED vars
  BY <1>4 DEF Removed, vars
<1>5. QED
  BY <1>1, <1>2, <1>3, <1>4, NextCases

\* A client that the credential store does not know by the time it could be asked is
\* never served.
THEOREM UnknownClientNotServed == Spec => UnknownNotServed
<1>1. ASSUME NEW l \in ServiceLinks
      PROVE  Spec => [](~known /\ serve[l] \in {"none", "backlog", "dialling", "hs1"}
                            => [](serve[l] # "serving"))
  <2>1. IInv /\ ~known /\ serve[l] \in {"none", "backlog", "dialling", "hs1"}
            => KeyUnknown(l)
    BY DEF IInv, StoreTurns, StoreTurn, Unasked, KeyUnknown
  <2>2. IInv /\ KeyUnknown(l) /\ [Next]_vars => KeyUnknown(l)'
    BY NextKeyUnknown
  <2>3. KeyUnknown(l) => serve[l] # "serving"
    BY DEF KeyUnknown
  <2>4. QED
    BY <2>1, <2>2, <2>3, TurnsTaken, PTL DEF Spec
<1>2. QED
  BY <1>1 DEF UnknownNotServed

LEMMA LinkStepNoneAbandoned ==
  ASSUME IInv, NEW l \in Links, l[2] = "cs", serve[l] # "backlog",
         NEW k \in Links, LinkStep(k), Abandoned(l)'
  PROVE  Abandoned(l)
<1> USE LinkFacts DEF Abandoned, IInv, Types, worldVars
<1>1. CASE Dial(k)
  BY <1>1 DEF Dial, Turns, Turn
<1>2. CASE Handshake(k)
  BY <1>2 DEF Handshake
<1>3. CASE ClientCalls(k) \/ ClientAnswered(k) \/ Accept(k) \/ AcceptFails(k)
  BY <1>3 DEF ClientCalls, ClientAnswered, Accept, AcceptFails
<1>4. CASE /\ k \in ServiceLinks
           /\ \/ ServiceTurnsToClient(k) \/ ServiceGivesUp(k)
              \/ ServiceAsks(k) \/ ServiceLearnsKey(k) \/ ServiceAbandons(k)
  BY <1>4 DEF ServiceTurnsToClient, ServiceGivesUp, ServiceAsks, ServiceLearnsKey,
     ServiceAbandons, Closed
<1>5. CASE StoreRefuses(k) \/ ServiceEnds(k)
  BY <1>5 DEF StoreRefuses, ServiceEnds, Closed
<1>6. CASE StoreAccepts(k) \/ StoreAnswersQuery(k) \/ Established(k) \/ ServesCall(k)
  BY <1>6 DEF StoreAccepts, StoreAnswersQuery, Established, ServesCall
<1>7. QED
  BY <1>1, <1>2, <1>3, <1>4, <1>5, <1>6 DEF LinkStep

LEMMA NextNoneAbandoned ==
  ASSUME IInv, NEW l \in Links, l[2] = "cs", serve[l] # "backlog", [Next]_vars,
         Abandoned(l)'
  PROVE  Abandoned(l)
<1> USE LinkFacts DEF Abandoned, IInv, Types, clientVars, worldVars
<1>1. CASE \E k \in Links : LinkStep(k)
  BY <1>1, LinkStepNoneAbandoned
<1>2. CASE ClientLeaves
  BY <1>2 DEF ClientLeaves, Closed
<1>3. CASE \E p \in Services : Crash(p) \/ Restart(p)
  BY <1>3 DEF Crash, Restart, Closed
<1>4. CASE Removed \/ UNCHANGED vars
  BY <1>4 DEF Removed, vars
<1>5. QED
  BY <1>1, <1>2, <1>3, <1>4, NextCases

\* A thread of the credential store closes the connection of a handshake that fails.
THEOREM StoreCloses == Spec => StoreNeverAbandons
<1>1. IInv /\ [Next]_vars
        => \A l \in Links : l[2] = "cs" /\ serve[l] # "backlog"
                                => (Abandoned(l)' => Abandoned(l))
  BY NextNoneAbandoned
<1>2. QED
  BY <1>1, TurnsTaken, PTL DEF Spec, StoreNeverAbandons
=============================================================================
