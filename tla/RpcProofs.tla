----------------------------- MODULE RpcProofs -----------------------------
(***************************************************************************)
(* Proofs about Rpc for any store, any set of proxies, and any number of   *)
(* calls and of connections.                                               *)
(***************************************************************************)
EXTENDS Rpc, SequenceTheorems, TLAPS

-----------------------------------------------------------------------------
\* The inductive invariant: client and service take turns on the connection that
\* is up, and what is left on the others belongs to calls that have failed.

N(i) == U("name", i)
P(i) == U("params", i)
R(i) == U("reply", i)

\* What is sent for a call that has run.
Answer(i) ==
    IF done[i] = "error" THEN <<U("error", i)>>
    ELSE IF out_pack(issued[i]) THEN <<U("ok", i), R(i)>> ELSE <<U("ok", i)>>

Ran(i) == i \in Calls /\ done[i] \in {"ok", "error"}

Waiting(k) == spc[k] \in {"top", "recv_name"}

\* A call that service thread k may still come to run.
Holds(k, i) ==
    \/ Waiting(k) /\ c2s[k] \in {<<N(i)>>, <<N(i), P(i)>>}
    \/ spc[k] \in {"recv_params", "exec"} /\ scall[k] = i

\* The calls so far, and those to come.
Told ==
    /\ \A i \in Calls :
        /\ i > cur => done[i] = "no" /\ outcome[i] = "none"
        /\ i < cur => outcome[i] # "none"
        /\ outcome[i] \in {"ok", "error"} => done[i] = outcome[i]
        /\ answered[i] \subseteq {i}
    /\ cpc = "idle" <=> cur = 0 \/ outcome[cur] # "none"

\* The client has to send its own units; it has sent none of a call before its name.
Sending ==
    /\ cpc # "send" => cout = <<>>
    /\ cpc = "send" => cout \in {<<N(cur), P(cur)>>, <<P(cur)>>}
    /\ cpc = "send" /\ cout = <<N(cur), P(cur)>>
            => done[cur] = "no" /\ \A k \in Conns : ~Holds(k, cur)

\* A service thread and what has reached it.
Thread(k) ==
    /\ spc[k] = "none" <=> k > conn
    /\ up[k] => k = conn
    /\ spc[k] = "none" => c2s[k] = <<>> /\ s2c[k] = <<>>
    /\ Waiting(k) => \/ c2s[k] = <<>>
                     \/ \E i \in 1..cur : c2s[k] \in {<<N(i)>>, <<N(i), P(i)>>}
    /\ spc[k] \in {"recv_params", "exec"}
            => scall[k] \in 1..cur
    /\ spc[k] = "recv_params" => c2s[k] \in {<<>>, <<P(scall[k])>>}
    /\ spc[k] \in {"exec", "send"} => c2s[k] = <<>>
    /\ spc[k] = "send" => Ran(scall[k]) /\ sout[k] \in {Answer(scall[k]), <<R(scall[k])>>}
    /\ spc[k] = "send_last" => Ran(scall[k]) /\ sout[k] = <<U("error", scall[k])>>
    /\ spc[k] \notin {"send", "send_last"} => sout[k] = <<>>

\* A call runs once: one thread at most holds it, it has not run, and its caller
\* waits or has been told that it failed.
Held ==
    \A k \in Conns, i \in Calls : Holds(k, i) =>
        /\ i <= cur /\ done[i] = "no" /\ outcome[i] \in {"none", "failed"}
        /\ \A m \in Conns : Holds(m, i) => m = k
        /\ i = cur /\ cpc # "idle" => k = conn

\* What the client may read is the answer to the call it makes.
Sees ==
    /\ cpc = "status" /\ s2c[conn] # <<>> =>
            Ran(cur) /\ s2c[conn] \in {<<U(done[cur], cur)>>, Answer(cur)}
    /\ cpc = "reply" =>
            /\ Ran(cur) /\ done[cur] = "ok" /\ out_params(issued[cur])
            /\ s2c[conn] \in {<<>>, <<R(cur)>>}

\* How far a call is on a connection that is up.
Quiet(k) == Waiting(k) /\ c2s[k] = <<>> /\ s2c[k] = <<>>

Named(k, i) ==
    /\ s2c[k] = <<>>
    /\ \/ Waiting(k) /\ c2s[k] = <<N(i)>>
       \/ spc[k] = "recv_params" /\ scall[k] = i /\ c2s[k] = <<>>

Asked(k, i) ==
    /\ s2c[k] = <<>>
    /\ \/ Waiting(k) /\ c2s[k] = <<N(i), P(i)>>
       \/ spc[k] = "recv_params" /\ scall[k] = i /\ c2s[k] = <<P(i)>>
       \/ spc[k] = "exec" /\ scall[k] = i

Answering(k, i) ==
    /\ Ran(i)
    /\ \/ spc[k] = "send" /\ scall[k] = i /\ s2c[k] = <<>> /\ sout[k] = Answer(i)
       \/ spc[k] = "send" /\ scall[k] = i /\ sout[k] = <<R(i)>>
            /\ s2c[k] = <<U("ok", i)>> /\ Answer(i) = <<U("ok", i), R(i)>>
       \/ Waiting(k) /\ c2s[k] = <<>> /\ s2c[k] = Answer(i)
       \/ spc[k] = "ended" /\ s2c[k] = Answer(i)

Replying(k, i) ==
    \/ spc[k] = "send" /\ scall[k] = i /\ s2c[k] = <<>> /\ sout[k] = <<R(i)>>
    \/ Waiting(k) /\ c2s[k] = <<>> /\ s2c[k] = <<R(i)>>
    \/ spc[k] = "ended" /\ s2c[k] = <<R(i)>>

Refused(k, i) ==
    /\ Ran(i) /\ done[i] = "error"
    /\ \/ spc[k] = "send_last" /\ scall[k] = i /\ s2c[k] = <<>>
       \/ spc[k] = "ended" /\ s2c[k] = Answer(i)

Over(k) == spc[k] = "ended" /\ s2c[k] = <<>>

Turn ==
    up[conn] =>
        \/ cpc = "idle" /\ (Quiet(conn) \/ Over(conn))
        \/ cpc = "send" /\ cout = <<N(cur), P(cur)>> /\ (Quiet(conn) \/ Over(conn))
        \/ cpc = "send" /\ cout = <<P(cur)>>
            /\ (Named(conn, cur) \/ Refused(conn, cur) \/ Over(conn))
        \/ cpc = "status" /\ (Asked(conn, cur) \/ Answering(conn, cur)
                                \/ Refused(conn, cur) \/ Over(conn))
        \/ cpc = "reply" /\ Replying(conn, cur)

\* A thread that has run a call since it was told to stop runs no other.
Stopping ==
    \A k \in Conns : served[k] = 0 \/
        (served[k] = 1 /\ finish[k] /\ spc[k] \in {"send", "top", "ended"})

\* Client and services are in step.
InStep ==
    /\ Told /\ Sending /\ Held /\ Sees /\ Turn
    /\ \A k \in Conns : Thread(k)

IInv == TypeOK /\ Stopping /\ InStep

-----------------------------------------------------------------------------
\* Units and short streams.

LEMMA ReplyFacts == \A f : out_params(f) <=> out_pack(f)
  BY DEF out_params, out_pack, KeyStoreProxyReads, DataStoreProxyReads,
         CredentialStoreProxyReads, KeyStoreStubReturns, DataStoreStubReturns,
         CredentialStoreStubReturns

LEMMA UnitFacts ==
  ASSUME NEW i \in Calls
  PROVE  /\ {N(i), P(i), R(i), U("ok", i), U("error", i)} \subseteq Unit
         /\ N(i).kind = "name" /\ N(i).call = i
         /\ P(i).kind = "params" /\ P(i).call = i
         /\ R(i).kind = "reply" /\ R(i).call = i
         /\ \A r : U(r, i).kind = r /\ U(r, i).call = i
  BY DEF Unit, U, N, P, R

LEMMA ShortStreams ==
  ASSUME NEW x, NEW y
  PROVE  /\ <<x>> \in Seq({x, y}) /\ Len(<<x>>) = 1 /\ <<x>>[1] = x
         /\ <<x, y>> \in Seq({x, y}) /\ Len(<<x, y>>) = 2
         /\ <<x, y>>[1] = x /\ <<x, y>>[2] = y
  OBVIOUS

LEMMA ShortStreamIs ==
  ASSUME NEW x, NEW y, NEW s \in Seq({x, y})
  PROVE  /\ Len(s) = 1 /\ s[1] = x => s = <<x>>
         /\ Len(s) = 2 /\ s[1] = x /\ s[2] = y => s = <<x, y>>
<1>1. ASSUME Len(s) = 1, s[1] = x PROVE s = <<x>>
  <2>1. \A i \in 1..Len(s) : s[i] = <<x>>[i]
    BY <1>1, ShortStreams
  <2>2. QED
    BY <2>1, <1>1, ShortStreams, SeqEqual
<1>2. ASSUME Len(s) = 2, s[1] = x, s[2] = y PROVE s = <<x, y>>
  <2>1. \A i \in 1..2 : i = 1 \/ i = 2
    OBVIOUS
  <2>2. \A i \in 1..Len(s) : s[i] = <<x, y>>[i]
    BY <1>2, <2>1, ShortStreams
  <2>3. QED
    BY <2>2, <1>2, ShortStreams, SeqEqual
<1>3. QED
  BY <1>1, <1>2

LEMMA StreamFacts ==
  ASSUME NEW x, NEW y
  PROVE  /\ <<x>> # <<>> /\ <<x, y>> # <<>> /\ <<x, y>> # <<x>>
         /\ Head(<<x>>) = x /\ Tail(<<x>>) = <<>>
         /\ Head(<<x, y>>) = x /\ Tail(<<x, y>>) = <<y>>
         /\ Append(<<>>, x) = <<x>> /\ Append(<<x>>, y) = <<x, y>>
         /\ <<x>> \o <<>> = <<x>> /\ <<x>> \o <<y>> = <<x, y>>
         /\ <<x>> = <<y>> => x = y
<1>1. /\ <<x>> # <<>> /\ <<x, y>> # <<>> /\ <<x, y>> # <<x>>
      /\ Head(<<x>>) = x /\ Tail(<<x>>) = <<>>
      /\ Head(<<x, y>>) = x /\ Append(<<>>, x) = <<x>>
      /\ <<x>> = <<y>> => x = y
  OBVIOUS
<1>2. Tail(<<x, y>>) = <<y>>
  OBVIOUS
<1>3. Append(<<x>>, y) = <<x, y>>
  <2>1. /\ Append(<<x>>, y) \in Seq({x, y}) /\ Len(Append(<<x>>, y)) = 2
        /\ Append(<<x>>, y)[1] = x /\ Append(<<x>>, y)[2] = y
    BY ShortStreams, AppendProperties
  <2>2. QED
    BY <2>1, ShortStreamIs
<1>4. <<x>> \o <<>> = <<x>>
  BY ShortStreams, ConcatEmptySeq
<1>5. <<x>> \o <<y>> = <<x, y>>
  <2>1. <<y>> \in Seq({x, y}) /\ Len(<<y>>) = 1 /\ <<y>>[1] = y
    OBVIOUS
  <2>2. /\ <<x>> \o <<y>> \in Seq({x, y}) /\ Len(<<x>> \o <<y>>) = 2
        /\ (<<x>> \o <<y>>)[1] = x /\ (<<x>> \o <<y>>)[2] = y
    BY <2>1, ShortStreams, ConcatProperties
  <2>3. QED
    BY <2>2, ShortStreamIs
<1>6. QED
  BY <1>1, <1>2, <1>3, <1>4, <1>5

LEMMA PrefixFacts ==
  ASSUME NEW x, NEW y
  PROVE  /\ Prefixes(<<>>) = {<<>>}
         /\ Prefixes(<<x>>) = {<<>>, <<x>>}
         /\ Prefixes(<<x, y>>) = {<<>>, <<x>>, <<x, y>>}
<1>1. /\ SubSeq(<<>>, 1, 0) = <<>>
      /\ SubSeq(<<x>>, 1, 0) = <<>> /\ SubSeq(<<x, y>>, 1, 0) = <<>>
  BY SubSeqEmpty
<1>2. SubSeq(<<x>>, 1, 1) = <<x>> /\ SubSeq(<<x, y>>, 1, 2) = <<x, y>>
  BY ShortStreams, SubSeqFull
<1>3. SubSeq(<<x, y>>, 1, 1) = <<x>>
  <2> DEFINE s == SubSeq(<<x, y>>, 1, 1)
  <2>1. \A i \in 1..1 : <<x, y>>[i] \in {x, y}
    BY ShortStreams
  <2>2. s \in Seq({x, y}) /\ Len(s) = 1 /\ s[1] = x
    BY <2>1, ShortStreams, SubSeqProperties
  <2> HIDE DEF s
  <2>3. QED
    BY <2>2, ShortStreamIs DEF s
<1>4. Len(<<>>) = 0 /\ Len(<<x>>) = 1 /\ Len(<<x, y>>) = 2
  BY ShortStreams
<1>5. 0..0 = {0} /\ 0..1 = {0, 1} /\ 0..2 = {0, 1, 2}
  OBVIOUS
<1> DEFINE Cut(t) == {SubSeq(t, 1, m) : m \in 0..Len(t)}
<1>6. Cut(<<>>) = {<<>>}
  BY <1>1, <1>4, <1>5
<1>7. Cut(<<x>>) = {<<>>, <<x>>}
  BY <1>1, <1>2, <1>4, <1>5
<1>8. Cut(<<x, y>>) = {<<>>, <<x>>, <<x, y>>}
  BY <1>1, <1>2, <1>3, <1>4, <1>5
<1>9. QED
  BY <1>6, <1>7, <1>8 DEF Prefixes

LEMMA CutStream ==
  ASSUME NEW s, NEW p \in Prefixes(s)
  PROVE  /\ s = <<>> => p = <<>>
         /\ \A x : s = <<x>> => p \in {<<>>, <<x>>}
         /\ \A x, y : s = <<x, y>> => p \in {<<>>, <<x>>, <<x, y>>}
<1>1. s = <<>> => p = <<>>
  <2>1. Prefixes(<<>>) = {<<>>}
    BY PrefixFacts
  <2>2. QED
    BY <2>1
<1>2. ASSUME NEW x, s = <<x>>
      PROVE  p \in {<<>>, <<x>>}
  BY <1>2, PrefixFacts
<1>3. ASSUME NEW x, NEW y, s = <<x, y>>
      PROVE  p \in {<<>>, <<x>>, <<x, y>>}
  BY <1>3, PrefixFacts
<1>4. QED
  BY <1>1, <1>2, <1>3

LEMMA PrefixesAreStreams ==
  ASSUME NEW s \in Seq(Unit), NEW p \in Prefixes(s)
  PROVE  p \in Seq(Unit)
<1>1. PICK m \in 0..Len(s) : p = SubSeq(s, 1, m)
  BY DEF Prefixes
<1>2. QED
  BY <1>1, SubSeqProperties

-----------------------------------------------------------------------------
\* Calls and their answers.

LEMMA CallFacts ==
  ASSUME TypeOK
  PROVE  /\ cur \in Nat /\ cur <= MaxCalls /\ 1..cur \subseteq Calls
         /\ cur # 0 => cur \in Calls
         /\ conn \in Nat /\ 1 <= conn /\ conn <= MaxConns
         /\ \A i \in 1..cur : i \in DOMAIN issued
  BY RpcAssumption, LenProperties DEF TypeOK, cur, Calls, Conns

LEMMA InCall ==
  ASSUME TypeOK, Told, cpc # "idle"
  PROVE  cur \in Calls /\ outcome[cur] = "none"
  BY CallFacts DEF Told

LEMMA AnswerFacts ==
  ASSUME NEW i \in Calls, Ran(i)
  PROVE  /\ Answer(i) \in {<<U(done[i], i)>>, <<U("ok", i), R(i)>>}
         /\ Answer(i) = <<U("ok", i), R(i)>> => done[i] = "ok" /\ out_pack(issued[i])
         /\ done[i] = "ok" /\ out_pack(issued[i]) => Answer(i) = <<U("ok", i), R(i)>>
         /\ Answer(i) # <<>> /\ Head(Answer(i)) = U(done[i], i)
         /\ Answer(i) # <<R(i)>>
         /\ Tail(Answer(i)) \in {<<>>, <<R(i)>>}
         /\ done[i] = "error" => Answer(i) = <<U("error", i)>>
         /\ Answer(i) \in Seq(Unit)
<1>1. CASE done[i] = "ok" /\ out_pack(issued[i])
  <2>1. Answer(i) = <<U("ok", i), R(i)>>
    BY <1>1 DEF Answer
  <2>2. <<U("ok", i), R(i)>> \in Seq(Unit)
    BY UnitFacts
  <2>3. QED
    BY <1>1, <2>1, <2>2, StreamFacts
<1>2. CASE ~(done[i] = "ok" /\ out_pack(issued[i]))
  <2>1. Answer(i) = <<U(done[i], i)>>
    BY <1>2 DEF Answer, Ran
  <2>2. U(done[i], i) \in Unit
    BY UnitFacts DEF Ran
  <2>3. <<U(done[i], i)>> \in Seq(Unit)
    BY <2>2
  <2>4. <<U(done[i], i)>> # <<U("ok", i), R(i)>>
    BY ShortStreams
  <2>5. U(done[i], i) # R(i)
    BY UnitFacts DEF Ran
  <2>6. QED
    BY <1>2, <2>1, <2>3, <2>4, <2>5, StreamFacts DEF Ran
<1>3. QED
  BY <1>1, <1>2

LEMMA SeenFacts ==
  ASSUME TypeOK, Told, Sees, cpc \in {"status", "reply"}, s2c[conn] # <<>>
  PROVE  /\ Ran(cur) /\ Head(s2c[conn]).call = cur
         /\ cpc = "status" => /\ Head(s2c[conn]).kind = done[cur]
                              /\ Tail(s2c[conn]) \in {<<>>, Tail(Answer(cur))}
         /\ cpc = "reply" => done[cur] = "ok" /\ Tail(s2c[conn]) = <<>>
<1>1. cur \in Calls
  BY InCall
<1>2. CASE cpc = "status"
  <2>1. Ran(cur) /\ s2c[conn] \in {<<U(done[cur], cur)>>, Answer(cur)}
    BY <1>2 DEF Sees
  <2>2. Head(s2c[conn]) = U(done[cur], cur)
    BY <1>1, <2>1, AnswerFacts, StreamFacts
  <2>3. Tail(s2c[conn]) \in {<<>>, Tail(Answer(cur))}
    BY <2>1, StreamFacts
  <2>4. QED
    BY <1>1, <1>2, <2>1, <2>2, <2>3, UnitFacts
<1>3. CASE cpc = "reply"
  <2>1. Ran(cur) /\ done[cur] = "ok" /\ s2c[conn] = <<R(cur)>>
    BY <1>3 DEF Sees
  <2>2. Head(s2c[conn]) = R(cur) /\ Tail(s2c[conn]) = <<>>
    BY <2>1, StreamFacts
  <2>3. QED
    BY <1>1, <1>3, <2>1, <2>2, UnitFacts
<1>4. QED
  BY <1>2, <1>3

-----------------------------------------------------------------------------
\* Types.

LEMMA SyncCallTypes ==
  ASSUME IInv, NEW f \in Proxies, SyncCall(f)
  PROVE  TypeOK'
<1>1. cur + 1 \in Calls
  BY CallFacts, RpcAssumption DEF IInv, InStep, SyncCall, Calls
<1>2. cout' \in Seq(Unit)
  BY <1>1, UnitFacts DEF SyncCall, N, P
<1>3. issued' \in Seq(Proxies) /\ Len(issued') <= MaxCalls
  BY CallFacts, AppendProperties, RpcAssumption DEF IInv, InStep, SyncCall, TypeOK, cur
<1>4. QED
  BY <1>2, <1>3 DEF IInv, InStep, TypeOK, SyncCall, linkVars, serverVars, historyVars

LEMMA ClientSendTypes ==
  ASSUME IInv, ClientSend
  PROVE  TypeOK'
<1>1. cout # <<>>
  BY StreamFacts DEF IInv, InStep, Sending, ClientSend
<1>2. Head(cout) \in Unit /\ Tail(cout) \in Seq(Unit)
  BY <1>1, HeadTailProperties DEF IInv, InStep, TypeOK
<1>3. Append(c2s[conn], Head(cout)) \in Seq(Unit)
  BY <1>2, AppendProperties DEF IInv, InStep, TypeOK
<1>4. QED
  BY <1>2, <1>3 DEF IInv, InStep, TypeOK, ClientSend, serverVars, historyVars

LEMMA ClientTakesTypes ==
  ASSUME IInv, ClientTakes, cpc \in {"status", "reply"}
  PROVE  s2c' \in [Conns -> Seq(Unit)] /\ answered' \in [Calls -> SUBSET Calls]
<1>1. Tail(s2c[conn]) \in Seq(Unit)
  BY HeadTailProperties DEF IInv, InStep, TypeOK, ClientTakes
<1>2. cur \in Calls /\ Head(s2c[conn]).call = cur
  BY InCall, SeenFacts DEF IInv, InStep, ClientTakes
<1>3. QED
  BY <1>1, <1>2 DEF IInv, InStep, TypeOK, ClientTakes

LEMMA ClientTypes ==
  ASSUME IInv, ClientRecvStatus \/ ClientRecvReply \/ ClientFails
  PROVE  TypeOK'
<1>1. cur \in Calls
  BY InCall DEF IInv, InStep, ClientRecvStatus, ClientRecvReply, ClientFails
<1>2. ASSUME NEW r \in {"ok", "error", "failed"}, CallReturns(r)
      PROVE  cpc' = "idle" /\ cout' \in Seq(Unit)
             /\ outcome' \in [Calls -> {"none", "ok", "error", "failed"}]
  BY <1>1, <1>2 DEF CallReturns, IInv, InStep, TypeOK
<1>3. CASE ClientRecvStatus
  <2>1. s2c' \in [Conns -> Seq(Unit)] /\ answered' \in [Calls -> SUBSET Calls]
    BY <1>3, ClientTakesTypes DEF ClientRecvStatus
  <2>2. /\ cpc' \in {"idle", "send", "status", "reply"} /\ cout' \in Seq(Unit)
        /\ outcome' \in [Calls -> {"none", "ok", "error", "failed"}]
    BY <1>2, <1>3 DEF ClientRecvStatus, IInv, InStep, TypeOK
  <2>3. QED
    BY <1>3, <2>1, <2>2 DEF ClientRecvStatus, IInv, InStep, TypeOK, serverVars
<1>4. CASE ClientRecvReply
  <2>1. s2c' \in [Conns -> Seq(Unit)] /\ answered' \in [Calls -> SUBSET Calls]
    BY <1>4, ClientTakesTypes DEF ClientRecvReply
  <2>2. QED
    BY <1>2, <1>4, <2>1 DEF ClientRecvReply, IInv, InStep, TypeOK, serverVars
<1>5. CASE ClientFails
  BY <1>2, <1>5 DEF ClientFails, IInv, InStep, TypeOK, linkVars, serverVars
<1>6. QED
  BY <1>3, <1>4, <1>5

LEMMA ServerRecvNameTypes ==
  ASSUME IInv, NEW k \in Conns, ServerRecvName(k)
  PROVE  TypeOK'
<1> DEFINE i == Head(c2s[k]).call
<1>1. Head(c2s[k]) \in Unit /\ Tail(c2s[k]) \in Seq(Unit)
  BY HeadTailProperties DEF ServerRecvName, IInv, InStep, TypeOK
<1>2. i \in Calls
  BY <1>1 DEF Unit
<1>3. <<U("error", i)>> \in Seq(Unit)
  BY <1>2, UnitFacts
<1> HIDE DEF i
<1>4. /\ c2s' = [c2s EXCEPT ![k] = Tail(@)] /\ scall' = [scall EXCEPT ![k] = i]
      /\ \/ UNCHANGED <<sout, done>> /\ spc' = [spc EXCEPT ![k] = "recv_params"]
         \/ /\ sout' = [sout EXCEPT ![k] = <<U("error", i)>>]
            /\ spc' = [spc EXCEPT ![k] = "send_last"]
            /\ done' = [done EXCEPT ![i] = "error"]
      /\ UNCHANGED <<clientVars, up, s2c, finish, outcome, answered, served>>
  BY DEF ServerRecvName, i
<1>5. /\ c2s' \in [Conns -> Seq(Unit)] /\ scall' \in [Conns -> Calls \cup {0}]
      /\ sout' \in [Conns -> Seq(Unit)]
  <2>1. c2s' \in [Conns -> Seq(Unit)]
    BY <1>1, <1>4 DEF IInv, InStep, TypeOK
  <2>2. scall' \in [Conns -> Calls \cup {0}]
    BY <1>2, <1>4 DEF IInv, InStep, TypeOK
  <2>3. sout' \in [Conns -> Seq(Unit)]
    BY <1>3, <1>4 DEF IInv, InStep, TypeOK
  <2>4. QED
    BY <2>1, <2>2, <2>3
<1>6. /\ done' \in [Calls -> {"no", "ok", "error"}]
      /\ spc' \in [Conns -> {"none", "top", "recv_name", "recv_params", "exec",
                             "send", "send_last", "ended"}]
  BY <1>2, <1>4 DEF IInv, InStep, TypeOK
<1>7. QED
  BY <1>4, <1>5, <1>6 DEF IInv, InStep, TypeOK, clientVars

LEMMA ExecuteTypes ==
  ASSUME IInv, NEW k \in Conns, NEW r \in {"ok", "error"}, Execute(k, r)
  PROVE  TypeOK'
<1> DEFINE i == scall[k]
           answer == IF r = "ok" THEN <<U("ok", i)>> \o (IF out_pack(issued[i])
                                      THEN <<U("reply", i)>> ELSE <<>>)
                                 ELSE <<U("error", i)>>
<1>1. i \in Calls
  BY CallFacts DEF Execute, IInv, InStep, Thread
<1>2. answer \in Seq(Unit)
  BY <1>1, UnitFacts, ConcatProperties DEF R
<1>3. /\ done' = [done EXCEPT ![i] = r] /\ sout' = [sout EXCEPT ![k] = answer]
      /\ spc' = [spc EXCEPT ![k] = "send"]
      /\ served' = [served EXCEPT ![k] = @ + IF finish[k] THEN 1 ELSE 0]
      /\ UNCHANGED <<clientVars, linkVars, scall, finish, outcome, answered>>
  BY DEF Execute
<1> HIDE DEF i, answer
<1>4. QED
  BY <1>1, <1>2, <1>3 DEF IInv, InStep, TypeOK, clientVars, linkVars

LEMMA LoseTypes ==
  ASSUME IInv, NEW k \in Conns, Lose(k)
  PROVE  /\ up' \in [Conns -> BOOLEAN]
         /\ c2s' \in [Conns -> Seq(Unit)] /\ s2c' \in [Conns -> Seq(Unit)]
  BY PrefixesAreStreams DEF IInv, InStep, TypeOK, Lose

LEMMA ServerTypes ==
  ASSUME IInv, NEW k \in Conns,
         \/ ServiceLoop(k) \/ ServerRecvParams(k) \/ ServerRecvFails(k)
         \/ ServerSend(k) \/ ServerSendFails(k) \/ ServiceEnds(k)
         \/ ServiceStop(k) \/ LinkBreaks(k)
  PROVE  TypeOK'
<1> USE DEF IInv, InStep, TypeOK
<1>1. CASE ServiceLoop(k)
  BY <1>1 DEF ServiceLoop, clientVars, linkVars, historyVars
<1>2. CASE ServerRecvParams(k)
  <2>1. Tail(c2s[k]) \in Seq(Unit)
    BY <1>2, HeadTailProperties DEF ServerRecvParams
  <2>2. QED
    BY <1>2, <2>1 DEF ServerRecvParams, clientVars, historyVars
<1>3. CASE ServerRecvFails(k)
  BY <1>3 DEF ServerRecvFails, clientVars, linkVars, historyVars
<1>4. CASE ServerSend(k)
  <2>1. scall[k] \in Calls /\ Ran(scall[k]) /\ sout[k] # <<>>
    BY <1>4, AnswerFacts, StreamFacts DEF ServerSend, Thread, Ran
  <2>2. Head(sout[k]) \in Unit /\ Tail(sout[k]) \in Seq(Unit)
    BY <2>1, HeadTailProperties
  <2>3. Append(s2c[k], Head(sout[k])) \in Seq(Unit)
    BY <2>2, AppendProperties
  <2>4. spc'[k] \in {"send", "send_last", "top", "ended"} /\ spc' = [spc EXCEPT ![k] = spc'[k]]
    BY <1>4 DEF ServerSend
  <2>5. QED
    BY <1>4, <2>2, <2>3, <2>4 DEF ServerSend, clientVars, historyVars
<1>5. CASE ServerSendFails(k)
  BY <1>5 DEF ServerSendFails, clientVars, linkVars, historyVars
<1>6. CASE ServiceEnds(k) \/ LinkBreaks(k)
  BY <1>6, LoseTypes DEF ServiceEnds, LinkBreaks, clientVars, serverVars, historyVars
<1>7. CASE ServiceStop(k)
  BY <1>7 DEF ServiceStop, clientVars, linkVars, historyVars
<1>8. QED
  BY <1>1, <1>2, <1>3, <1>4, <1>5, <1>6, <1>7

LEMMA ReconnectTypes ==
  ASSUME IInv, Reconnect
  PROVE  TypeOK'
<1>1. conn + 1 \in Conns
  BY CallFacts, RpcAssumption DEF IInv, InStep, Reconnect, Conns
<1>2. c2s' \in [Conns -> Seq(Unit)] /\ s2c' \in [Conns -> Seq(Unit)]
  BY PrefixesAreStreams DEF IInv, InStep, TypeOK, Reconnect
<1>3. QED
  BY <1>1, <1>2 DEF IInv, InStep, TypeOK, Reconnect

LEMMA TypesKept == IInv /\ [Next]_vars => TypeOK'
<1> SUFFICES ASSUME IInv, [Next]_vars
             PROVE  TypeOK'
  OBVIOUS
<1>1. CASE UNCHANGED vars
  BY <1>1 DEF IInv, InStep, TypeOK, vars
<1>2. CASE \E f \in Proxies : SyncCall(f)
  BY <1>2, SyncCallTypes
<1>3. CASE ClientStep
  BY <1>3, ClientSendTypes, ClientTypes DEF ClientStep
<1>4. CASE Reconnect
  BY <1>4, ReconnectTypes
<1>5. CASE \E k \in Conns : ServerStep(k) \/ ServiceStop(k) \/ LinkBreaks(k)
  BY <1>5, ServerTypes, ServerRecvNameTypes, ExecuteTypes DEF ServerStep
<1>6. QED
  BY <1>1, <1>2, <1>3, <1>4, <1>5 DEF Next

-----------------------------------------------------------------------------
\* A service told to stop.

\* Where a thread is after it has sent a unit.
LEMMA AfterSend ==
  ASSUME NEW k \in Conns, ServerSend(k)
  PROVE  \/ /\ spc[k] = "send"
            /\ spc' = [spc EXCEPT ![k] = IF Tail(sout[k]) = <<>> THEN "top" ELSE "send"]
         \/ /\ spc[k] = "send_last"
            /\ spc' = [spc EXCEPT ![k] = IF Tail(sout[k]) = <<>> THEN "ended"
                                                                ELSE "send_last"]
<1> DEFINE after == [send |-> "top", send_last |-> "ended"]
<1>1. after["send"] = "top" /\ after["send_last"] = "ended"
  OBVIOUS
<1>2. /\ spc[k] \in {"send", "send_last"}
      /\ spc' = [spc EXCEPT ![k] = IF Tail(sout[k]) = <<>> THEN after[spc[k]] ELSE spc[k]]
  BY DEF ServerSend
<1> HIDE DEF after
<1>3. QED
  BY <1>1, <1>2

LEMMA StoppingKept == IInv /\ [Next]_vars => Stopping'
<1> SUFFICES ASSUME IInv, [Next]_vars
             PROVE  Stopping'
  OBVIOUS
<1> USE DEF IInv, TypeOK, Stopping
<1>1. CASE UNCHANGED vars
  BY <1>1 DEF vars
<1>2. CASE (\E f \in Proxies : SyncCall(f)) \/ ClientStep
  BY <1>2 DEF SyncCall, ClientStep, ClientSend, ClientRecvStatus, ClientRecvReply,
              ClientFails, serverVars, historyVars
<1>3. CASE Reconnect
  <2>1. conn + 1 \in Conns /\ spc[conn + 1] = "none"
    BY <1>3, CallFacts, RpcAssumption DEF InStep, Reconnect, Conns, Thread
  <2>2. QED
    BY <1>3, <2>1 DEF Reconnect
<1>4. ASSUME NEW k \in Conns, ServerStep(k) \/ ServiceStop(k) \/ LinkBreaks(k)
      PROVE  Stopping'
  <2>1. CASE ServiceLoop(k)
    BY <2>1 DEF ServiceLoop, historyVars
  <2>2. CASE ServerRecvName(k)
    BY <2>2 DEF ServerRecvName
  <2>3. CASE ServerRecvParams(k) \/ ServerRecvFails(k)
    BY <2>3 DEF ServerRecvParams, ServerRecvFails, historyVars
  <2>4. ASSUME NEW r \in {"ok", "error"}, Execute(k, r)
        PROVE  Stopping'
    BY <2>4 DEF Execute
  <2>5. CASE ServerSend(k)
    BY <2>5, AfterSend DEF ServerSend, historyVars
  <2>6. CASE ServerSendFails(k)
    BY <2>6 DEF ServerSendFails, historyVars
  <2>7. CASE ServiceEnds(k) \/ ServiceStop(k) \/ LinkBreaks(k)
    BY <2>7 DEF ServiceEnds, ServiceStop, LinkBreaks, serverVars, historyVars
  <2>8. QED
    BY <1>4, <2>1, <2>2, <2>3, <2>4, <2>5, <2>6, <2>7 DEF ServerStep
<1>5. QED
  BY <1>1, <1>2, <1>3, <1>4 DEF Next

-----------------------------------------------------------------------------
\* What a step leaves alone.

LEMMA AnswerKept ==
  ASSUME NEW i \in Calls, done'[i] = done[i], issued'[i] = issued[i]
  PROVE  Answer(i)' = Answer(i) /\ (Ran(i)' <=> Ran(i))
  BY DEF Answer, Ran

\* A step that runs nothing and gives no thread anything more to run.
LEMMA NothingRuns ==
  ASSUME IInv, UNCHANGED <<clientVars, done, outcome, answered>>,
         \A m \in Conns, i \in Calls : Holds(m, i)' => Holds(m, i)
  PROVE  Told' /\ Sending' /\ Held'
<1> USE DEF clientVars
<1>1. Told'
  BY DEF IInv, InStep, Told, cur
<1>2. Sending'
  <2>1. N(cur)' = N(cur) /\ P(cur)' = P(cur) /\ cur' = cur
    BY DEF cur, N, P
  <2>2. cur \in Calls \/ cpc # "send"
    BY InCall DEF IInv, InStep
  <2>3. QED
    BY <2>1, <2>2 DEF IInv, InStep, Sending
<1>3. Held'
  <2>1. cur' = cur
    BY DEF cur
  <2>2. QED
    BY <2>1 DEF IInv, InStep, Held
<1>4. QED
  BY <1>1, <1>2, <1>3

\* A step of one thread is none of another.
LEMMA OtherThreads ==
  ASSUME IInv, NEW k \in Conns, issued' = issued, conn' = conn,
         \A i \in Calls : Ran(i) => done'[i] = done[i],
         \A m \in Conns \ {k} :
            /\ up'[m] = up[m] /\ c2s'[m] = c2s[m] /\ s2c'[m] = s2c[m]
            /\ spc'[m] = spc[m] /\ scall'[m] = scall[m] /\ sout'[m] = sout[m],
         Thread(k)'
  PROVE  \A m \in Conns : Thread(m)'
<1> SUFFICES ASSUME NEW m \in Conns \ {k}
             PROVE  Thread(m)'
  OBVIOUS
<1>1. Thread(m) /\ cur' = cur
  BY DEF IInv, InStep, cur
<1>2. /\ up'[m] = up[m] /\ c2s'[m] = c2s[m] /\ s2c'[m] = s2c[m]
      /\ spc'[m] = spc[m] /\ scall'[m] = scall[m] /\ sout'[m] = sout[m]
  OBVIOUS
<1>3. Ran(scall[m]) => Ran(scall[m])' /\ Answer(scall[m])' = Answer(scall[m])
  BY <1>2, AnswerKept DEF Ran
<1>4. Waiting(m)' <=> Waiting(m)
  BY <1>2 DEF Waiting
<1>5. \A i : N(i)' = N(i) /\ P(i)' = P(i)
  BY DEF N, P
<1>6. R(scall[m])' = R(scall[m]) /\ P(scall[m])' = P(scall[m])
  BY <1>2 DEF R, P
<1>7. QED
  BY <1>1, <1>2, <1>3, <1>4, <1>5, <1>6 DEF Thread, U

\* What the client sees depends on its own connection alone.
LEMMA ClientSeesSame ==
  ASSUME IInv, UNCHANGED <<issued, cpc, cout, conn>>, done'[cur] = done[cur] \/ cpc = "idle",
         /\ up'[conn] = up[conn] /\ c2s'[conn] = c2s[conn] /\ s2c'[conn] = s2c[conn]
         /\ spc'[conn] = spc[conn] /\ scall'[conn] = scall[conn] /\ sout'[conn] = sout[conn]
  PROVE  Sees' /\ Turn'
<1>1. cur' = cur
  BY DEF cur
<1>2. CASE cpc = "idle"
  BY <1>1, <1>2 DEF IInv, InStep, Sees, Turn, Quiet, Over, Waiting
<1>3. CASE cpc # "idle"
  <2>1. cur \in Calls
    BY <1>3, InCall DEF IInv, InStep
  <2>2. Answer(cur)' = Answer(cur) /\ (Ran(cur)' <=> Ran(cur)) /\ done'[cur] = done[cur]
    BY <1>1, <1>3, <2>1, AnswerKept
  <2>3. Sees'
    BY <1>1, <2>2 DEF IInv, InStep, Sees, U, R
  <2>4. Turn'
    BY <1>1, <2>2 DEF IInv, InStep, Turn, Quiet, Over, Waiting, Named, Asked, Answering, Replying,
                      Refused, N, P, R
  <2>5. QED
    BY <2>3, <2>4
<1>4. QED
  BY <1>2, <1>3

-----------------------------------------------------------------------------
\* The steps of a service thread that run nothing.

LEMMA ServiceLoopKeeps ==
  ASSUME IInv, NEW k \in Conns, ServiceLoop(k)
  PROVE  InStep'
<1>1. /\ UNCHANGED <<issued, cpc, cout, conn, up, c2s, s2c, scall, sout, done, outcome, answered>>
      /\ spc[k] = "top"
      /\ spc' \in {[spc EXCEPT ![k] = "recv_name"], [spc EXCEPT ![k] = "ended"]}
  BY DEF ServiceLoop, clientVars, linkVars, historyVars
<1>2. \A m \in Conns, i \in Calls : Holds(m, i)' => Holds(m, i)
  BY <1>1 DEF Holds, Waiting, N, P, IInv, TypeOK
<1>3. Told' /\ Sending' /\ Held'
  BY <1>1, <1>2, NothingRuns DEF clientVars
<1>4. Thread(k)'
  BY <1>1 DEF IInv, InStep, TypeOK, Thread, Waiting, N, P, cur
<1>5. \A m \in Conns : Thread(m)'
  BY <1>1, <1>4, OtherThreads DEF IInv, TypeOK
<1>6. Sees' /\ Turn'
  <2>1. CASE k # conn
    BY <1>1, <2>1, ClientSeesSame DEF IInv, TypeOK
  <2>2. CASE k = conn
    <3>1. cur' = cur /\ cur # 0 => Answer(cur)' = Answer(cur)
      BY <1>1 DEF cur, Answer
    <3>2. Sees'
      BY <1>1, <3>1 DEF IInv, InStep, Sees, U, R, Ran, cur, Answer
    <3>3. Turn'
      BY <1>1, <2>2 DEF IInv, InStep, TypeOK, Turn, Quiet, Over, Waiting, Named, Asked,
                        Answering, Replying, Refused, N, P, R, U, cur, Answer, Ran
    <3>4. QED
      BY <3>2, <3>3
  <2>3. QED
    BY <2>1, <2>2
<1>7. QED
  BY <1>3, <1>5, <1>6 DEF InStep

LEMMA ServerRecvFailsKeeps ==
  ASSUME IInv, NEW k \in Conns, ServerRecvFails(k)
  PROVE  InStep'
<1>1. /\ UNCHANGED <<issued, cpc, cout, conn, up, c2s, s2c, scall, sout, done, outcome, answered>>
      /\ spc[k] \in {"recv_name", "recv_params"} /\ ~up[k]
      /\ spc' = [spc EXCEPT ![k] = "ended"]
  BY DEF ServerRecvFails, clientVars, linkVars, historyVars
<1>2. \A m \in Conns, i \in Calls : Holds(m, i)' => Holds(m, i)
  BY <1>1 DEF Holds, Waiting, N, P, IInv, TypeOK
<1>3. Told' /\ Sending' /\ Held'
  BY <1>1, <1>2, NothingRuns DEF clientVars
<1>4. Thread(k)'
  BY <1>1 DEF IInv, InStep, TypeOK, Thread, Waiting, N, P, cur
<1>5. \A m \in Conns : Thread(m)'
  BY <1>1, <1>4, OtherThreads DEF IInv, TypeOK
<1>6. Sees'
  BY <1>1 DEF IInv, InStep, Sees, U, R, Ran, cur, Answer
<1>7. Turn'
  <2>1. CASE k # conn
    BY <1>1, <2>1, ClientSeesSame DEF IInv, TypeOK
  <2>2. CASE k = conn
    BY <1>1, <2>2 DEF Turn
  <2>3. QED
    BY <2>1, <2>2
<1>8. QED
  BY <1>3, <1>5, <1>6, <1>7 DEF InStep

LEMMA ServerRecvParamsKeeps ==
  ASSUME IInv, NEW k \in Conns, ServerRecvParams(k)
  PROVE  InStep'
<1>1. /\ UNCHANGED <<issued, cpc, cout, conn, up, s2c, scall, sout, done, outcome, answered>>
      /\ spc[k] = "recv_params" /\ c2s[k] # <<>>
      /\ spc' = [spc EXCEPT ![k] = "exec"]
      /\ c2s' = [c2s EXCEPT ![k] = Tail(@)]
  BY DEF ServerRecvParams, clientVars, historyVars
<1>2. c2s[k] = <<P(scall[k])>> /\ c2s' = [c2s EXCEPT ![k] = <<>>]
  <2>1. c2s[k] = <<P(scall[k])>>
    BY <1>1 DEF IInv, InStep, Thread
  <2>2. Tail(c2s[k]) = <<>>
    BY <2>1, StreamFacts
  <2>3. QED
    BY <1>1, <2>1, <2>2
<1>3. \A m \in Conns, i \in Calls : Holds(m, i)' => Holds(m, i)
  BY <1>1, <1>2 DEF Holds, Waiting, N, P, IInv, TypeOK
<1>4. Told' /\ Sending' /\ Held'
  BY <1>1, <1>3, NothingRuns DEF clientVars
<1>5. Thread(k)'
  <2>1. Thread(k) /\ cur' = cur /\ spc'[k] = "exec" /\ c2s'[k] = <<>>
    BY <1>1, <1>2 DEF IInv, InStep, TypeOK, cur
  <2>2. QED
    BY <1>1, <2>1 DEF Thread, Waiting
<1>6. \A m \in Conns : Thread(m)'
  BY <1>1, <1>5, OtherThreads DEF IInv, TypeOK
<1>7. Sees'
  BY <1>1 DEF IInv, InStep, Sees, U, R, Ran, cur, Answer
<1>8. Turn'
  <2>1. CASE k # conn
    BY <1>1, <2>1, ClientSeesSame DEF IInv, TypeOK
  <2>2. CASE k = conn /\ up[conn]
    <3>1. cpc = "status" /\ Asked(conn, cur)
      BY <1>1, <2>2 DEF IInv, InStep, Turn, Quiet, Over, Waiting, Named, Asked, Answering,
                             Replying, Refused
    <3>2. Asked(conn, cur)'
      BY <1>1, <1>2, <2>2, <3>1 DEF Asked, Waiting, cur, IInv, TypeOK
    <3>3. QED
      BY <1>1, <3>1, <3>2 DEF Turn
  <2>3. CASE ~up[conn]
    BY <1>1, <2>3 DEF Turn
  <2>4. QED
    BY <2>1, <2>2, <2>3
<1>9. QED
  BY <1>4, <1>6, <1>7, <1>8 DEF InStep

LEMMA ServerSendFailsKeeps ==
  ASSUME IInv, NEW k \in Conns, ServerSendFails(k)
  PROVE  InStep'
<1>1. /\ UNCHANGED <<issued, cpc, cout, conn, up, c2s, s2c, scall, done, outcome, answered>>
      /\ spc[k] \in {"send", "send_last"} /\ ~up[k]
      /\ spc' = [spc EXCEPT ![k] = "ended"] /\ sout' = [sout EXCEPT ![k] = <<>>]
  BY DEF ServerSendFails, clientVars, linkVars, historyVars
<1>2. \A m \in Conns, i \in Calls : Holds(m, i)' => Holds(m, i)
  BY <1>1 DEF Holds, Waiting, N, P, IInv, TypeOK
<1>3. Told' /\ Sending' /\ Held'
  BY <1>1, <1>2, NothingRuns DEF clientVars
<1>4. Thread(k)'
  BY <1>1 DEF IInv, InStep, TypeOK, Thread, Waiting, cur
<1>5. \A m \in Conns : Thread(m)'
  BY <1>1, <1>4, OtherThreads DEF IInv, TypeOK
<1>6. Sees'
  BY <1>1 DEF IInv, InStep, Sees, U, R, Ran, cur, Answer
<1>7. Turn'
  <2>1. CASE k # conn
    BY <1>1, <2>1, ClientSeesSame DEF IInv, TypeOK
  <2>2. CASE k = conn
    BY <1>1, <2>2 DEF Turn
  <2>3. QED
    BY <2>1, <2>2
<1>8. QED
  BY <1>3, <1>5, <1>6, <1>7 DEF InStep

LEMMA ServiceStopKeeps ==
  ASSUME IInv, NEW k \in Conns, ServiceStop(k)
  PROVE  InStep'
<1>1. UNCHANGED <<issued, cpc, cout, conn, up, c2s, s2c, spc, scall, sout, done, outcome,
                  answered>>
  BY DEF ServiceStop, clientVars, linkVars, historyVars
<1>2. \A m \in Conns, i \in Calls : Holds(m, i)' => Holds(m, i)
  BY <1>1 DEF Holds, Waiting, N, P
<1>3. Told' /\ Sending' /\ Held'
  BY <1>1, <1>2, NothingRuns DEF clientVars
<1>4. \A m \in Conns : Thread(m)'
  BY <1>1 DEF IInv, InStep, Thread, Waiting, cur, Answer, Ran, N, P, R, U
<1>5. Sees' /\ Turn'
  BY <1>1, ClientSeesSame
<1>6. QED
  BY <1>3, <1>4, <1>5 DEF InStep

-----------------------------------------------------------------------------
\* The steps that run a call.

\* A thread that runs the call it holds, or refuses it, gives it up.
LEMMA CallRuns ==
  ASSUME IInv, NEW k \in Conns, NEW i \in Calls, Holds(k, i),
         NEW r \in {"ok", "error"}, done' = [done EXCEPT ![i] = r],
         UNCHANGED <<clientVars, outcome, answered>>,
         \A m \in Conns, j \in Calls : Holds(m, j)' => m # k /\ Holds(m, j)
  PROVE  /\ Told' /\ Sending' /\ Held'
         /\ \A j \in Calls : Ran(j) => done'[j] = done[j]
         /\ cpc = "idle" \/ k = conn \/ done'[cur] = done[cur]
         /\ cpc = "status" /\ s2c[conn] # <<>> => done'[cur] = done[cur]
         /\ cpc = "reply" => done'[cur] = done[cur]
         /\ Ran(i)' /\ i <= cur
<1> USE DEF clientVars
<1>1. cur' = cur
  BY DEF cur
<1>2. /\ i <= cur /\ done[i] = "no" /\ outcome[i] \in {"none", "failed"}
      /\ \A m \in Conns : Holds(m, i) => m = k
      /\ i = cur /\ cpc # "idle" => k = conn
  BY DEF IInv, InStep, Held
<1>3. done'[i] = r /\ \A j \in Calls \ {i} : done'[j] = done[j]
  BY DEF IInv, TypeOK
<1>4. Told'
  BY <1>1, <1>2, <1>3, CallFacts DEF IInv, InStep, Told, Calls
<1>5. Sending'
  <2>1. N(cur)' = N(cur) /\ P(cur)' = P(cur)
    BY <1>1 DEF N, P
  <2>2. cur \in Calls \/ cpc # "send"
    BY InCall DEF IInv, InStep
  <2>3. cpc = "send" /\ cout = <<N(cur), P(cur)>> => i # cur
    BY DEF IInv, InStep, Sending
  <2>4. QED
    BY <1>1, <1>3, <2>1, <2>2, <2>3 DEF IInv, InStep, Sending
<1>6. Held'
  <2>1. SUFFICES ASSUME NEW m \in Conns, NEW j \in Calls, Holds(m, j)'
                 PROVE  /\ j <= cur' /\ done'[j] = "no" /\ outcome'[j] \in {"none", "failed"}
                        /\ \A l \in Conns : Holds(l, j)' => l = m
                        /\ j = cur' /\ cpc' # "idle" => m = conn'
    BY DEF Held
  <2>2. m # k /\ Holds(m, j) /\ j # i
    BY <1>2, <2>1
  <2>3. QED
    BY <1>1, <1>3, <2>2 DEF IInv, InStep, Held
<1>7. /\ \A j \in Calls : Ran(j) => done'[j] = done[j]
      /\ Ran(i)'
  BY <1>2, <1>3 DEF Ran
<1>8. /\ cpc = "idle" \/ k = conn \/ done'[cur] = done[cur]
      /\ cpc = "status" /\ s2c[conn] # <<>> => done'[cur] = done[cur]
      /\ cpc = "reply" => done'[cur] = done[cur]
  BY <1>2, <1>3, <1>7, InCall DEF IInv, InStep, Sees, Ran
<1>9. QED
  BY <1>2, <1>4, <1>5, <1>6, <1>7, <1>8

\* What thread k finds when it reads a name.
LEMMA NameFacts ==
  ASSUME IInv, NEW k \in Conns, spc[k] = "recv_name", c2s[k] # <<>>
  PROVE  /\ Head(c2s[k]).call \in 1..cur
         /\ Head(c2s[k]).call \in Calls
         /\ Holds(k, Head(c2s[k]).call)
         /\ \/ c2s[k] = <<N(Head(c2s[k]).call)>> /\ Tail(c2s[k]) = <<>>
            \/ /\ c2s[k] = <<N(Head(c2s[k]).call), P(Head(c2s[k]).call)>>
               /\ Tail(c2s[k]) = <<P(Head(c2s[k]).call)>>
<1>1. PICK i \in 1..cur : c2s[k] \in {<<N(i)>>, <<N(i), P(i)>>}
  BY DEF IInv, InStep, Thread, Waiting
<1>2. i \in Calls
  BY CallFacts DEF IInv
<1>3. /\ Head(c2s[k]) = N(i)
      /\ \/ c2s[k] = <<N(i)>> /\ Tail(c2s[k]) = <<>>
         \/ c2s[k] = <<N(i), P(i)>> /\ Tail(c2s[k]) = <<P(i)>>
  <2>1. CASE c2s[k] = <<N(i)>>
    BY <2>1, StreamFacts
  <2>2. CASE c2s[k] = <<N(i), P(i)>>
    BY <2>2, StreamFacts
  <2>3. QED
    BY <1>1, <2>1, <2>2
<1>4. Head(c2s[k]).call = i
  BY <1>2, <1>3, UnitFacts
<1>5. QED
  BY <1>1, <1>2, <1>3, <1>4 DEF Holds, Waiting

LEMMA ServerRecvNameKeeps ==
  ASSUME IInv, NEW k \in Conns, ServerRecvName(k)
  PROVE  InStep'
<1>1. spc[k] = "recv_name" /\ c2s[k] # <<>>
  BY DEF ServerRecvName
<1>2. PICK i \in Calls : i = Head(c2s[k]).call
  BY <1>1, NameFacts
<1>3. /\ i \in 1..cur /\ Holds(k, i)
      /\ \/ c2s[k] = <<N(i)>> /\ Tail(c2s[k]) = <<>>
         \/ c2s[k] = <<N(i), P(i)>> /\ Tail(c2s[k]) = <<P(i)>>
  BY <1>1, <1>2, NameFacts
<1>4. /\ UNCHANGED <<issued, cpc, cout, conn, up, s2c, outcome, answered>>
      /\ c2s' = [c2s EXCEPT ![k] = Tail(c2s[k])] /\ scall' = [scall EXCEPT ![k] = i]
      /\ \/ /\ spc' = [spc EXCEPT ![k] = "recv_params"]
            /\ UNCHANGED <<sout, done>>
         \/ /\ sout' = [sout EXCEPT ![k] = <<U("error", i)>>]
            /\ spc' = [spc EXCEPT ![k] = "send_last"]
            /\ done' = [done EXCEPT ![i] = "error"]
  BY <1>2 DEF ServerRecvName, clientVars
<1>5. cur' = cur
  BY <1>4 DEF cur
<1>6. k = conn /\ up[conn] =>
        /\ i = cur /\ s2c[k] = <<>>
        /\ \/ cpc = "send" /\ cout = <<P(cur)>> /\ c2s[k] = <<N(cur)>>
           \/ cpc = "status" /\ c2s[k] = <<N(cur), P(cur)>>
  <2>1. SUFFICES ASSUME k = conn, up[conn]
                 PROVE  /\ i = cur /\ s2c[k] = <<>>
                        /\ \/ cpc = "send" /\ cout = <<P(cur)>> /\ c2s[k] = <<N(cur)>>
                           \/ cpc = "status" /\ c2s[k] = <<N(cur), P(cur)>>
    OBVIOUS
  <2>2. /\ s2c[k] = <<>>
        /\ \/ cpc = "send" /\ cout = <<P(cur)>> /\ c2s[k] = <<N(cur)>>
           \/ cpc = "status" /\ c2s[k] = <<N(cur), P(cur)>>
    BY <1>1, <2>1 DEF IInv, InStep, Turn, Quiet, Over, Waiting, Named, Asked, Answering,
                      Replying, Refused
  <2>3. cur \in Calls
    BY <2>2, InCall DEF IInv, InStep
  <2>4. Head(c2s[k]) = N(cur)
    BY <2>2, StreamFacts
  <2>5. QED
    BY <1>2, <2>2, <2>3, <2>4, UnitFacts
<1>7. CASE /\ spc' = [spc EXCEPT ![k] = "recv_params"]
           /\ UNCHANGED <<sout, done>>
  <2>1. \A m \in Conns, j \in Calls : Holds(m, j)' => Holds(m, j)
    BY <1>3, <1>4, <1>7 DEF Holds, Waiting, N, P, IInv, TypeOK
  <2>2. Told' /\ Sending' /\ Held'
    BY <1>4, <1>7, <2>1, NothingRuns DEF clientVars
  <2>3. Thread(k)'
    <3>1. /\ Thread(k) /\ spc'[k] = "recv_params" /\ scall'[k] = i
          /\ c2s'[k] \in {<<>>, <<P(i)>>}
      BY <1>3, <1>4, <1>7 DEF IInv, InStep, TypeOK
    <3>2. P(scall[k])' = P(i)
      BY <3>1 DEF P
    <3>3. QED
      BY <1>1, <1>3, <1>4, <1>5, <1>7, <3>1, <3>2 DEF Thread, Waiting
  <2>4. \A m \in Conns : Thread(m)'
    BY <1>4, <1>7, <2>3, OtherThreads DEF IInv, TypeOK
  <2>5. Sees'
    BY <1>4, <1>7 DEF IInv, InStep, Sees, U, R, Ran, cur, Answer
  <2>6. Turn'
    <3>1. CASE k # conn
      BY <1>4, <1>7, <3>1, ClientSeesSame DEF IInv, TypeOK
    <3>2. CASE k = conn /\ up[conn]
      <4>1. /\ spc'[conn] = "recv_params" /\ scall'[conn] = cur /\ s2c'[conn] = <<>>
            /\ c2s'[conn] = Tail(c2s[k])
        BY <1>4, <1>6, <1>7, <3>2 DEF IInv, TypeOK
      <4>2. P(cur)' = P(cur)
        BY <1>5 DEF P
      <4>3. CASE cpc = "send" /\ cout = <<P(cur)>> /\ c2s[k] = <<N(cur)>>
        BY <1>4, <1>5, <4>1, <4>2, <4>3, StreamFacts DEF Turn, Named
      <4>4. CASE cpc = "status" /\ c2s[k] = <<N(cur), P(cur)>>
        BY <1>4, <1>5, <4>1, <4>2, <4>4, StreamFacts DEF Turn, Asked
      <4>5. QED
        BY <1>6, <3>2, <4>3, <4>4
    <3>3. CASE ~up[conn]
      BY <1>4, <3>3 DEF Turn
    <3>4. QED
      BY <3>1, <3>2, <3>3
  <2>7. QED
    BY <2>2, <2>4, <2>5, <2>6 DEF InStep
<1>8. CASE /\ sout' = [sout EXCEPT ![k] = <<U("error", i)>>]
           /\ spc' = [spc EXCEPT ![k] = "send_last"]
           /\ done' = [done EXCEPT ![i] = "error"]
  <2>1. \A m \in Conns, j \in Calls : Holds(m, j)' => m # k /\ Holds(m, j)
    BY <1>4, <1>8 DEF Holds, Waiting, N, P, IInv, TypeOK
  <2>2. /\ Told' /\ Sending' /\ Held'
        /\ \A j \in Calls : Ran(j) => done'[j] = done[j]
        /\ cpc = "idle" \/ k = conn \/ done'[cur] = done[cur]
        /\ cpc = "status" /\ s2c[conn] # <<>> => done'[cur] = done[cur]
        /\ cpc = "reply" => done'[cur] = done[cur]
        /\ Ran(i)'
    BY <1>3, <1>4, <1>8, <2>1, CallRuns DEF clientVars
  <2>3. Thread(k)'
    <3>1. /\ Thread(k) /\ spc'[k] = "send_last" /\ scall'[k] = i
          /\ sout'[k] = <<U("error", i)>>
      BY <1>4, <1>8 DEF IInv, InStep, TypeOK
    <3>2. U("error", scall[k])' = U("error", i) /\ Ran(scall[k])'
      BY <2>2, <3>1 DEF U, Ran
    <3>3. QED
      BY <1>1, <1>4, <1>5, <3>1, <3>2 DEF Thread, Waiting
  <2>4. \A m \in Conns : Thread(m)'
    BY <1>4, <1>8, <2>2, <2>3, OtherThreads DEF IInv, TypeOK
  <2>5. Sees'
    BY <1>4, <1>5, <2>2, InCall DEF IInv, InStep, Sees, U, R, Ran, Answer
  <2>6. Turn'
    <3>1. CASE k # conn
      BY <1>4, <1>8, <2>2, <3>1, ClientSeesSame DEF IInv, TypeOK
    <3>2. CASE k = conn /\ up[conn]
      <4>1. /\ spc'[conn] = "send_last" /\ scall'[conn] = cur /\ s2c'[conn] = <<>>
            /\ done'[cur] = "error" /\ Ran(cur)'
        BY <1>4, <1>5, <1>6, <1>8, <2>2, <3>2 DEF IInv, TypeOK, Ran
      <4>2. Refused(conn, cur)'
        BY <1>4, <1>5, <4>1 DEF Refused
      <4>3. P(cur)' = P(cur)
        BY <1>5 DEF P
      <4>4. QED
        BY <1>4, <1>6, <3>2, <4>2, <4>3 DEF Turn
    <3>3. CASE ~up[conn]
      BY <1>4, <3>3 DEF Turn
    <3>4. QED
      BY <3>1, <3>2, <3>3
  <2>7. QED
    BY <2>2, <2>4, <2>5, <2>6 DEF InStep
<1>9. QED
  BY <1>4, <1>7, <1>8

LEMMA ExecuteKeeps ==
  ASSUME IInv, NEW k \in Conns, NEW r \in {"ok", "error"}, Execute(k, r)
  PROVE  InStep'
<1>1. spc[k] = "exec" /\ scall[k] \in 1..cur /\ scall[k] \in Calls
  BY CallFacts DEF Execute, IInv, InStep, Thread
<1>2. PICK i \in Calls : i = scall[k]
  BY <1>1
<1>3. Holds(k, i) /\ c2s[k] = <<>>
  BY <1>1, <1>2 DEF Holds, IInv, InStep, Thread
<1>4. /\ UNCHANGED <<issued, cpc, cout, conn, up, c2s, s2c, scall, outcome, answered>>
      /\ spc' = [spc EXCEPT ![k] = "send"]
      /\ done' = [done EXCEPT ![i] = r]
      /\ sout' = [sout EXCEPT ![k] = IF r = "ok"
            THEN <<U("ok", i)>> \o (IF out_pack(issued[i]) THEN <<R(i)>> ELSE <<>>)
            ELSE <<U("error", i)>>]
  BY <1>2 DEF Execute, clientVars, linkVars, R
<1>5. cur' = cur
  BY <1>4 DEF cur
<1>6. \A m \in Conns, j \in Calls : Holds(m, j)' => m # k /\ Holds(m, j)
  BY <1>4 DEF Holds, Waiting, N, P, IInv, TypeOK
<1>7. /\ Told' /\ Sending' /\ Held'
      /\ \A j \in Calls : Ran(j) => done'[j] = done[j]
      /\ cpc = "idle" \/ k = conn \/ done'[cur] = done[cur]
      /\ cpc = "status" /\ s2c[conn] # <<>> => done'[cur] = done[cur]
      /\ cpc = "reply" => done'[cur] = done[cur]
      /\ Ran(i)'
  BY <1>3, <1>4, <1>6, CallRuns DEF clientVars
<1>8. sout'[k] = Answer(i)'
  <2>1. /\ sout'[k] = IF r = "ok"
            THEN <<U("ok", i)>> \o (IF out_pack(issued[i]) THEN <<R(i)>> ELSE <<>>)
            ELSE <<U("error", i)>>
        /\ done'[i] = r
    BY <1>4 DEF IInv, TypeOK
  <2>2. sout'[k] = IF r = "ok"
            THEN (IF out_pack(issued[i]) THEN <<U("ok", i), R(i)>> ELSE <<U("ok", i)>>)
            ELSE <<U("error", i)>>
    <3>1. /\ <<U("ok", i)>> \o <<R(i)>> = <<U("ok", i), R(i)>>
          /\ <<U("ok", i)>> \o <<>> = <<U("ok", i)>>
      BY StreamFacts
    <3>2. QED
      BY <2>1, <3>1
  <2>3. issued'[i] = issued[i]
    BY <1>4
  <2>4. QED
    BY <2>1, <2>2, <2>3 DEF Answer, U, R
<1>9. /\ spc'[k] = "send" /\ scall'[k] = i /\ c2s'[k] = <<>>
  BY <1>2, <1>3, <1>4 DEF IInv, TypeOK
<1>10. Thread(k)'
  <2>1. Thread(k)
    BY DEF IInv, InStep
  <2>2. Answer(scall[k])' = Answer(i)' /\ Ran(scall[k])'
    BY <1>7, <1>9 DEF Answer, Ran
  <2>3. QED
    BY <1>1, <1>4, <1>5, <1>8, <1>9, <2>1, <2>2 DEF Thread, Waiting
<1>11. \A m \in Conns : Thread(m)'
  BY <1>4, <1>7, <1>10, OtherThreads DEF IInv, TypeOK
<1>12. Sees'
  BY <1>4, <1>5, <1>7, InCall DEF IInv, InStep, Sees, U, R, Ran, Answer
<1>13. Turn'
  <2>1. CASE k # conn
    BY <1>4, <1>7, <2>1, ClientSeesSame DEF IInv, TypeOK
  <2>2. CASE k = conn /\ up[conn]
    <3>1. cpc = "status" /\ Asked(conn, cur)
      BY <1>1, <2>2 DEF IInv, InStep, Turn, Quiet, Over, Waiting, Named, Asked, Answering,
                        Replying, Refused
    <3>2. i = cur /\ s2c[conn] = <<>>
      BY <1>1, <1>2, <2>2, <3>1 DEF Asked, Waiting
    <3>3. Answering(conn, cur)'
      BY <1>4, <1>5, <1>7, <1>8, <1>9, <2>2, <3>2 DEF Answering, Ran, Answer
    <3>4. QED
      BY <1>4, <3>1, <3>3 DEF Turn
  <2>3. CASE ~up[conn]
    BY <1>4, <2>3 DEF Turn
  <2>4. QED
    BY <2>1, <2>2, <2>3
<1>14. QED
  BY <1>7, <1>11, <1>12, <1>13 DEF InStep

-----------------------------------------------------------------------------
\* What goes out, and what is lost.

LEMMA ServerSendKeeps ==
  ASSUME IInv, NEW k \in Conns, ServerSend(k)
  PROVE  InStep'
<1>1. /\ UNCHANGED <<issued, cpc, cout, conn, up, c2s, scall, done, outcome, answered>>
      /\ spc[k] \in {"send", "send_last"} /\ up[k]
      /\ s2c' = [s2c EXCEPT ![k] = Append(@, Head(sout[k]))]
      /\ sout' = [sout EXCEPT ![k] = Tail(@)]
  BY DEF ServerSend, clientVars, historyVars
<1>2. /\ spc[k] = "send" => spc'[k] = IF Tail(sout[k]) = <<>> THEN "top" ELSE "send"
      /\ spc[k] = "send_last" => spc'[k] = IF Tail(sout[k]) = <<>> THEN "ended" ELSE "send_last"
      /\ \A m \in Conns \ {k} : spc'[m] = spc[m]
  BY AfterSend DEF IInv, TypeOK
<1>3. k = conn /\ cur' = cur /\ \A i : N(i)' = N(i) /\ P(i)' = P(i) /\ R(i)' = R(i)
  BY <1>1 DEF IInv, InStep, Thread, cur, N, P, R
<1>4. /\ cpc \in {"send", "status", "reply"} /\ scall[k] = cur /\ cur \in Calls /\ Ran(cur)
      /\ \/ /\ cpc = "status" /\ spc[k] = "send" /\ s2c[k] = <<>> /\ sout[k] = Answer(cur)
         \/ /\ cpc = "status" /\ spc[k] = "send" /\ sout[k] = <<R(cur)>>
            /\ s2c[k] = <<U("ok", cur)>> /\ Answer(cur) = <<U("ok", cur), R(cur)>>
         \/ /\ cpc = "reply" /\ spc[k] = "send" /\ s2c[k] = <<>> /\ sout[k] = <<R(cur)>>
         \/ /\ cpc \in {"send", "status"} /\ spc[k] = "send_last" /\ s2c[k] = <<>>
            /\ sout[k] = <<U("error", cur)>> /\ done[cur] = "error"
            /\ cpc = "send" => cout = <<P(cur)>>
  <2>1. cpc \in {"send", "status", "reply"}
    BY <1>1, <1>3 DEF IInv, InStep, Turn, Quiet, Over, Waiting
  <2>2. cur \in Calls
    BY <2>1, InCall DEF IInv, InStep
  <2>3. Thread(k)
    BY DEF IInv, InStep
  <2>4. CASE spc[k] = "send"
    <3>1. \/ cpc = "status" /\ Answering(k, cur)
          \/ cpc = "reply" /\ Replying(k, cur)
      BY <1>1, <1>3, <2>4 DEF IInv, InStep, Turn, Quiet, Over, Waiting, Named, Asked, Refused
    <3>2. scall[k] = cur
      BY <2>4, <3>1 DEF Answering, Replying, Waiting
    <3>3. QED
      BY <2>2, <2>3, <2>4, <3>1, <3>2 DEF Answering, Replying, Waiting, Thread
  <2>5. CASE spc[k] = "send_last"
    <3>1. Refused(k, cur) /\ ((cpc = "send" /\ cout = <<P(cur)>>) \/ cpc = "status")
      BY <1>1, <1>3, <2>5 DEF IInv, InStep, Turn, Quiet, Over, Waiting, Named, Asked,
                              Answering, Replying
    <3>2. QED
      BY <2>2, <2>3, <2>5, <3>1 DEF Refused, Thread
  <2>6. QED
    BY <1>1, <2>4, <2>5
<1>5. Answer(cur)' = Answer(cur) /\ Ran(cur)' /\ U(done[cur], cur)' = U(done[cur], cur)
  BY <1>1, <1>3, <1>4, AnswerKept DEF U, Ran
<1>6. \/ /\ cpc = "status" /\ spc'[k] = "top" /\ sout'[k] = <<>> /\ s2c'[k] = Answer(cur)
      \/ /\ cpc = "status" /\ spc'[k] = "send" /\ sout'[k] = <<R(cur)>>
         /\ s2c'[k] = <<U("ok", cur)>> /\ Answer(cur) = <<U("ok", cur), R(cur)>>
      \/ /\ cpc = "reply" /\ spc'[k] = "top" /\ sout'[k] = <<>> /\ s2c'[k] = <<R(cur)>>
      \/ /\ cpc \in {"send", "status"} /\ spc'[k] = "ended" /\ sout'[k] = <<>>
         /\ s2c'[k] = Answer(cur) /\ done[cur] = "error"
         /\ cpc = "send" => cout = <<P(cur)>>
  <2>1. s2c'[k] = Append(s2c[k], Head(sout[k])) /\ sout'[k] = Tail(sout[k])
    BY <1>1 DEF IInv, TypeOK
  <2>2. CASE /\ cpc = "status" /\ spc[k] = "send" /\ s2c[k] = <<>> /\ sout[k] = Answer(cur)
    <3>1. CASE Answer(cur) = <<U(done[cur], cur)>>
      BY <1>2, <2>1, <2>2, <3>1, StreamFacts
    <3>2. CASE Answer(cur) = <<U("ok", cur), R(cur)>>
      BY <1>2, <2>1, <2>2, <3>2, StreamFacts
    <3>3. QED
      BY <1>4, <3>1, <3>2, AnswerFacts
  <2>3. CASE /\ cpc = "status" /\ spc[k] = "send" /\ sout[k] = <<R(cur)>>
             /\ s2c[k] = <<U("ok", cur)>> /\ Answer(cur) = <<U("ok", cur), R(cur)>>
    BY <1>2, <2>1, <2>3, StreamFacts
  <2>4. CASE /\ cpc = "reply" /\ spc[k] = "send" /\ s2c[k] = <<>> /\ sout[k] = <<R(cur)>>
    BY <1>2, <2>1, <2>4, StreamFacts
  <2>5. CASE /\ cpc \in {"send", "status"} /\ spc[k] = "send_last" /\ s2c[k] = <<>>
             /\ sout[k] = <<U("error", cur)>> /\ done[cur] = "error"
             /\ cpc = "send" => cout = <<P(cur)>>
    <3>1. Answer(cur) = <<U("error", cur)>>
      BY <1>4, <2>5, AnswerFacts
    <3>2. QED
      BY <1>2, <2>1, <2>5, <3>1, StreamFacts
  <2>6. QED
    BY <1>4, <2>2, <2>3, <2>4, <2>5
<1>7. spc'[k] = "ended" \/ (spc[k] = "send" /\ c2s'[k] = <<>>)
  <2>1. spc'[k] = "ended" \/ spc[k] = "send"
    BY <1>1, <1>2, <1>6
  <2>2. spc[k] = "send" => c2s[k] = <<>>
    BY DEF IInv, InStep, Thread
  <2>3. QED
    BY <1>1, <2>1, <2>2
<1>8. \A m \in Conns, i \in Calls : Holds(m, i)' => Holds(m, i)
  <2>1. SUFFICES ASSUME NEW m \in Conns, NEW i \in Calls, Holds(m, i)'
                 PROVE  Holds(m, i)
    OBVIOUS
  <2>2. CASE m # k
    <3>1. spc'[m] = spc[m] /\ c2s'[m] = c2s[m] /\ scall'[m] = scall[m]
      BY <1>1, <1>2, <2>2
    <3>2. QED
      BY <1>3, <2>1, <3>1 DEF Holds, Waiting
  <2>3. CASE m = k
    <3>1. spc'[k] \in {"top", "send", "ended"}
      BY <1>6
    <3>2. spc'[k] = "top" => c2s'[k] = <<>>
      BY <1>7
    <3>3. QED
      BY <2>1, <2>3, <3>1, <3>2, StreamFacts DEF Holds, Waiting
  <2>4. QED
    BY <2>2, <2>3
<1>9. Told' /\ Sending' /\ Held'
  BY <1>1, <1>8, NothingRuns DEF clientVars
<1>10. Thread(k)'
  <2>1. Thread(k)
    BY DEF IInv, InStep
  <2>2. Answer(scall[k])' = Answer(cur) /\ Ran(scall[k])' /\ R(scall[k])' = R(cur)
    BY <1>1, <1>4, <1>5 DEF Answer, Ran, R
  <2>3. QED
    BY <1>1, <1>3, <1>6, <1>7, <2>1, <2>2 DEF Thread, Waiting
<1>11. \A m \in Conns : Thread(m)'
  BY <1>1, <1>2, <1>10, OtherThreads DEF IInv, TypeOK
<1>12. Sees'
  <2>1. cpc = "status" => s2c'[k] \in {<<U(done[cur], cur)>>, Answer(cur)}
    BY <1>4, <1>6, AnswerFacts
  <2>2. cpc = "reply" => s2c'[k] = <<R(cur)>>
    BY <1>6
  <2>3. QED
    BY <1>1, <1>3, <1>5, <2>1, <2>2 DEF IInv, InStep, Sees
<1>13. Turn'
  <2>1. c2s'[k] = <<>> \/ spc'[k] = "ended"
    BY <1>7
  <2>2. scall'[k] = cur /\ U("ok", cur)' = U("ok", cur)
    BY <1>1, <1>3, <1>4 DEF U
  <2>3. \/ cpc = "status" /\ Answering(k, cur)'
        \/ cpc = "reply" /\ Replying(k, cur)'
        \/ ((cpc = "send" /\ cout = <<P(cur)>>) \/ cpc = "status") /\ Refused(k, cur)'
    BY <1>1, <1>3, <1>5, <1>6, <2>1, <2>2 DEF Answering, Replying, Refused, Waiting
  <2>4. QED
    BY <1>1, <1>3, <2>3 DEF Turn
<1>14. QED
  BY <1>9, <1>11, <1>12, <1>13 DEF InStep

\* A thread whose connection is gone works on with what has reached it.
LEMMA CutThread ==
  ASSUME IInv, NEW k \in Conns, spc[k] # "none", conn' \in Nat, k <= conn', ~up'[k],
         UNCHANGED <<issued, done>>, c2s'[k] \in Prefixes(c2s[k]),
         spc'[k] = spc[k], scall'[k] = scall[k], sout'[k] = sout[k]
  PROVE  /\ Thread(k)'
         /\ \A i \in Calls : Holds(k, i)' => Holds(k, i)
<1>1. cur' = cur /\ \A i : N(i)' = N(i) /\ P(i)' = P(i) /\ R(i)' = R(i)
  BY DEF cur, N, P, R
<1>2. Thread(k)
  BY DEF IInv, InStep
<1>3. /\ c2s[k] = <<>> => c2s'[k] = <<>>
      /\ \A i : c2s[k] = <<N(i)>> => c2s'[k] \in {<<>>, <<N(i)>>}
      /\ \A i : c2s[k] = <<P(i)>> => c2s'[k] \in {<<>>, <<P(i)>>}
      /\ \A i : c2s[k] = <<N(i), P(i)>> => c2s'[k] \in {<<>>, <<N(i)>>, <<N(i), P(i)>>}
  BY CutStream
<1>4. Waiting(k)' <=> Waiting(k)
  BY DEF Waiting
<1>5. \A i \in Calls : Holds(k, i)' => Holds(k, i)
  <2>1. SUFFICES ASSUME NEW i \in Calls, Holds(k, i)'
                 PROVE  Holds(k, i)
    OBVIOUS
  <2>2. CASE Waiting(k)
    <3>1. c2s'[k] \in {<<N(i)>>, <<N(i), P(i)>>}
      BY <1>1, <1>4, <2>1, <2>2 DEF Holds, Waiting
    <3>2. c2s[k] # <<>>
      <4>1. <<N(i)>> # <<>> /\ <<N(i), P(i)>> # <<>>
        BY StreamFacts
      <4>2. QED
        BY <1>3, <3>1, <4>1
    <3>3. PICK j \in 1..cur : c2s[k] \in {<<N(j)>>, <<N(j), P(j)>>}
      BY <1>2, <2>2, <3>2 DEF Thread
    <3>4. Head(c2s'[k]) = N(i) /\ Head(c2s'[k]) = N(j)
      <4>1. CASE c2s[k] = <<N(j)>>
        BY <1>3, <3>1, <4>1, StreamFacts
      <4>2. CASE c2s[k] = <<N(j), P(j)>>
        BY <1>3, <3>1, <4>2, StreamFacts
      <4>3. QED
        BY <3>3, <4>1, <4>2
    <3>5. i = j
      BY <3>3, <3>4, UnitFacts, CallFacts DEF IInv
    <3>6. QED
      BY <2>2, <3>3, <3>5 DEF Holds
  <2>3. CASE ~Waiting(k)
    BY <1>4, <2>1, <2>3 DEF Holds
  <2>4. QED
    BY <2>2, <2>3
<1>6. Thread(k)'
  <2>1. Ran(scall[k]) => Answer(scall[k])' = Answer(scall[k]) /\ Ran(scall[k])'
    BY DEF Answer, Ran, U, R
  <2>2. U("error", scall[k])' = U("error", scall[k]) /\ P(scall[k])' = P(scall[k])
        /\ R(scall[k])' = R(scall[k])
    BY DEF U, P, R
  <2>3. Waiting(k) => \/ c2s'[k] = <<>>
                      \/ \E i \in 1..cur : c2s'[k] \in {<<N(i)>>, <<N(i), P(i)>>}
    BY <1>2, <1>3 DEF Thread
  <2>4. /\ spc[k] = "recv_params" => c2s'[k] \in {<<>>, <<P(scall[k])>>}
        /\ spc[k] \in {"exec", "send"} => c2s'[k] = <<>>
    BY <1>2, <1>3 DEF Thread
  <2>5. ~(k > conn')
    BY DEF Conns
  <2>6. QED
    BY <1>1, <1>2, <1>4, <2>1, <2>2, <2>3, <2>4, <2>5 DEF Thread
<1>7. QED
  BY <1>5, <1>6

LEMMA LoseKeeps ==
  ASSUME IInv, NEW k \in Conns, ServiceEnds(k) \/ LinkBreaks(k)
  PROVE  InStep'
<1>1. /\ UNCHANGED <<issued, cpc, cout, conn, spc, scall, sout, done, outcome, answered>>
      /\ up[k] /\ up' = [up EXCEPT ![k] = FALSE]
  BY DEF ServiceEnds, LinkBreaks, Lose, clientVars, serverVars, historyVars
<1>2. /\ \A m \in Conns \ {k} : c2s'[m] = c2s[m] /\ s2c'[m] = s2c[m]
      /\ c2s'[k] \in Prefixes(c2s[k]) /\ s2c'[k] \in Prefixes(s2c[k])
  BY DEF ServiceEnds, LinkBreaks, Lose, IInv, TypeOK
<1>3. k = conn /\ cur' = cur /\ \A i : N(i)' = N(i) /\ P(i)' = P(i) /\ R(i)' = R(i)
  BY <1>1 DEF IInv, InStep, Thread, cur, N, P, R
<1>4. spc[k] # "none" /\ conn' \in Nat /\ k <= conn' /\ ~up'[k]
  BY <1>1, <1>3, CallFacts DEF IInv, InStep, Thread, TypeOK
<1>5. Thread(k)' /\ \A i \in Calls : Holds(k, i)' => Holds(k, i)
  BY <1>1, <1>2, <1>4, CutThread
<1>6. \A m \in Conns, i \in Calls : Holds(m, i)' => Holds(m, i)
  <2>1. SUFFICES ASSUME NEW m \in Conns \ {k}, NEW i \in Calls, Holds(m, i)'
                 PROVE  Holds(m, i)
    BY <1>5
  <2>2. QED
    BY <1>1, <1>2, <1>3, <2>1 DEF Holds, Waiting
<1>7. Told' /\ Sending' /\ Held'
  BY <1>1, <1>6, NothingRuns DEF clientVars
<1>8. \A m \in Conns : Thread(m)'
  BY <1>1, <1>2, <1>5, OtherThreads DEF IInv, TypeOK
<1>9. Sees'
  <2>1. cur \in Calls /\ Ran(cur) => Answer(cur)' = Answer(cur) /\ Ran(cur)'
                                      /\ U(done[cur], cur)' = U(done[cur], cur)
    BY <1>1, <1>3, AnswerKept DEF U, Ran
  <2>2. ASSUME cpc = "status", s2c'[k] # <<>>
        PROVE  Ran(cur) /\ s2c'[k] \in {<<U(done[cur], cur)>>, Answer(cur)}
    <3>1. s2c[k] # <<>>
      BY <1>2, <2>2, CutStream
    <3>2. Ran(cur) /\ s2c[k] \in {<<U(done[cur], cur)>>, Answer(cur)}
      BY <1>3, <2>2, <3>1 DEF IInv, InStep, Sees
    <3>3. cur \in Calls
      BY <2>2, InCall DEF IInv, InStep
    <3>4. CASE s2c[k] = <<U(done[cur], cur)>>
      BY <1>2, <2>2, <3>2, <3>4, CutStream
    <3>5. CASE s2c[k] = <<U("ok", cur), R(cur)>> /\ Answer(cur) = s2c[k]
      <4>1. done[cur] = "ok"
        BY <3>2, <3>3, <3>5, AnswerFacts
      <4>2. s2c'[k] \in {<<U("ok", cur)>>, <<U("ok", cur), R(cur)>>}
        BY <1>2, <2>2, <3>5, CutStream
      <4>3. QED
        BY <3>2, <3>5, <4>1, <4>2
    <3>6. QED
      BY <3>2, <3>3, <3>4, <3>5, AnswerFacts
  <2>3. ASSUME cpc = "reply"
        PROVE  s2c'[k] \in {<<>>, <<R(cur)>>} /\ Ran(cur) /\ done[cur] = "ok"
               /\ out_params(issued[cur])
    <3>1. s2c[k] \in {<<>>, <<R(cur)>>} /\ Ran(cur) /\ done[cur] = "ok"
          /\ out_params(issued[cur])
      BY <1>3, <2>3 DEF IInv, InStep, Sees
    <3>2. QED
      BY <1>2, <3>1, CutStream
  <2>4. cpc # "idle" => cur \in Calls
    BY InCall DEF IInv, InStep
  <2>5. QED
    BY <1>1, <1>3, <2>1, <2>2, <2>3, <2>4 DEF Sees
<1>10. Turn'
  BY <1>1, <1>3 DEF Turn, IInv, TypeOK
<1>11. QED
  BY <1>7, <1>8, <1>9, <1>10 DEF InStep

-----------------------------------------------------------------------------
\* The client's steps.

\* The call in progress ends, with its own answer or as failed.
LEMMA CallEnds ==
  ASSUME IInv, cpc # "idle", NEW r, CallReturns(r),
         r = "failed" \/ (Ran(cur) /\ r = done[cur]),
         UNCHANGED <<issued, conn, up, c2s, spc, scall, sout, done>>,
         \A m \in Conns \ {conn} : s2c'[m] = s2c[m],
         \A i \in Calls : answered'[i] \subseteq answered[i] \cup (IF i = cur THEN {cur} ELSE {})
  PROVE  Told' /\ Sending' /\ Held' /\ Sees' /\ \A k \in Conns : Thread(k)'
<1>1. cur' = cur /\ cur \in Calls /\ outcome[cur] = "none"
  BY InCall DEF IInv, InStep, cur
<1>2. /\ cpc' = "idle" /\ cout' = <<>>
      /\ outcome'[cur] = r /\ \A i \in Calls \ {cur} : outcome'[i] = outcome[i]
      /\ r # "none"
  BY <1>1 DEF CallReturns, IInv, TypeOK, Ran
<1>3. Told'
  <2>1. ASSUME NEW i \in Calls
        PROVE  /\ i > cur => done[i] = "no" /\ outcome'[i] = "none"
               /\ i < cur => outcome'[i] # "none"
               /\ outcome'[i] \in {"ok", "error"} => done[i] = outcome'[i]
               /\ answered'[i] \subseteq {i}
    BY <1>1, <1>2, CallFacts DEF IInv, InStep, Told
  <2>2. QED
    BY <1>1, <1>2, <2>1 DEF Told
<1>4. Sending' /\ Sees'
  BY <1>2 DEF Sending, Sees
<1>5. \A m \in Conns, i \in Calls : Holds(m, i)' <=> Holds(m, i)
  BY DEF Holds, Waiting, N, P
<1>6. Held'
  <2>1. SUFFICES ASSUME NEW m \in Conns, NEW i \in Calls, Holds(m, i)
                 PROVE  /\ i <= cur /\ done[i] = "no" /\ outcome'[i] \in {"none", "failed"}
                        /\ \A l \in Conns : Holds(l, i) => l = m
    BY <1>1, <1>2, <1>5 DEF Held
  <2>2. QED
    BY <1>1, <1>2, <2>1 DEF IInv, InStep, Held, Ran
<1>7. ASSUME NEW k \in Conns
      PROVE  Thread(k)'
  <2>1. Thread(k) /\ (spc[k] = "none" => k # conn)
    BY CallFacts DEF IInv, InStep, Thread
  <2>2. spc[k] = "none" => s2c'[k] = <<>>
    BY <2>1 DEF Thread
  <2>3. /\ \A i : N(i)' = N(i) /\ P(i)' = P(i) /\ (Ran(i)' <=> Ran(i))
        /\ Answer(scall[k])' = Answer(scall[k]) /\ R(scall[k])' = R(scall[k])
        /\ P(scall[k])' = P(scall[k]) /\ U("error", scall[k])' = U("error", scall[k])
        /\ Ran(scall[k])' <=> Ran(scall[k])
        /\ Waiting(k)' <=> Waiting(k)
    BY DEF N, P, Ran, Answer, R, U, Waiting
  <2>4. QED
    BY <1>1, <2>1, <2>2, <2>3 DEF Thread
<1>8. QED
  BY <1>3, <1>4, <1>6, <1>7

LEMMA ClientFailsKeeps ==
  ASSUME IInv, ClientFails
  PROVE  InStep'
<1>1. /\ cpc # "idle" /\ ~up[conn] /\ CallReturns("failed")
      /\ UNCHANGED <<issued, conn, up, c2s, s2c, spc, scall, sout, done, answered>>
  BY DEF ClientFails, linkVars, serverVars
<1>2. Told' /\ Sending' /\ Held' /\ Sees' /\ \A k \in Conns : Thread(k)'
  BY <1>1, CallEnds
<1>3. Turn'
  BY <1>1 DEF Turn
<1>4. QED
  BY <1>2, <1>3 DEF InStep

\* What the client takes is for the call in progress.
LEMMA ClientTakesFacts ==
  ASSUME IInv, ClientTakes, cpc \in {"status", "reply"}
  PROVE  /\ s2c[conn] # <<>> /\ s2c'[conn] = Tail(s2c[conn])
         /\ \A m \in Conns \ {conn} : s2c'[m] = s2c[m]
         /\ \A i \in Calls :
              answered'[i] = answered[i] \cup (IF i = cur THEN {cur} ELSE {})
<1>1. cur \in Calls /\ Head(s2c[conn]).call = cur
  BY InCall, SeenFacts DEF IInv, InStep, ClientTakes
<1>2. QED
  BY <1>1 DEF ClientTakes, IInv, TypeOK

LEMMA ClientRecvReplyKeeps ==
  ASSUME IInv, ClientRecvReply
  PROVE  InStep'
<1>1. /\ cpc = "reply" /\ ClientTakes /\ CallReturns("ok")
      /\ UNCHANGED <<issued, conn, up, c2s, spc, scall, sout, done>>
  BY DEF ClientRecvReply, serverVars
<1>2. Ran(cur) /\ done[cur] = "ok" /\ s2c'[conn] = <<>>
  BY <1>1, ClientTakesFacts, SeenFacts DEF IInv, InStep
<1>3. Told' /\ Sending' /\ Held' /\ Sees' /\ \A k \in Conns : Thread(k)'
  BY <1>1, <1>2, ClientTakesFacts, CallEnds
<1>4. Turn'
  <2>1. CASE up[conn]
    <3>1. Replying(conn, cur) /\ s2c[conn] # <<>>
      BY <1>1, <2>1 DEF IInv, InStep, Turn, ClientTakes
    <3>2. Quiet(conn)' \/ Over(conn)'
      BY <1>1, <1>2, <3>1 DEF Replying, Quiet, Over, Waiting
    <3>3. QED
      BY <1>1, <3>2 DEF Turn, CallReturns
  <2>2. CASE ~up[conn]
    BY <1>1, <2>2 DEF Turn
  <2>3. QED
    BY <2>1, <2>2
<1>5. QED
  BY <1>3, <1>4 DEF InStep

LEMMA ClientRecvStatusKeeps ==
  ASSUME IInv, ClientRecvStatus
  PROVE  InStep'
<1> DEFINE error == Head(s2c[conn]).kind
<1>1. /\ cpc = "status" /\ ClientTakes /\ s2c[conn] # <<>>
      /\ UNCHANGED <<issued, conn, up, c2s, spc, scall, sout, finish, done>>
      /\ \/ /\ error = "ok" /\ out_params(issued[cur])
            /\ cpc' = "reply" /\ UNCHANGED <<cout, outcome>>
         \/ /\ ~(error = "ok" /\ out_params(issued[cur]))
            /\ CallReturns(IF error = "ok" THEN "ok" ELSE "error")
  BY DEF ClientRecvStatus, ClientTakes, serverVars
<1>2. /\ cur \in Calls /\ Ran(cur) /\ error = done[cur]
      /\ s2c[conn] \in {<<U(done[cur], cur)>>, Answer(cur)}
  BY <1>1, InCall, SeenFacts DEF IInv, InStep, Sees
<1> HIDE DEF error
<1>3. /\ s2c'[conn] = Tail(s2c[conn])
      /\ \A m \in Conns \ {conn} : s2c'[m] = s2c[m]
      /\ \A i \in Calls : answered'[i] = answered[i] \cup (IF i = cur THEN {cur} ELSE {})
  BY <1>1, ClientTakesFacts
<1>4. up[conn] => Answering(conn, cur) \/ Refused(conn, cur)
  BY <1>1 DEF IInv, InStep, Turn, Asked, Over
<1>5. cur' = cur /\ Answer(cur)' = Answer(cur) /\ R(cur)' = R(cur) /\ (Ran(cur)' <=> Ran(cur))
  BY <1>1, <1>2, AnswerKept DEF cur, R, Ran
<1>6. CASE /\ done[cur] = "ok" /\ out_params(issued[cur])
           /\ cpc' = "reply" /\ UNCHANGED <<cout, outcome>>
  <2>1. Answer(cur) = <<U("ok", cur), R(cur)>>
    BY <1>2, <1>6, AnswerFacts, ReplyFacts
  <2>2. s2c'[conn] = IF s2c[conn] = Answer(cur) THEN <<R(cur)>> ELSE <<>>
    <3>1. CASE s2c[conn] = <<U("ok", cur), R(cur)>>
      BY <1>3, <2>1, <3>1, StreamFacts
    <3>2. CASE s2c[conn] = <<U("ok", cur)>>
      BY <1>3, <2>1, <3>2, StreamFacts
    <3>3. QED
      BY <1>2, <1>6, <2>1, <3>1, <3>2
  <2>3. Sees'
    BY <1>1, <1>2, <1>5, <1>6, <2>2 DEF Sees
  <2>4. Turn'
    <3>1. CASE up[conn]
      <4>1. Answering(conn, cur)
        BY <1>4, <1>6, <3>1 DEF Refused
      <4>2. Replying(conn, cur)'
        BY <1>1, <1>5, <2>1, <2>2, <4>1, StreamFacts DEF Answering, Replying, Waiting
      <4>3. QED
        BY <1>1, <1>5, <1>6, <4>2 DEF Turn
    <3>2. CASE ~up[conn]
      BY <1>1, <3>2 DEF Turn
    <3>3. QED
      BY <3>1, <3>2
  <2>5. Told'
    BY <1>1, <1>2, <1>3, <1>5, <1>6 DEF IInv, InStep, Told
  <2>6. Sending'
    BY <1>1, <1>6 DEF IInv, InStep, Sending
  <2>7. \A m \in Conns, i \in Calls : Holds(m, i)' <=> Holds(m, i)
    BY <1>1 DEF Holds, Waiting, N, P
  <2>8. Held'
    BY <1>1, <1>5, <1>6, <2>7 DEF IInv, InStep, Held
  <2>9. ASSUME NEW k \in Conns
        PROVE  Thread(k)'
    <3>1. Thread(k) /\ (spc[k] = "none" => k # conn)
      BY CallFacts DEF IInv, InStep, Thread
    <3>2. spc[k] = "none" => s2c'[k] = <<>>
      BY <1>3, <3>1 DEF Thread
    <3>3. /\ \A i : N(i)' = N(i) /\ P(i)' = P(i)
          /\ Answer(scall[k])' = Answer(scall[k]) /\ R(scall[k])' = R(scall[k])
          /\ P(scall[k])' = P(scall[k]) /\ U("error", scall[k])' = U("error", scall[k])
          /\ Ran(scall[k])' <=> Ran(scall[k])
          /\ Waiting(k)' <=> Waiting(k)
      BY <1>1 DEF N, P, Ran, Answer, R, U, Waiting
    <3>4. QED
      BY <1>1, <1>5, <3>1, <3>2, <3>3 DEF Thread
  <2>10. QED
    BY <2>3, <2>4, <2>5, <2>6, <2>8, <2>9 DEF InStep
<1>7. CASE /\ ~(done[cur] = "ok" /\ out_params(issued[cur]))
           /\ CallReturns(done[cur])
  <2>1. Told' /\ Sending' /\ Held' /\ Sees' /\ \A k \in Conns : Thread(k)'
    BY <1>1, <1>2, <1>3, <1>7, CallEnds
  <2>2. Turn'
    <3>1. CASE up[conn]
      <4>1. Answer(cur) = <<U(done[cur], cur)>>
        BY <1>2, <1>7, AnswerFacts, ReplyFacts
      <4>2. s2c'[conn] = <<>>
        BY <1>2, <1>3, <4>1, StreamFacts
      <4>3. Answer(cur) # <<U("ok", cur), R(cur)>>
        BY <1>2, <1>7, AnswerFacts, ReplyFacts
      <4>4. Quiet(conn)' \/ Over(conn)'
        BY <1>1, <1>4, <3>1, <4>2, <4>3 DEF Answering, Refused, Quiet, Over, Waiting
      <4>5. QED
        BY <1>1, <1>7, <4>4 DEF Turn, CallReturns
    <3>2. CASE ~up[conn]
      BY <1>1, <3>2 DEF Turn
    <3>3. QED
      BY <3>1, <3>2
  <2>3. QED
    BY <2>1, <2>2 DEF InStep
<1>8. QED
  BY <1>1, <1>2, <1>6, <1>7 DEF Ran

LEMMA SyncCallKeeps ==
  ASSUME IInv, NEW f \in Proxies, SyncCall(f)
  PROVE  InStep'
<1>1. /\ cpc = "idle" /\ cur < MaxCalls /\ cpc' = "send"
      /\ issued' = Append(issued, f) /\ cout' = <<N(cur + 1), P(cur + 1)>>
      /\ UNCHANGED <<conn, up, c2s, s2c, spc, scall, sout, done, outcome, answered>>
  BY DEF SyncCall, N, P, linkVars, serverVars, historyVars
<1>2. /\ cur' = cur + 1 /\ cur \in Nat /\ cur + 1 \in Calls
      /\ \A i \in 1..cur : issued'[i] = issued[i]
  BY <1>1, CallFacts, AppendProperties, RpcAssumption DEF IInv, TypeOK, cur, Calls
<1>3. /\ \A i : N(i)' = N(i) /\ P(i)' = P(i)
      /\ cout' = <<N(cur), P(cur)>>'
  BY <1>1, <1>2 DEF N, P
<1>4. \A i \in Calls : Ran(i) => i <= cur /\ Answer(i)' = Answer(i) /\ Ran(i)'
  <2>1. \A i \in Calls : Ran(i) => i \in 1..cur
    BY <1>2 DEF IInv, InStep, Told, Ran, Calls
  <2>2. SUFFICES ASSUME NEW i \in Calls, Ran(i)
                 PROVE  i <= cur /\ Answer(i)' = Answer(i) /\ Ran(i)'
    OBVIOUS
  <2>3. i \in 1..cur
    BY <2>1, <2>2
  <2>4. i <= cur /\ issued'[i] = issued[i]
    BY <1>2, <2>3
  <2>5. done'[i] = done[i]
    BY <1>1
  <2>6. QED
    BY <2>2, <2>4, <2>5, AnswerKept
<1>5. \A m \in Conns, i \in Calls : Holds(m, i)' => Holds(m, i) /\ i <= cur
  <2>1. \A m \in Conns, i \in Calls : Holds(m, i)' <=> Holds(m, i)
    BY <1>1, <1>3 DEF Holds, Waiting
  <2>2. QED
    BY <2>1 DEF IInv, InStep, Held
<1>6. Told'
  <2>1. ASSUME NEW i \in Calls
        PROVE  /\ i > cur + 1 => done[i] = "no" /\ outcome[i] = "none"
               /\ i < cur + 1 => outcome[i] # "none"
               /\ outcome[i] \in {"ok", "error"} => done[i] = outcome[i]
               /\ answered[i] \subseteq {i}
    BY <1>1, <1>2 DEF IInv, InStep, Told, Calls
  <2>2. outcome[cur + 1] = "none"
    BY <1>2 DEF IInv, InStep, Told
  <2>3. cpc' # "idle" /\ cur' # 0 /\ outcome'[cur'] = "none"
    BY <1>1, <1>2, <2>2
  <2>4. QED
    BY <1>1, <1>2, <2>1, <2>3 DEF Told
<1>7. Sending'
  <2>1. PICK i \in Calls : i = cur + 1
    BY <1>2
  <2>2. done'[cur'] = "no"
    BY <1>1, <1>2 DEF IInv, InStep, Told
  <2>3. \A k \in Conns : ~Holds(k, i)'
    BY <1>2, <1>5, <2>1
  <2>4. \A k \in Conns : Holds(k, cur)' => Holds(k, i)'
    BY <1>2, <2>1 DEF Holds, N, P, Waiting
  <2>5. QED
    BY <1>1, <1>3, <2>2, <2>3, <2>4 DEF Sending
<1>8. Held'
  <2>1. SUFFICES ASSUME NEW m \in Conns, NEW i \in Calls, Holds(m, i)'
                 PROVE  /\ i <= cur' /\ done'[i] = "no" /\ outcome'[i] \in {"none", "failed"}
                        /\ \A l \in Conns : Holds(l, i)' => l = m
                        /\ i = cur' /\ cpc' # "idle" => m = conn'
    BY DEF Held
  <2>2. QED
    BY <1>1, <1>2, <1>5, <2>1 DEF IInv, InStep, Held, Calls
<1>9. ASSUME NEW k \in Conns
      PROVE  Thread(k)'
  <2>1. Thread(k) /\ (Waiting(k)' <=> Waiting(k))
    BY <1>1 DEF IInv, InStep, Waiting
  <2>2. Ran(scall[k]) => Answer(scall[k])' = Answer(scall[k]) /\ Ran(scall[k])'
    BY <1>1, <1>4 DEF Ran, Answer
  <2>3. /\ R(scall[k])' = R(scall[k]) /\ P(scall[k])' = P(scall[k])
        /\ U("error", scall[k])' = U("error", scall[k])
    BY <1>1 DEF P, R, U
  <2>4. 1..cur \subseteq 1..(cur + 1)
    BY <1>2
  <2>5. QED
    BY <1>1, <1>2, <1>3, <2>1, <2>2, <2>3, <2>4 DEF Thread
<1>10. Sees'
  BY <1>1 DEF Sees
<1>11. Turn'
  <2>1. up[conn] => Quiet(conn) \/ Over(conn)
    BY <1>1 DEF IInv, InStep, Turn
  <2>2. up[conn] => Quiet(conn)' \/ Over(conn)'
    BY <1>1, <2>1 DEF Quiet, Over, Waiting
  <2>3. QED
    BY <1>1, <1>3, <2>2 DEF Turn
<1>12. QED
  BY <1>6, <1>7, <1>8, <1>9, <1>10, <1>11 DEF InStep

LEMMA ClientSendKeeps ==
  ASSUME IInv, ClientSend
  PROVE  InStep'
<1>1. /\ cpc = "send" /\ up[conn]
      /\ UNCHANGED <<issued, conn, up, s2c, spc, scall, sout, done, outcome, answered>>
      /\ c2s' = [c2s EXCEPT ![conn] = Append(@, Head(cout))]
      /\ cout' = Tail(cout)
      /\ cpc' = IF Tail(cout) = <<>> THEN "status" ELSE "send"
  BY DEF ClientSend, serverVars, historyVars
<1>2. /\ cur' = cur /\ cur \in Calls /\ cur \in 1..cur /\ outcome[cur] = "none"
      /\ \A i : N(i)' = N(i) /\ P(i)' = P(i) /\ R(i)' = R(i)
      /\ conn \in Conns
  BY <1>1, InCall DEF IInv, InStep, TypeOK, cur, N, P, R, Calls
<1>3. /\ c2s'[conn] = Append(c2s[conn], Head(cout))
      /\ \A m \in Conns \ {conn} : c2s'[m] = c2s[m]
  BY <1>1 DEF IInv, TypeOK
<1>4. \A i \in Calls : Answer(i)' = Answer(i) /\ (Ran(i)' <=> Ran(i))
  BY <1>1, AnswerKept
<1>5. Told'
  BY <1>1, <1>2 DEF IInv, InStep, Told
<1>6. \A m \in Conns \ {conn}, i \in Calls : Holds(m, i)' => Holds(m, i)
  BY <1>1, <1>2, <1>3 DEF Holds, Waiting
<1>7. Thread(conn)
  BY <1>2 DEF IInv, InStep
<1>8. ASSUME Thread(conn)'
      PROVE  \A m \in Conns : Thread(m)'
  BY <1>1, <1>2, <1>3, <1>8, OtherThreads
<1>9. CASE cout = <<N(cur), P(cur)>>
  <2>1. /\ Head(cout) = N(cur) /\ cout' = <<P(cur)>> /\ cpc' = "send"
        /\ <<P(cur)>> # <<N(cur), P(cur)>>
    BY <1>1, <1>9, StreamFacts
  <2>2. done[cur] = "no" /\ \A k \in Conns : ~Holds(k, cur)
    BY <1>1, <1>9 DEF IInv, InStep, Sending
  <2>3. Quiet(conn) \/ Over(conn)
    BY <1>1, <1>9, <2>1 DEF IInv, InStep, Turn
  <2>4. \/ Waiting(conn)' /\ c2s'[conn] = <<N(cur)>> /\ s2c'[conn] = <<>>
        \/ spc'[conn] = "ended" /\ s2c'[conn] = <<>>
    <3>1. CASE Quiet(conn)
      <4>1. Append(c2s[conn], N(cur)) = <<N(cur)>>
        BY <3>1, StreamFacts DEF Quiet
      <4>2. QED
        BY <1>1, <1>3, <2>1, <3>1, <4>1 DEF Quiet, Waiting
    <3>2. CASE Over(conn)
      BY <1>1, <1>3, <3>2 DEF Over
    <3>3. QED
      BY <2>3, <3>1, <3>2
  <2>5. Thread(conn)'
    BY <1>1, <1>2, <1>7, <2>4 DEF Thread, Waiting
  <2>6. Sending'
    BY <1>2, <2>1 DEF Sending
  <2>7. \A i \in Calls : Holds(conn, i)' => i = cur
    <3>1. SUFFICES ASSUME NEW i \in Calls, Holds(conn, i)'
                   PROVE  i = cur
      OBVIOUS
    <3>2. c2s'[conn] = <<N(cur)>> /\ c2s'[conn] \in {<<N(i)>>, <<N(i), P(i)>>}
      BY <1>1, <1>2, <2>4, <3>1 DEF Holds, Waiting
    <3>3. Head(c2s'[conn]) = N(cur) /\ Head(c2s'[conn]) = N(i)
      BY <3>2, StreamFacts
    <3>4. QED
      BY <1>2, <3>3, UnitFacts
  <2>8. Held'
    <3>1. SUFFICES ASSUME NEW m \in Conns, NEW i \in Calls, Holds(m, i)'
                   PROVE  /\ i <= cur' /\ done'[i] = "no"
                          /\ outcome'[i] \in {"none", "failed"}
                          /\ \A l \in Conns : Holds(l, i)' => l = m
                          /\ i = cur' /\ cpc' # "idle" => m = conn'
      BY DEF Held
    <3>2. CASE m = conn
      BY <1>1, <1>2, <1>6, <2>2, <2>7, <3>1, <3>2
    <3>3. CASE m # conn
      <4>1. Holds(m, i) /\ i # cur
        BY <1>6, <2>2, <3>1, <3>3
      <4>2. QED
        BY <1>1, <1>2, <1>6, <2>7, <4>1 DEF IInv, InStep, Held
    <3>4. QED
      BY <3>2, <3>3
  <2>9. Sees'
    BY <2>1 DEF Sees
  <2>10. Turn'
    <3>1. Named(conn, cur)' \/ Over(conn)'
      BY <1>1, <1>2, <2>4 DEF Named, Over
    <3>2. QED
      BY <1>1, <1>2, <2>1, <3>1 DEF Turn
  <2>11. QED
    BY <1>5, <1>8, <2>5, <2>6, <2>8, <2>9, <2>10 DEF InStep
<1>10. CASE cout = <<P(cur)>>
  <2>1. Head(cout) = P(cur) /\ cout' = <<>> /\ cpc' = "status"
    BY <1>1, <1>10, StreamFacts
  <2>2. Named(conn, cur) \/ Refused(conn, cur) \/ Over(conn)
    BY <1>1, <1>10, StreamFacts DEF IInv, InStep, Turn
  <2>3. \/ /\ s2c[conn] = <<>>
           /\ \/ /\ Waiting(conn) /\ c2s[conn] = <<N(cur)>>
                 /\ c2s'[conn] = <<N(cur), P(cur)>>
              \/ /\ spc[conn] = "recv_params" /\ scall[conn] = cur
                 /\ c2s'[conn] = <<P(cur)>>
        \/ spc[conn] \in {"send_last", "ended"} /\ (Refused(conn, cur) \/ Over(conn))
    <3>1. CASE Named(conn, cur)
      <4>1. CASE Waiting(conn) /\ c2s[conn] = <<N(cur)>>
        <5>1. c2s'[conn] = Append(<<N(cur)>>, P(cur)) /\ s2c[conn] = <<>>
          BY <1>3, <2>1, <3>1, <4>1 DEF Named
        <5>2. QED
          BY <4>1, <5>1, StreamFacts
      <4>2. CASE spc[conn] = "recv_params" /\ scall[conn] = cur /\ c2s[conn] = <<>>
        BY <1>3, <2>1, <3>1, <4>2, StreamFacts DEF Named
      <4>3. QED
        BY <3>1, <4>1, <4>2 DEF Named
    <3>2. CASE Refused(conn, cur) \/ Over(conn)
      BY <3>2 DEF Refused, Over
    <3>3. QED
      BY <2>2, <3>1, <3>2
  <2>4. Waiting(conn)' <=> Waiting(conn)
    BY <1>1 DEF Waiting
  <2>5. Thread(conn)'
    <3>1. /\ R(scall[conn])' = R(scall[conn]) /\ P(scall[conn])' = P(scall[conn])
          /\ U("error", scall[conn])' = U("error", scall[conn])
          /\ Ran(scall[conn]) => Ran(scall[conn])'
          /\ Answer(scall[conn])' = Answer(scall[conn])
      BY <1>1 DEF R, P, U, Ran, Answer
    <3>2. Waiting(conn) => \E i \in 1..cur : c2s'[conn] \in {<<N(i)>>, <<N(i), P(i)>>}
      BY <1>2, <2>3 DEF Waiting
    <3>3. /\ spc[conn] = "recv_params" => c2s'[conn] = <<P(scall[conn])>>
          /\ spc[conn] \notin {"exec", "send", "none"}
      BY <2>3 DEF Waiting
    <3>4. QED
      BY <1>1, <1>2, <1>7, <2>4, <3>1, <3>2, <3>3 DEF Thread
  <2>6. Sending'
    BY <2>1 DEF Sending
  <2>7. \A i \in Calls : Holds(conn, i)' => Holds(conn, i)
    <3>1. SUFFICES ASSUME NEW i \in Calls, Holds(conn, i)'
                   PROVE  Holds(conn, i)
      OBVIOUS
    <3>2. CASE Waiting(conn)
      <4>1. c2s'[conn] \in {<<N(i)>>, <<N(i), P(i)>>} /\ c2s'[conn] = <<N(cur), P(cur)>>
            /\ c2s[conn] = <<N(cur)>>
        BY <1>1, <1>2, <2>3, <2>4, <3>1, <3>2 DEF Holds, Waiting
      <4>2. Head(c2s'[conn]) = N(i) /\ Head(c2s'[conn]) = N(cur)
        BY <4>1, StreamFacts
      <4>3. i = cur
        BY <1>2, <4>2, UnitFacts
      <4>4. QED
        BY <3>2, <4>1, <4>3 DEF Holds
    <3>3. CASE ~Waiting(conn)
      BY <1>1, <2>4, <3>1, <3>3 DEF Holds
    <3>4. QED
      BY <3>2, <3>3
  <2>8. Held'
    BY <1>1, <1>2, <1>6, <2>7 DEF IInv, InStep, Held
  <2>9. Sees'
    <3>1. s2c[conn] # <<>> => Ran(cur) /\ s2c[conn] = Answer(cur)
      BY <2>3 DEF Refused, Over
    <3>2. QED
      BY <1>1, <1>2, <1>4, <2>1, <3>1 DEF Sees
  <2>10. Turn'
    <3>1. Asked(conn, cur)' \/ Refused(conn, cur)' \/ Over(conn)'
      BY <1>1, <1>2, <1>4, <2>3, <2>4 DEF Asked, Refused, Over
    <3>2. QED
      BY <1>1, <1>2, <2>1, <3>1 DEF Turn
  <2>11. QED
    BY <1>5, <1>6, <1>8, <2>5, <2>6, <2>8, <2>9, <2>10 DEF InStep
<1>11. QED
  BY <1>1, <1>9, <1>10 DEF IInv, InStep, Sending

LEMMA ReconnectKeeps ==
  ASSUME IInv, Reconnect
  PROVE  InStep'
<1>1. PICK a \in Conns : a = conn
  BY DEF IInv, TypeOK
<1>2. PICK b \in Conns : b = a + 1
  BY <1>1, RpcAssumption DEF Reconnect, Conns
<1>3. /\ conn = a /\ conn' = b /\ cpc' = "idle" /\ cout' = <<>>
      /\ UNCHANGED <<issued, scall, sout, done, answered>>
      /\ up' = [up EXCEPT ![a] = FALSE, ![b] = TRUE]
      /\ s2c' = [s2c EXCEPT ![a] = <<>>]
      /\ spc' = [spc EXCEPT ![b] = "top"]
      /\ outcome' = [i \in Calls |->
            IF i = cur /\ cpc # "idle" THEN "failed" ELSE outcome[i]]
  BY <1>1, <1>2 DEF Reconnect
<1>4. a \in Nat /\ b \in Nat /\ a # b /\ a < b /\ \A k \in Conns : k > a <=> k = b \/ k > b
  BY <1>1, <1>2 DEF Conns
<1>5. /\ cur \in Nat /\ cur' = cur /\ (cpc # "idle" => cur \in Calls)
      /\ \A i : N(i)' = N(i) /\ P(i)' = P(i) /\ R(i)' = R(i)
  <2>1. cur' = cur /\ \A i : N(i)' = N(i) /\ P(i)' = P(i) /\ R(i)' = R(i)
    BY <1>3 DEF cur, N, P, R
  <2>2. QED
    BY <2>1, CallFacts, InCall DEF IInv, InStep
<1>6. c2s'[a] \in Prefixes(c2s[a]) /\ \A m \in Conns \ {a} : c2s'[m] = c2s[m]
  BY <1>1 DEF Reconnect, IInv, TypeOK
<1>7. /\ spc[a] # "none" /\ spc'[a] = spc[a] /\ ~up'[a]
      /\ spc[b] = "none" /\ spc'[b] = "top"
      /\ c2s'[b] = <<>> /\ s2c'[b] = <<>> /\ sout[b] = <<>>
  <2>1. Thread(a) /\ Thread(b)
    BY DEF IInv, InStep
  <2>2. spc[a] # "none" /\ spc[b] = "none"
    BY <1>3, <1>4, <2>1 DEF Thread
  <2>3. c2s[b] = <<>> /\ s2c[b] = <<>> /\ sout[b] = <<>>
    BY <2>1, <2>2 DEF Thread
  <2>4. ~up'[a] /\ spc'[a] = spc[a] /\ spc'[b] = "top"
    BY <1>3, <1>4 DEF IInv, TypeOK
  <2>5. c2s'[b] = <<>> /\ s2c'[b] = <<>>
    BY <1>3, <1>4, <1>6, <2>3 DEF IInv, TypeOK
  <2>6. QED
    BY <2>2, <2>3, <2>4, <2>5
<1>8. Thread(a)' /\ \A i \in Calls : Holds(a, i)' => Holds(a, i)
  <2>1. /\ conn' \in Nat /\ a <= conn' /\ UNCHANGED <<issued, done>>
        /\ scall'[a] = scall[a] /\ sout'[a] = sout[a]
    BY <1>3, <1>4
  <2>2. QED
    BY <1>6, <1>7, <2>1, CutThread
<1>9. Thread(b)' /\ \A i \in Calls : ~Holds(b, i)'
  <2>1. \A i : <<N(i)>> # <<>> /\ <<N(i), P(i)>> # <<>>
    BY StreamFacts
  <2>2. Thread(b)'
    BY <1>3, <1>4, <1>7 DEF Thread, Waiting
  <2>3. QED
    BY <1>5, <1>7, <2>1, <2>2 DEF Holds, Waiting
<1>10. ASSUME NEW k \in Conns \ {a, b}
       PROVE  Thread(k)' /\ \A i \in Calls : Holds(k, i)' => Holds(k, i)
  <2>1. /\ Thread(k) /\ spc'[k] = spc[k] /\ c2s'[k] = c2s[k] /\ s2c'[k] = s2c[k]
        /\ up'[k] = up[k]
    BY <1>3, <1>6, <1>10 DEF IInv, InStep, TypeOK
  <2>2. ~up[k] /\ (k > conn' <=> k > conn)
    BY <1>3, <1>4, <1>10, <2>1 DEF Thread
  <2>3. /\ Answer(scall[k])' = Answer(scall[k]) /\ R(scall[k])' = R(scall[k])
        /\ P(scall[k])' = P(scall[k]) /\ U("error", scall[k])' = U("error", scall[k])
        /\ Ran(scall[k])' <=> Ran(scall[k])
    BY <1>3 DEF Ran, Answer, P, R, U
  <2>4. Waiting(k)' <=> Waiting(k)
    BY <2>1 DEF Waiting
  <2>5. Thread(k)'
    BY <1>3, <1>5, <2>1, <2>2, <2>3, <2>4 DEF Thread
  <2>6. QED
    BY <1>3, <1>5, <2>1, <2>4, <2>5 DEF Holds
<1>11. \A m \in Conns, i \in Calls : Holds(m, i)' => Holds(m, i)
  BY <1>8, <1>9, <1>10
<1>12. \A i \in Calls : outcome'[i] = IF i = cur /\ cpc # "idle" THEN "failed" ELSE outcome[i]
  BY <1>3
<1>13. Told'
  <2>1. ASSUME NEW i \in Calls
        PROVE  /\ i > cur => done[i] = "no" /\ outcome'[i] = "none"
               /\ i < cur => outcome'[i] # "none"
               /\ outcome'[i] \in {"ok", "error"} => done[i] = outcome'[i]
               /\ answered[i] \subseteq {i}
    BY <1>5, <1>12 DEF IInv, InStep, Told, Calls
  <2>2. cur = 0 \/ outcome'[cur] # "none"
    BY <1>5, <1>12, CallFacts DEF IInv, InStep, Told
  <2>3. QED
    BY <1>3, <1>5, <2>1, <2>2 DEF Told
<1>14. Sending' /\ Sees'
  BY <1>3 DEF Sending, Sees
<1>15. Held'
  BY <1>3, <1>5, <1>11, <1>12 DEF IInv, InStep, Held
<1>16. Turn'
  <2>1. Quiet(conn)'
    BY <1>3, <1>7 DEF Quiet, Waiting
  <2>2. QED
    BY <1>3, <2>1 DEF Turn
<1>17. QED
  BY <1>8, <1>9, <1>10, <1>13, <1>14, <1>15, <1>16 DEF InStep

-----------------------------------------------------------------------------
\* The theorems.

LEMMA InStepKept == IInv /\ [Next]_vars => InStep'
<1> SUFFICES ASSUME IInv, [Next]_vars
             PROVE  InStep'
  OBVIOUS
<1>1. CASE UNCHANGED vars
  <2>1. UNCHANGED <<issued, cpc, cout, conn, up, c2s, s2c, spc, scall, sout, done, outcome,
                    answered>>
    BY <1>1 DEF vars
  <2>2. \A m \in Conns, i \in Calls : Holds(m, i)' => Holds(m, i)
    BY <2>1 DEF Holds, Waiting, N, P
  <2>3. Told' /\ Sending' /\ Held'
    BY <2>1, <2>2, NothingRuns DEF clientVars
  <2>4. \A m \in Conns : Thread(m)'
    BY <2>1 DEF IInv, InStep, Thread, Waiting, cur, Answer, Ran, N, P, R, U
  <2>5. Sees' /\ Turn'
    BY <2>1, ClientSeesSame
  <2>6. QED
    BY <2>3, <2>4, <2>5 DEF InStep
<1>2. CASE \E f \in Proxies : SyncCall(f)
  BY <1>2, SyncCallKeeps
<1>3. CASE ClientStep
  BY <1>3, ClientSendKeeps, ClientRecvStatusKeeps, ClientRecvReplyKeeps, ClientFailsKeeps
  DEF ClientStep
<1>4. CASE Reconnect
  BY <1>4, ReconnectKeeps
<1>5. CASE \E k \in Conns : ServerStep(k) \/ ServiceStop(k) \/ LinkBreaks(k)
  BY <1>5, ServiceLoopKeeps, ServerRecvNameKeeps, ServerRecvParamsKeeps,
     ServerRecvFailsKeeps, ExecuteKeeps, ServerSendKeeps, ServerSendFailsKeeps, LoseKeeps,
     ServiceStopKeeps
  DEF ServerStep
<1>6. QED
  BY <1>1, <1>2, <1>3, <1>4, <1>5 DEF Next

LEMMA InitIInv == Init => IInv
<1> SUFFICES ASSUME Init
             PROVE  IInv
  OBVIOUS
<1>1. cur = 0 /\ 1 \in Conns /\ conn = 1
  BY RpcAssumption DEF Init, cur, Conns
<1>2. TypeOK
  BY <1>1, RpcAssumption DEF Init, TypeOK, cur
<1>3. Stopping
  BY DEF Init, Stopping
<1>4. \A k \in Conns, i \in Calls : ~Holds(k, i)
  <2>1. \A i : <<N(i)>> # <<>> /\ <<N(i), P(i)>> # <<>>
    BY StreamFacts
  <2>2. QED
    BY <2>1 DEF Init, Holds, Waiting
<1>5. Told /\ Sending /\ Held /\ Sees
  <2>1. Told
    BY <1>1 DEF Init, Told, Calls
  <2>2. Sending /\ Sees
    BY DEF Init, Sending, Sees
  <2>3. Held
    BY <1>4 DEF Held
  <2>4. QED
    BY <2>1, <2>2, <2>3
<1>6. Turn
  BY <1>1 DEF Init, Turn, Quiet, Waiting
<1>7. ASSUME NEW k \in Conns
      PROVE  Thread(k)
  <2>1. k \in Nat /\ k >= 1 /\ (k = 1 <=> ~(k > 1))
    BY DEF Conns
  <2>2. /\ spc[k] = IF k = 1 THEN "top" ELSE "none"
        /\ up[k] = (k = 1) /\ c2s[k] = <<>> /\ s2c[k] = <<>> /\ sout[k] = <<>>
    BY DEF Init
  <2>3. QED
    BY <1>1, <2>1, <2>2 DEF Thread, Waiting
<1>8. QED
  BY <1>2, <1>3, <1>5, <1>6, <1>7 DEF IInv, InStep

\* The inductive invariant holds throughout: the two ends of a connection never get out
\* of step, whatever breaks, stops or starts over.
THEOREM Invariance == Spec => []IInv
<1>1. IInv /\ [Next]_vars => IInv'
  BY TypesKept, StoppingKept, InStepKept DEF IInv
<1>2. QED
  BY InitIInv, <1>1, PTL DEF Spec

\* Every variable of the client, of the streams and of the services has its type, for any
\* number of calls and connections: the streams hold units of the known kinds, which
\* name calls that were made.
THEOREM Types == Spec => []TypeOK
<1>1. IInv => TypeOK
  BY DEF IInv
<1>2. QED
  BY Invariance, <1>1, PTL

\* hm_rpc_client_sync_call returns to its caller the status and the reply of its own call,
\* and what running the function came to.
THEOREM AnswersAreForTheirCalls == Spec => []AnswersMatch
<1>1. IInv => AnswersMatch
  BY DEF IInv, InStep, Told, AnswersMatch
<1>2. QED
  BY Invariance, <1>1, PTL

\* After hm_*_service_stop, a service's thread runs one more call at most.
THEOREM StoppedServicesStop == Spec => []StopsSoon
<1>1. IInv => StopsSoon
  BY DEF IInv, Stopping, StopsSoon
<1>2. QED
  BY Invariance, <1>1, PTL

-----------------------------------------------------------------------------
\* The refinement.

\* The calls so far in the terms of RemoteCall.
LEMMA RemoteFacts ==
  ASSUME IInv
  PROVE  /\ cur = Len(issued) /\ cur \in Nat /\ Calls = 1..MaxCalls
         /\ cpc = "idle" /\ cur > 0 => outcome[cur] # "none"
         /\ cpc # "idle" => cur > 0 /\ cur \in Calls /\ outcome[cur] = "none"
         /\ done \in [Calls -> {"no", "ok", "error"}]
         /\ outcome \in [Calls -> {"none", "ok", "error", "failed"}]
  BY CallFacts, InCall DEF IInv, InStep, Told, TypeOK, cur, Calls

\* Running or refusing a call is an Execute.
LEMMA HeldCallExecutes ==
  ASSUME IInv, NEW k \in Conns, NEW i \in Calls, Holds(k, i),
         NEW r \in {"ok", "error"}, done' = [done EXCEPT ![i] = r],
         UNCHANGED <<issued, outcome>>
  PROVE  Remote!Execute(i, r)
<1>1. i <= cur /\ done[i] = "no" /\ outcome[i] \in {"none", "failed"}
  BY DEF IInv, InStep, Held
<1>2. QED
  BY <1>1 DEF Remote!Execute, cur

LEMMA RemoteStep == IInv /\ [Next]_vars => [Remote!Next]_(Remote!remoteVars)
<1> SUFFICES ASSUME IInv, [Next]_vars
             PROVE  Remote!Next \/ UNCHANGED <<Len(issued), done, outcome>>
  BY DEF Remote!remoteVars
<1>1. CASE UNCHANGED vars
  BY <1>1 DEF vars
<1>2. ASSUME NEW f \in Proxies, SyncCall(f)
      PROVE  Remote!Next
  <2>1. Len(issued') = Len(issued) + 1
    BY <1>2, AppendProperties DEF SyncCall, IInv, TypeOK
  <2>2. Remote!Issue
    BY <1>2, <2>1, RemoteFacts DEF SyncCall, Remote!Issue, cur, historyVars
  <2>3. QED
    BY <2>2 DEF Remote!Next
<1>3. CASE ClientSend
  BY <1>3 DEF ClientSend, historyVars
<1>4. CASE ClientRecvStatus
  <2>1. cpc = "status" /\ s2c[conn] # <<>> /\ UNCHANGED <<issued, done>>
    BY <1>4 DEF ClientRecvStatus, ClientTakes
  <2>2. Ran(cur) /\ Head(s2c[conn]).kind = done[cur]
    BY <2>1, SeenFacts DEF IInv, InStep
  <2>3. UNCHANGED outcome \/ CallReturns(done[cur])
    BY <1>4, <2>2 DEF ClientRecvStatus, Ran
  <2>4. CASE CallReturns(done[cur])
    <3>1. Remote!Answer
      BY <2>1, <2>2, <2>4, RemoteFacts DEF CallReturns, Remote!Answer, cur, Ran
    <3>2. QED
      BY <3>1 DEF Remote!Next
  <2>5. QED
    BY <2>1, <2>3, <2>4
<1>5. CASE ClientRecvReply
  <2>1. cpc = "reply" /\ s2c[conn] # <<>> /\ UNCHANGED <<issued, done>> /\ CallReturns("ok")
    BY <1>5 DEF ClientRecvReply, ClientTakes
  <2>2. done[cur] = "ok"
    BY <2>1, SeenFacts DEF IInv, InStep
  <2>3. Remote!Answer
    BY <2>1, <2>2, RemoteFacts DEF CallReturns, Remote!Answer, cur
  <2>4. QED
    BY <2>3 DEF Remote!Next
<1>6. CASE ClientFails
  <2>1. cpc # "idle" /\ UNCHANGED <<issued, done>> /\ CallReturns("failed")
    BY <1>6 DEF ClientFails
  <2>2. Remote!Fail
    BY <2>1, RemoteFacts DEF CallReturns, Remote!Fail, cur
  <2>3. QED
    BY <2>2 DEF Remote!Next
<1>7. CASE Reconnect
  <2>1. /\ UNCHANGED <<issued, done>>
        /\ outcome' = [i \in Calls |->
              IF i = cur /\ cpc # "idle" THEN "failed" ELSE outcome[i]]
    BY <1>7 DEF Reconnect
  <2>2. CASE cpc = "idle"
    <3>1. outcome' = outcome
      BY <2>1, <2>2, RemoteFacts
    <3>2. QED
      BY <2>1, <3>1
  <2>3. CASE cpc # "idle"
    <3>1. outcome' = [outcome EXCEPT ![cur] = "failed"]
      BY <2>1, <2>3, RemoteFacts
    <3>2. Remote!Fail
      BY <2>1, <2>3, <3>1, RemoteFacts DEF Remote!Fail, cur
    <3>3. QED
      BY <3>2 DEF Remote!Next
  <2>4. QED
    BY <2>2, <2>3
<1>8. ASSUME NEW k \in Conns, ServerRecvName(k)
      PROVE  Remote!Next \/ UNCHANGED <<Len(issued), done, outcome>>
  <2>1. PICK i \in Calls : i = Head(c2s[k]).call /\ Holds(k, i)
    BY <1>8, NameFacts DEF ServerRecvName
  <2>2. /\ UNCHANGED <<issued, outcome>>
        /\ UNCHANGED done \/ done' = [done EXCEPT ![i] = "error"]
    BY <1>8, <2>1 DEF ServerRecvName, clientVars
  <2>3. CASE done' = [done EXCEPT ![i] = "error"]
    <3>1. Remote!Execute(i, "error")
      BY <2>1, <2>2, <2>3, HeldCallExecutes
    <3>2. QED
      BY <3>1 DEF Remote!Next, Calls
  <2>4. QED
    BY <2>2, <2>3
<1>9. ASSUME NEW k \in Conns, NEW r \in {"ok", "error"}, Execute(k, r)
      PROVE  Remote!Next
  <2>1. scall[k] \in Calls
    BY <1>9, CallFacts DEF Execute, IInv, InStep, Thread
  <2>2. PICK i \in Calls : i = scall[k]
    BY <2>1
  <2>3. /\ Holds(k, i) /\ UNCHANGED <<issued, outcome>>
        /\ done' = [done EXCEPT ![i] = r]
    BY <1>9, <2>2 DEF Execute, Holds, clientVars
  <2>4. Remote!Execute(i, r)
    BY <2>3, HeldCallExecutes
  <2>5. QED
    BY <2>4 DEF Remote!Next, Calls
<1>10. ASSUME NEW k \in Conns,
              \/ ServiceLoop(k) \/ ServerRecvParams(k) \/ ServerRecvFails(k)
              \/ ServerSend(k) \/ ServerSendFails(k) \/ ServiceEnds(k)
              \/ ServiceStop(k) \/ LinkBreaks(k)
       PROVE  UNCHANGED <<Len(issued), done, outcome>>
  BY <1>10 DEF ServiceLoop, ServerRecvParams, ServerRecvFails, ServerSend, ServerSendFails,
               ServiceEnds, ServiceStop, LinkBreaks, clientVars, historyVars
<1>11. QED
  BY <1>1, <1>2, <1>3, <1>4, <1>5, <1>6, <1>7, <1>8, <1>9, <1>10
  DEF Next, ClientStep, ServerStep

\* The calls are remote calls as RemoteCall has them: run at most once, answered after
\* they have run and with what that came to, and run after their end only if
\* their caller was told that they failed.
THEOREM ImplementsRemoteCall == Spec => RemoteCallSpec
<1>1. Init => Remote!Init
  BY DEF Init, Remote!Init, Calls
<1>2. QED
  BY <1>1, Invariance, RemoteStep, PTL DEF Spec, RemoteCallSpec, Remote!Spec
=============================================================================
