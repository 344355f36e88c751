--------------------------- MODULE MarshalProofs ---------------------------
(***************************************************************************)
(* Proofs about Marshal for any order of memcmp, any hash functions, any   *)
(* length of the values and any number of calls.                           *)
(***************************************************************************)
EXTENDS Marshal, SequenceTheorems, WellFoundedInduction, TLAPS

-----------------------------------------------------------------------------
\* The inductive invariant: which fields of the last call are still under way, and what
\* the two ends expect next.

ParamNames ==
    {"block_id", "user_id", "owner_id", "read_token", "write_token", "index", "rights_mask",
     "id", "block", "meta", "mac", "old_mac", "key", "extra"}
Vals == ({"arg", "res"} \X Nat \X ParamNames) \cup {Empty}
Param == [type : {"int32", "buffer"}, val : Vals]
Full(pack) == \A j \in 1..Len(pack) : pack[j].val # Empty

\* Fields, and those that a send does not refuse.
Said == Nat \cup {"ok", "error", "int32", "buffer"} \cup Names \cup Vals
Field == [kind : {"number", "type", "data"}, val : Said, len : Nat]
Solid == {e \in Field : e.len # 0}

\* What is sent for a call, and what is left when the first field is read.
Named(f, params) == <<Name(f)>> \o PackFields(params)
Request(f, params) == <<Number(DataLength)>> \o Named(f, params)

\* The results of call n, what is sent of them, and what is left without the status.
ResultsOf(f, n, empty) ==
    LET names == StubReplies[f] IN
    [k \in DOMAIN names |->
        [type |-> TypeOf(names[k]),
         val |-> IF names[k] = empty THEN Empty ELSE <<"res", n, names[k]>>]]
Replied(pack) == <<Number(Lengths(Body(pack)))>> \o Sent(Body(pack))
Reply(pack) == <<Number("ok")>> \o Replied(pack)

\* A pack of a client for call n of f: what its proxy packs carries the number of
\* the call and its name.
ParamsOK(f, params, n) ==
    LET names == ProxyPacks[f] IN
    /\ params \in Seq(Param) /\ Full(params)
    /\ Len(params) >= Len(names) =>
         \A k \in DOMAIN names : params[k].val = <<"arg", n, names[k]>>

CallOK == call # NoCall => call.f \in Names /\ ParamsOK(call.f, call.params, calls)

\* What the store did is the last call: it refused, or has results.
RanOK ==
    \/ ran = NotRun
    \/ ran.as = "error"
    \/ /\ ran.as = "ok"
       /\ \/ ran.empty = None
          \/ call.f \in DOMAIN StubReplies /\ ran.empty \in ToSet(StubReplies[call.f])

AtTop == server = Doing("length", 4, NoEntry)
Ended == server.at = "ended" /\ closed

\* A call under way: its request is not read whole.
Asking ==
    /\ call # NoCall
    /\ client = At("status", 4) /\ toClient = <<>> /\ ~closed /\ ran = NotRun
    /\ call.params # <<>> /\ Packs(call.params)
Arriving ==
    LET f == call.f
        body == Body(call.params) IN
    \/ AtTop /\ toServer = Request(f, call.params)
    \/ server = Doing("name", DataLength, NoEntry) /\ toServer = Named(f, call.params)
    \/ /\ f \in ToSet(Registered[store])
       /\ \/ server = Doing("pack length", 4, f) /\ toServer = PackFields(call.params)
          \/ server = Doing("pack", Lengths(body), f) /\ toServer = body
Asked == Asking /\ Arriving

\* The store has no such function.
Rejected ==
    /\ call # NoCall /\ client = At("status", 4) /\ Ended /\ ran = NotRun
    /\ call.f \notin ToSet(Registered[store])
    /\ toClient \in {<<>>, <<Number("error")>>}

\* The request is read, and the answer is not: it is a refusal, or that of a function
\* without results, or it has results, of which the client has read none, the
\* status, or the status and the length.
Refused ==
    /\ client = At("status", 4) /\ toClient = <<Number("error")>>
    /\ ran.as = "error" \/ (ran = NotRun /\ ~FitsSignature)
Done ==
    /\ client = At("status", 4) /\ toClient = <<Number("ok")>>
    /\ ran.as = "ok" /\ call.f \notin DOMAIN StubReplies
Replies ==
    LET pack == ResultsOf(call.f, calls, ran.empty) IN
    /\ ran.as = "ok" /\ call.f \in DOMAIN StubReplies
    /\ \/ client = At("status", 4) /\ toClient = Reply(pack)
       \/ client = At("length", 4) /\ toClient = Replied(pack)
       \/ client = At("pack", Lengths(Body(pack))) /\ toClient = Sent(Body(pack))

Answered ==
    /\ call # NoCall /\ toServer = <<>>
    /\ (AtTop /\ ~closed) \/ Ended
    /\ Refused \/ Done \/ Replies

Waits ==
    /\ client = At("idle", 0)
    /\ \/ AtTop /\ toServer = <<>> /\ (closed \/ toClient = <<>>)
       \/ Ended

\* After half a request the server is out of step: it takes the next request for
\* the pack of this one.  It has read m of the fields of names and their lengths.
HalfRead(at, sent, m) ==
    /\ \/ m = 0 /\ at.at = "length" /\ at.need = 4
       \/ m = 1 /\ at.at = "name" /\ at.need = DataLength
       \/ m = 2 /\ at.at = "pack length" /\ at.need = 4
       \/ m = 3 /\ at.at = "pack" /\ at.need = DataLength
    /\ Len(sent) + m = 2 \/ Len(sent) + m >= 4
    /\ \A i \in DOMAIN sent :
        /\ i + m \in {1, 3} => sent[i] = Number(DataLength)
        /\ i + m \in {2, 4} => sent[i].kind = "data" /\ sent[i].len = DataLength

OutOfStep ==
    /\ ran = NotRun /\ returned.as # "ok"
    /\ client \in {At("idle", 0), At("status", 4)}
    /\ toClient \in {<<>>, <<Number("error")>>}
    /\ Ended \/ (toClient = <<>> /\ \E m \in 0..3 : HalfRead(server, toServer, m))

InStep == IF skewed THEN OutOfStep ELSE Asked \/ Rejected \/ Answered \/ Waits

Types ==
    /\ store \in DOMAIN Registered /\ hash \in Hashes /\ table = FuncTable(store, hash)
    /\ toServer \in Seq(Solid) /\ calls \in Nat /\ closed \in BOOLEAN /\ skewed \in BOOLEAN
    /\ client # At("idle", 0) => returned = NotReturned

IInv == Types /\ CallOK /\ RanOK /\ InStep /\ ArgumentsArrive /\ ResultsReturn /\ RefusalsExplained

-----------------------------------------------------------------------------
\* Induction over numbers, with a set in place of a predicate.

\* A set of numbers that a step leads to from each number below N, beginning with 0.
LEMMA UpTo ==
  ASSUME NEW N \in Nat, NEW T, 0 \in T, \A n \in 0..(N - 1) : n \in T => n + 1 \in T
  PROVE  0..N \subseteq T
<1> DEFINE Missing == {n \in Nat : n \in 0..N /\ n \notin T}
<1>1. SUFFICES ASSUME Missing # {} PROVE FALSE
  OBVIOUS
<1>2. PICK m \in Missing : \A n \in Missing : ~(<<n, m>> \in OpToRel(<, Nat))
  <2>1. Missing \subseteq Nat
    OBVIOUS
  <2>2. IsWellFoundedOn(OpToRel(<, Nat), Nat)
    BY NatLessThanWellFounded
  <2> HIDE DEF Missing
  <2>3. QED  BY <1>1, <2>1, <2>2, WFMin
<1>3. \A n \in Missing : ~(n < m)
  BY <1>2 DEF OpToRel
<1>4. m # 0 /\ m - 1 \in 0..(N - 1) /\ m \in Nat
  OBVIOUS
<1>5. m - 1 \notin Missing
  BY <1>3, <1>4
<1>6. QED  BY <1>4, <1>5

\* A function defined by recursion over 0..N exists.
Steps(S, N) == [S \X (1..N) -> S]
Recurs(h, S, base, step, N) ==
    /\ h \in [0..N -> S]
    /\ h[0] = base /\ \A n \in 1..N : h[n] = step[<<h[n - 1], n>>]

LEMMA Recursion ==
  ASSUME NEW N \in Nat, NEW S, NEW base \in S, NEW step \in Steps(S, N)
  PROVE  \E h : Recurs(h, S, base, step, N)
<1> USE DEF Steps
<1> DEFINE Good(h, n) == h[0] = base /\ \A m \in 1..n : h[m] = step[<<h[m - 1], m>>]
           T == {n \in 0..N : \E h \in [0..n -> S] : Good(h, n)}
<1>1. 0 \in T
  <2>1. [n \in 0..0 |-> base] \in [0..0 -> S] /\ Good([n \in 0..0 |-> base], 0)
    OBVIOUS
  <2>2. \E h \in [0..0 -> S] : Good(h, 0)
    <3> HIDE DEF Good
    <3>1. QED  BY <2>1
  <2>3. 0 \in 0..N
    OBVIOUS
  <2> HIDE DEF Good
  <2>4. QED  BY <2>2, <2>3
<1>2. ASSUME NEW n \in 0..(N - 1), n \in T PROVE n + 1 \in T
  <2>1. PICK h \in [0..n -> S] : Good(h, n)
    BY <1>2
  <2> DEFINE g == [m \in 0..(n + 1) |-> IF m <= n THEN h[m] ELSE step[<<h[n], n + 1>>]]
  <2>2. step[<<h[n], n + 1>>] \in S
    BY <2>1
  <2>3. g \in [0..(n + 1) -> S]
    BY <2>1, <2>2
  <2>4. Good(g, n + 1)
    <3>1. g[0] = base
      BY <2>1
    <3>2. ASSUME NEW m \in 1..n PROVE g[m] = step[<<g[m - 1], m>>]
      <4>1. g[m] = h[m] /\ g[m - 1] = h[m - 1]
        OBVIOUS
      <4>2. h[m] = step[<<h[m - 1], m>>]
        BY <2>1
      <4> HIDE DEF g
      <4>3. QED  BY <4>1, <4>2
    <3>3. g[n + 1] = step[<<g[n], n + 1>>]
      OBVIOUS
    <3> HIDE DEF g
    <3>4. \A m \in 1..(n + 1) : m \in 1..n \/ m = n + 1
      OBVIOUS
    <3>5. \A m \in 1..(n + 1) : g[m] = step[<<g[m - 1], m>>]
      BY <3>2, <3>3, <3>4
    <3>6. QED  BY <3>1, <3>5
  <2>5. n + 1 \in 0..N
    OBVIOUS
  <2>6. QED  BY <2>3, <2>4, <2>5
<1>3. N \in T
  <2> HIDE DEF T
  <2>1. \A n \in 0..(N - 1) : n \in T => n + 1 \in T
    BY <1>2
  <2>2. 0..N \subseteq T
    BY <1>1, <2>1, UpTo
  <2>3. QED  BY <2>2
<1>4. QED  BY <1>3 DEF Recurs

-----------------------------------------------------------------------------
\* Fields and their bytes.

LEMMA BytesSum ==
  ASSUME NEW s \in Seq(Field)
  PROVE  /\ Bytes(s)[0] = 0
         /\ \A n \in 1..Len(s) : Bytes(s)[n] = Bytes(s)[n - 1] + s[n].len
         /\ \A n \in 0..Len(s) : Bytes(s)[n] \in Nat
<1> DEFINE N == Len(s)
           Sum(h) == h = [n \in 0..N |-> IF n = 0 THEN 0 ELSE h[n - 1] + s[n].len]
           step == [x \in Nat \X (1..N) |-> x[1] + s[x[2]].len]
<1>1. N \in Nat /\ \A n \in 1..N : s[n].len \in Nat
  <2>1. \A n \in 1..N : s[n] \in Field
    OBVIOUS
  <2>2. QED  BY <2>1 DEF Field
<1>2. step \in [Nat \X (1..N) -> Nat]
  BY <1>1
<1>3. PICK h : Recurs(h, Nat, 0, step, N)
  <2>1. N \in Nat /\ 0 \in Nat
    BY <1>1
  <2>2. step \in Steps(Nat, N)
    BY <1>2 DEF Steps
  <2> HIDE DEF step, N
  <2>3. QED  BY <2>1, <2>2, Recursion
<1>10. /\ h \in [0..N -> Nat] /\ h[0] = 0
       /\ \A n \in 1..N : h[n] = step[<<h[n - 1], n>>]
  <2> HIDE DEF step, N
  <2>1. QED  BY <1>3 DEF Recurs
<1>4. \A n \in 1..N : h[n] = h[n - 1] + s[n].len
  <2>1. \A n \in 1..N : n - 1 \in 0..N /\ h[n - 1] \in Nat
    <3> HIDE DEF step, N
    <3>1. QED  BY <1>10, <1>1
  <2>2. \A n \in 1..N : step[<<h[n - 1], n>>] = h[n - 1] + s[n].len
    BY <2>1
  <2> HIDE DEF step, N
  <2>3. QED  BY <1>10, <2>2
<1>5. Sum(h)
  <2> HIDE DEF step, N
  <2>1. h = [n \in 0..N |-> h[n]]
    BY <1>10
  <2>2. \A n \in 0..N : h[n] = IF n = 0 THEN 0 ELSE h[n - 1] + s[n].len
    BY <1>1, <1>10, <1>4
  <2>3. QED  BY <2>1, <2>2
<1>6. Sum(Bytes(s))
  <2>1. Bytes(s) = CHOOSE sum : Sum(sum)
    BY DEF Bytes
  <2> HIDE DEF Sum
  <2>2. QED  BY <1>5, <2>1
<1>7. /\ Bytes(s)[0] = 0
      /\ \A n \in 1..N : Bytes(s)[n] = Bytes(s)[n - 1] + s[n].len
  <2> DEFINE b == Bytes(s)
  <2>1. b = [n \in 0..N |-> IF n = 0 THEN 0 ELSE b[n - 1] + s[n].len]
    BY <1>6
  <2> HIDE DEF b
  <2>2. b[0] = 0 /\ \A n \in 1..N : b[n] = b[n - 1] + s[n].len
    BY <1>1, <2>1
  <2>3. QED  BY <2>2 DEF b
<1>8. 0..N \subseteq {n \in 0..N : Bytes(s)[n] \in Nat}
  <2> DEFINE T == {n \in 0..N : Bytes(s)[n] \in Nat}
  <2>1. 0 \in T
    BY <1>1, <1>7
  <2>2. \A n \in 0..(N - 1) : n \in T => n + 1 \in T
    <3> TAKE n \in 0..(N - 1)
    <3>1. n + 1 \in 1..N /\ (n + 1) - 1 = n
      BY <1>1
    <3>2. Bytes(s)[n + 1] = Bytes(s)[n] + s[n + 1].len /\ s[n + 1].len \in Nat
      BY <3>1, <1>7, <1>1
    <3>3. QED  BY <3>1, <3>2, <1>1
  <2> HIDE DEF T, N
  <2>3. 0..N \subseteq T
    BY <1>1, <2>1, <2>2, UpTo
  <2>4. QED  BY <2>3 DEF T
<1>9. QED  BY <1>7, <1>8

\* Every field counts.
LEMMA BytesGrow ==
  ASSUME NEW s \in Seq(Solid)
  PROVE  \A m, n \in 0..Len(s) : m < n => Bytes(s)[m] < Bytes(s)[n]
<1> DEFINE N == Len(s)
<1>1. s \in Seq(Field) /\ N \in Nat /\ \A n \in 1..N : s[n].len \in Nat \ {0}
  <2>1. \A n \in 1..N : s[n] \in Solid
    OBVIOUS
  <2>2. \A n \in 1..N : s[n].len \in Nat \ {0}
    BY <2>1 DEF Solid, Field
  <2>3. s \in Seq(Field)
    BY SeqMonotonic DEF Solid
  <2>4. QED  BY <2>2, <2>3
<1>2. ASSUME NEW m \in 0..N PROVE \A n \in 0..N : m < n => Bytes(s)[m] < Bytes(s)[n]
  <2> DEFINE T == {n \in 0..N : m < n => Bytes(s)[m] < Bytes(s)[n]}
  <2>0. \A n \in 0..N : Bytes(s)[n] \in Nat
    BY <1>1, BytesSum
  <2>1. 0 \in T
    BY <1>1
  <2>2. \A n \in 0..(N - 1) : n \in T => n + 1 \in T
    <3> TAKE n \in 0..(N - 1)
    <3>1. n + 1 \in 1..N /\ (n + 1) - 1 = n /\ n \in 0..N /\ n + 1 \in 0..N
      BY <1>1
    <3>2. Bytes(s)[n + 1] = Bytes(s)[n] + s[n + 1].len /\ s[n + 1].len \in Nat \ {0}
      BY <3>1, <1>1, BytesSum
    <3>3. Bytes(s)[n] < Bytes(s)[n + 1]
      BY <3>1, <3>2, <2>0
    <3>4. m < n + 1 => m < n \/ m = n
      BY <1>1
    <3>5. HAVE n \in T
    <3>6. QED  BY <3>1, <3>3, <3>4, <3>5, <2>0
  <2> HIDE DEF T, N
  <2>3. 0..N \subseteq T
    BY <1>1, <2>1, <2>2, UpTo
  <2>4. QED  BY <2>3 DEF T
<1>3. QED  BY <1>2

\* The bytes of a prefix.
LEMMA BytesOfPrefix ==
  ASSUME NEW s \in Seq(Field), NEW t \in Seq(Field), Len(t) <= Len(s),
         \A i \in 1..Len(t) : t[i] = s[i]
  PROVE  \A n \in 0..Len(t) : Bytes(t)[n] = Bytes(s)[n]
<1> DEFINE N == Len(t)
           T == {n \in 0..N : Bytes(t)[n] = Bytes(s)[n]}
<1>0. N \in Nat /\ Len(s) \in Nat
  OBVIOUS
<1>1. 0 \in T
  BY <1>0, BytesSum
<1>2. \A n \in 0..(N - 1) : n \in T => n + 1 \in T
  <2> TAKE n \in 0..(N - 1)
  <2>1. n + 1 \in 1..N /\ n + 1 \in 1..Len(s) /\ (n + 1) - 1 = n /\ n + 1 \in 0..N
    BY <1>0
  <2>2. Bytes(t)[n + 1] = Bytes(t)[n] + t[n + 1].len
    BY <2>1, BytesSum
  <2>3. Bytes(s)[n + 1] = Bytes(s)[n] + s[n + 1].len
    BY <2>1, BytesSum
  <2>4. t[n + 1] = s[n + 1]
    BY <2>1
  <2>5. QED  BY <2>1, <2>2, <2>3, <2>4
<1>3. 0..N \subseteq T
  <2> HIDE DEF T, N
  <2>1. QED  BY <1>0, <1>1, <1>2, UpTo
<1>4. QED  BY <1>3

-----------------------------------------------------------------------------
\* Receives.

LEMMA SolidFields == \A s \in Seq(Solid) : s \in Seq(Field)
  BY SeqMonotonic DEF Solid

\* A sequence that begins with e and goes on with r.
LEMMA FirstAndRest ==
  ASSUME NEW S, NEW e \in S, NEW r \in Seq(S), NEW s, s = <<e>> \o r
  PROVE  /\ s \in Seq(S) /\ Len(s) = Len(r) + 1 /\ 1 \in DOMAIN s /\ s # <<>>
         /\ s[1] = e /\ Head(s) = e
         /\ \A i \in 1..Len(r) : s[i + 1] = r[i]
<1>1. Len(r) \in Nat /\ <<e>> \in Seq(S) /\ Len(<<e>>) = 1 /\ <<e>>[1] = e
  OBVIOUS
<1>2. /\ s \in Seq(S) /\ Len(s) = 1 + Len(r)
      /\ \A i \in 1..(1 + Len(r)) : s[i] = IF i <= 1 THEN <<e>>[i] ELSE r[i - 1]
  <2>1. /\ <<e>> \o r \in Seq(S) /\ Len(<<e>> \o r) = Len(<<e>>) + Len(r)
        /\ \A i \in 1..(Len(<<e>>) + Len(r)) : (<<e>> \o r)[i] = IF i <= Len(<<e>>) THEN <<e>>[i] ELSE r[i - Len(<<e>>)]
    BY <1>1, ConcatProperties
  <2>2. QED  BY <2>1, <1>1
<1>3. s[1] = e
  BY <1>1, <1>2
<1>4. ASSUME NEW i \in 1..Len(r) PROVE s[i + 1] = r[i]
  BY <1>1, <1>2
<1>5. 1 \in DOMAIN s /\ s # <<>> /\ Len(s) = Len(r) + 1
  BY <1>1, <1>2
<1>6. Head(s) = e
  BY <1>2, <1>3, <1>5
<1>7. QED  BY <1>2, <1>3, <1>4, <1>5, <1>6

Joined(s, e, r) == s = <<e>> \o r

LEMMA JoinedIs ==
  ASSUME NEW S, NEW e \in S, NEW r \in Seq(S), NEW s, Joined(s, e, r)
  PROVE  /\ s \in Seq(S) /\ Len(s) = Len(r) + 1 /\ 1 \in DOMAIN s /\ s # <<>>
         /\ s[1] = e /\ Head(s) = e /\ Rest(s, 1) = r
<1>1. s = <<e>> \o r
  BY DEF Joined
<1>2. /\ s \in Seq(S) /\ Len(s) = Len(r) + 1 /\ 1 \in DOMAIN s /\ s # <<>>
      /\ s[1] = e /\ Head(s) = e
  BY <1>1, FirstAndRest
<1>3. \A i \in 1..Len(r) : s[i + 1] = r[i]
  BY <1>1, FirstAndRest
<1>4. Rest(s, 1) = r
  <2> DEFINE t == SubSeq(s, 2, Len(s))
  <2>0. Len(s) \in Nat /\ Len(r) \in Nat
    BY <1>2
  <2>1. \A i \in 2..Len(s) : s[i] \in S
    BY <1>2, ElementOfSeq
  <2>2. /\ t \in Seq(S) /\ Len(t) = IF 2 <= Len(s) THEN Len(s) - 2 + 1 ELSE 0
        /\ \A i \in 1..(Len(s) - 2 + 1) : t[i] = s[2 + i - 1]
    BY <2>1, <1>2, <2>0, SubSeqProperties
  <2> HIDE DEF t
  <2>3. Len(t) = Len(r)
    BY <2>2, <2>0, <1>2
  <2>4. \A i \in 1..Len(t) : t[i] = r[i]
    <3> TAKE i \in 1..Len(t)
    <3>1. i \in 1..Len(r) /\ 2 + i - 1 = i + 1 /\ i \in 1..(Len(s) - 2 + 1)
      BY <2>3, <1>2, <2>0
    <3>2. QED  BY <3>1, <2>2, <1>3
  <2>5. t = r
    BY <2>2, <2>3, <2>4, SeqEqual
  <2>6. QED  BY <2>5 DEF Rest, t
<1>5. QED  BY <1>2, <1>4

LEMMA Whole ==
  ASSUME NEW S, NEW s \in Seq(S)
  PROVE  SubSeq(s, 1, Len(s)) = s /\ Rest(s, Len(s)) = <<>>
<1>1. SubSeq(s, 1, Len(s)) = s
  BY SubSeqFull
<1>2. Len(s) \in Nat
  OBVIOUS
<1>3. SubSeq(s, Len(s) + 1, Len(s)) = <<>>
  BY <1>2, SubSeqEmpty
<1>4. QED  BY <1>1, <1>3 DEF Rest

Receives(s, n) == Lengths(s) >= n /\ \E k \in DOMAIN s : Takes(s, n, k)

\* A receive that asks for the length of the first field takes that field.
LEMMA TakesFirst ==
  ASSUME NEW s \in Seq(Solid), 1 \in DOMAIN s
  PROVE  /\ \A k \in DOMAIN s : Takes(s, s[1].len, k) => k = 1
         /\ Receives(s, s[1].len)
<1>1. s \in Seq(Field) /\ Len(s) \in Nat /\ DOMAIN s = 1..Len(s) /\ 1 <= Len(s)
  BY SolidFields
<1>2. s[1].len \in Nat
  <2>1. s[1] \in Field
    BY <1>1
  <2>2. QED  BY <2>1 DEF Field
<1>3. Bytes(s)[1] = s[1].len
  <2>1. Bytes(s)[1] = Bytes(s)[1 - 1] + s[1].len
    BY <1>1, BytesSum
  <2>2. QED  BY <1>1, <1>2, <2>1, BytesSum
<1>4. \A k \in 1..Len(s) : 1 < k => Bytes(s)[1] < Bytes(s)[k]
  <2>1. 1 \in 0..Len(s)
    BY <1>1
  <2>2. QED  BY <2>1, <1>1, BytesGrow
<1>5. ASSUME NEW k \in DOMAIN s, Takes(s, s[1].len, k) PROVE k = 1
  BY <1>1, <1>2, <1>3, <1>4, <1>5 DEF Takes
<1>6. Lengths(s) >= s[1].len
  <2>1. Len(s) = 1 \/ 1 < Len(s)
    BY <1>1
  <2>2. CASE Len(s) = 1
    BY <2>2, <1>3, <1>2 DEF Lengths
  <2>3. CASE 1 < Len(s)
    <3>1. Bytes(s)[1] < Bytes(s)[Len(s)] /\ Bytes(s)[Len(s)] \in Nat
      BY <2>3, <1>1, <1>4, BytesSum
    <3>2. QED  BY <3>1, <1>3, <1>2 DEF Lengths
  <2>4. QED  BY <2>1, <2>2, <2>3
<1>7. Takes(s, s[1].len, 1)
  BY <1>3 DEF Takes
<1>8. Receives(s, s[1].len)
  BY <1>1, <1>6, <1>7 DEF Receives
<1>9. QED  BY <1>5, <1>8

\* A receive that asks for the length of all fields takes them all.
LEMMA TakesAll ==
  ASSUME NEW s \in Seq(Solid)
  PROVE  /\ Lengths(s) \in Nat
         /\ \A k \in DOMAIN s : Takes(s, Lengths(s), k) => k = Len(s)
         /\ s # <<>> => Receives(s, Lengths(s))
<1>1. s \in Seq(Field) /\ Len(s) \in Nat /\ DOMAIN s = 1..Len(s)
  BY SolidFields
<1>2. Lengths(s) \in Nat
  <2>1. Len(s) \in 0..Len(s)
    BY <1>1
  <2>2. QED  BY <1>1, <2>1, BytesSum DEF Lengths
<1>3. ASSUME NEW k \in DOMAIN s, Takes(s, Lengths(s), k) PROVE k = Len(s)
  <2>1. k < Len(s) => Bytes(s)[k] < Bytes(s)[Len(s)]
    <3>1. k \in 0..Len(s) /\ Len(s) \in 0..Len(s)
      BY <1>1
    <3>2. QED  BY <3>1, BytesGrow
  <2>2. Bytes(s)[k] = Bytes(s)[Len(s)] /\ Bytes(s)[Len(s)] \in Nat
    BY <1>2, <1>3 DEF Takes, Lengths
  <2>3. QED  BY <2>1, <2>2, <1>1
<1>4. ASSUME s # <<>> PROVE Receives(s, Lengths(s))
  <2>1. Len(s) \in DOMAIN s
    BY <1>1, <1>4
  <2>2. Takes(s, Lengths(s), Len(s)) /\ Lengths(s) >= Lengths(s)
    BY <1>2 DEF Takes, Lengths
  <2>3. QED  BY <2>1, <2>2 DEF Receives
<1>5. QED  BY <1>2, <1>3, <1>4

\* Nothing is received from an end that is silent.
LEMMA TakesNothing == Lengths(<<>>) = 0 /\ DOMAIN <<>> = {}
<1>1. <<>> \in Seq(Field) /\ Len(<<>>) = 0
  OBVIOUS
<1>2. Lengths(<<>>) = 0
  BY <1>1, BytesSum DEF Lengths
<1>3. DOMAIN <<>> = {}
  OBVIOUS
<1>4. QED  BY <1>2, <1>3

-----------------------------------------------------------------------------
\* What FlattenSeq makes of sequences, and where they are in it.

LEMMA Least ==
  ASSUME NEW T \in SUBSET Nat, T # {}
  PROVE  \E n \in T : \A m \in T : n <= m
<1>1. PICK n \in T : \A m \in T : ~(<<m, n>> \in OpToRel(<, Nat))
  <2>1. IsWellFoundedOn(OpToRel(<, Nat), Nat)
    BY NatLessThanWellFounded
  <2>2. QED  BY <2>1, WFMin
<1>2. \A m \in T : ~(m < n)
  BY <1>1 DEF OpToRel
<1>3. QED  BY <1>2

\* The sequences one after the other: F[n] is the first n of them.
Parts(F, seqs, S) ==
    /\ F \in [0..Len(seqs) -> Seq(S)]
    /\ F[0] = <<>> /\ \A n \in 1..Len(seqs) : F[n] = F[n - 1] \o seqs[n]

LEMMA Flatten ==
  ASSUME NEW S, NEW seqs \in Seq(Seq(S)), seqs # <<>>
  PROVE  \E F : Parts(F, seqs, S) /\ FlattenSeq(seqs) = F[Len(seqs)]
<1> DEFINE N == Len(seqs)
           step == [x \in Seq(S) \X (1..N) |-> x[1] \o seqs[x[2]]]
           Flat(f) == f = [i \in 1..N |-> IF i = 1 THEN seqs[i] ELSE f[i - 1] \o seqs[i]]
           flat == CHOOSE f : Flat(f)
<1>1. N \in Nat \ {0} /\ \A n \in 1..N : seqs[n] \in Seq(S)
  <2>1. N \in Nat /\ N # 0
    BY EmptySeq
  <2>2. QED  BY <2>1, ElementOfSeq
<1>2. PICK F : Recurs(F, Seq(S), <<>>, step, N)
  <2>1. N \in Nat /\ <<>> \in Seq(S)
    BY <1>1
  <2>2. \A x \in Seq(S) \X (1..N) : x[1] \o seqs[x[2]] \in Seq(S)
    <3> TAKE x \in Seq(S) \X (1..N)
    <3>1. x[1] \in Seq(S) /\ seqs[x[2]] \in Seq(S)
      BY <1>1
    <3>2. QED  BY <3>1, ConcatProperties
  <2>3. step \in Steps(Seq(S), N)
    BY <2>2 DEF Steps
  <2> HIDE DEF step, N
  <2>4. QED  BY <2>1, <2>3, Recursion
<1>3. /\ F \in [0..N -> Seq(S)] /\ F[0] = <<>>
      /\ \A n \in 1..N : F[n] = step[<<F[n - 1], n>>]
  <2> HIDE DEF step, N
  <2>1. QED  BY <1>2 DEF Recurs
<1>4. \A n \in 1..N : F[n] = F[n - 1] \o seqs[n]
  <2>1. \A n \in 1..N : n - 1 \in 0..N
    <3> HIDE DEF N
    <3>1. QED  BY <1>1
  <2>2. \A n \in 1..N : <<F[n - 1], n>> \in Seq(S) \X (1..N)
    <3> HIDE DEF N, step
    <3>1. QED  BY <2>1, <1>3
  <2>3. \A n \in 1..N : step[<<F[n - 1], n>>] = F[n - 1] \o seqs[n]
    BY <2>2
  <2> HIDE DEF step, N
  <2>4. QED  BY <1>3, <2>3
<1>5. F[1] = seqs[1]
  <2>1. F[1] = <<>> \o seqs[1]
    <3>1. 1 \in 1..N /\ 1 - 1 = 0
      BY <1>1
    <3> HIDE DEF N, step
    <3>2. F[1] = F[1 - 1] \o seqs[1]
      BY <3>1, <1>4
    <3>3. QED  BY <3>2, <3>1, <1>3
  <2>2. seqs[1] \in Seq(S)
    BY <1>1
  <2>3. QED  BY <2>1, <2>2, ConcatEmptySeq
<1>6. Flat([n \in 1..N |-> F[n]])
  <2> DEFINE g == [n \in 1..N |-> F[n]]
  <2>1. \A n \in 1..N : F[n] = IF n = 1 THEN seqs[n] ELSE g[n - 1] \o seqs[n]
    <3> TAKE n \in 1..N
    <3>1. CASE n = 1
      BY <3>1, <1>5
    <3>2. CASE n # 1
      <4>1. n - 1 \in 1..N
        BY <3>2, <1>1
      <4>2. g[n - 1] = F[n - 1]
        BY <4>1
      <4> HIDE DEF g, N
      <4>3. QED  BY <4>2, <3>2, <1>4
    <3>3. QED  BY <3>1, <3>2
  <2>2. QED  BY <2>1
<1>7. Flat(flat)
  <2> HIDE DEF Flat
  <2>1. QED  BY <1>6
<1>8. flat[1] = seqs[1] /\ \A n \in 2..N : flat[n] = flat[n - 1] \o seqs[n]
  <2> HIDE DEF flat
  <2> DEFINE b == flat
  <2>1. b = [i \in 1..N |-> IF i = 1 THEN seqs[i] ELSE b[i - 1] \o seqs[i]]
    BY <1>7
  <2>2. 1 \in 1..N /\ \A n \in 2..N : n \in 1..N /\ n # 1
    BY <1>1
  <2> HIDE DEF b
  <2>3. b[1] = seqs[1] /\ \A n \in 2..N : b[n] = b[n - 1] \o seqs[n]
    BY <2>1, <2>2
  <2>4. QED  BY <2>3 DEF b
<1>9. flat[N] = F[N]
  <2> DEFINE T == {n \in 0..N : n = 0 \/ flat[n] = F[n]}
  <2>1. 0 \in T
    BY <1>1
  <2>2. \A n \in 0..(N - 1) : n \in T => n + 1 \in T
    <3> TAKE n \in 0..(N - 1)
    <3>0. n + 1 \in 1..N /\ n + 1 \in 0..N /\ (n + 1) - 1 = n
      BY <1>1
    <3> HIDE DEF N, flat, step
    <3>1. CASE n = 0
      BY <3>1, <3>0, <1>5, <1>8
    <3>2. CASE n # 0
      <4>1. n + 1 \in 2..N
        BY <3>2, <3>0, <1>1
      <4>2. flat[n + 1] = flat[n] \o seqs[n + 1]
        BY <4>1, <3>0, <1>8
      <4>3. F[n + 1] = F[n] \o seqs[n + 1]
        BY <3>0, <1>4
      <4>4. HAVE n \in T
      <4>5. flat[n] = F[n]
        BY <4>4, <3>2
      <4>6. flat[n + 1] = F[n + 1]
        BY <4>2, <4>3, <4>5
      <4>7. QED  BY <3>0, <4>6
    <3>3. QED  BY <3>1, <3>2
  <2> HIDE DEF T, N
  <2>3. 0..N \subseteq T
    BY <1>1, <2>1, <2>2, UpTo
  <2>4. N \in T
    BY <2>3, <1>1
  <2> HIDE DEF flat
  <2>5. QED  BY <2>4, <1>1 DEF T
<1>10. FlattenSeq(seqs) = flat[N]
  <2>1. Len(seqs) # 0
    BY <1>1
  <2>2. QED  BY <2>1 DEF FlattenSeq
<1>11. Parts(F, seqs, S)
  <2> HIDE DEF step
  <2>1. QED  BY <1>3, <1>4 DEF Parts
<1>12. FlattenSeq(seqs) = F[Len(seqs)]
  <2> HIDE DEF flat
  <2>1. QED  BY <1>9, <1>10
<1> HIDE DEF step, flat, N, Flat
<1>13. QED  BY <1>11, <1>12

\* Where the sequences are.
Places(off, all, seqs) ==
    /\ off \in [0..Len(seqs) -> Nat] /\ off[0] = 0 /\ off[Len(seqs)] = Len(all)
    /\ \A j \in 1..Len(seqs) :
        /\ off[j] = off[j - 1] + Len(seqs[j]) /\ off[j] <= Len(all)
        /\ \A i \in 1..Len(seqs[j]) : all[off[j - 1] + i] = seqs[j][i]

LEMMA FlattenPlaces ==
  ASSUME NEW S, NEW seqs \in Seq(Seq(S)), seqs # <<>>
  PROVE  /\ FlattenSeq(seqs) \in Seq(S)
         /\ \E off : Places(off, FlattenSeq(seqs), seqs)
<1> DEFINE N == Len(seqs)
<1>1. PICK F : Parts(F, seqs, S) /\ FlattenSeq(seqs) = F[Len(seqs)]
  BY Flatten
<1>2. N \in Nat \ {0} /\ \A n \in 1..N : seqs[n] \in Seq(S) /\ Len(seqs[n]) \in Nat
  <2>1. N \in Nat /\ N # 0
    BY EmptySeq
  <2>2. \A n \in 1..N : seqs[n] \in Seq(S)
    BY <2>1, ElementOfSeq
  <2>3. QED  BY <2>1, <2>2
<1>3. \A n \in 0..N : F[n] \in Seq(S) /\ Len(F[n]) \in Nat
  <2>1. \A n \in 0..N : F[n] \in Seq(S)
    BY <1>1 DEF Parts
  <2>2. QED  BY <2>1
<1>4. ASSUME NEW n \in 1..N
      PROVE  /\ Len(F[n]) = Len(F[n - 1]) + Len(seqs[n])
             /\ \A i \in 1..Len(F[n - 1]) : F[n][i] = F[n - 1][i]
             /\ \A i \in 1..Len(seqs[n]) : F[n][Len(F[n - 1]) + i] = seqs[n][i]
  <2> DEFINE a == F[n - 1]  b == seqs[n]
  <2>1. F[n] = a \o b
    BY <1>1 DEF Parts
  <2>2. n - 1 \in 0..N
    BY <1>2
  <2>3. a \in Seq(S) /\ b \in Seq(S) /\ Len(a) \in Nat /\ Len(b) \in Nat
    BY <2>2, <1>2, <1>3
  <2> HIDE DEF a, b
  <2>4. /\ Len(a \o b) = Len(a) + Len(b)
        /\ \A i \in 1..(Len(a) + Len(b)) : (a \o b)[i] = IF i <= Len(a) THEN a[i] ELSE b[i - Len(a)]
    BY <2>3, ConcatProperties
  <2> DEFINE c == a \o b
  <2>5. F[n] = c
    BY <2>1
  <2>6. /\ Len(c) = Len(a) + Len(b)
        /\ \A i \in 1..(Len(a) + Len(b)) : c[i] = IF i <= Len(a) THEN a[i] ELSE b[i - Len(a)]
    BY <2>4
  <2> HIDE DEF c
  <2>7. \A i \in 1..Len(a) : c[i] = a[i]
    BY <2>3, <2>6
  <2>8. \A i \in 1..Len(b) : c[Len(a) + i] = b[i]
    <3> TAKE i \in 1..Len(b)
    <3>1. Len(a) + i \in 1..(Len(a) + Len(b)) /\ ~(Len(a) + i <= Len(a)) /\ (Len(a) + i) - Len(a) = i
      BY <2>3
    <3>2. QED  BY <3>1, <2>6
  <2>9. QED  BY <2>5, <2>6, <2>7, <2>8 DEF a, b
<1> DEFINE Holds(n) ==
               \A j \in 1..n :
                   /\ Len(F[j]) <= Len(F[n])
                   /\ \A i \in 1..Len(seqs[j]) : F[n][Len(F[j - 1]) + i] = seqs[j][i]
           T == {n \in 0..N : Holds(n)}
<1>5. 0 \in T
  BY <1>2
<1>6. \A n \in 0..(N - 1) : n \in T => n + 1 \in T
  <2> TAKE n \in 0..(N - 1)
  <2>1. HAVE n \in T
  <2>2. n + 1 \in 1..N /\ n + 1 \in 0..N /\ n \in 0..N /\ (n + 1) - 1 = n
    BY <1>2
  <2>3. /\ Len(F[n + 1]) = Len(F[n]) + Len(seqs[n + 1])
        /\ \A i \in 1..Len(F[n]) : F[n + 1][i] = F[n][i]
        /\ \A i \in 1..Len(seqs[n + 1]) : F[n + 1][Len(F[n]) + i] = seqs[n + 1][i]
    <3> HIDE DEF N
    <3> DEFINE k == n + 1
    <3>1. k \in 1..N /\ k - 1 = n
      BY <2>2
    <3> HIDE DEF k
    <3>2. /\ Len(F[k]) = Len(F[k - 1]) + Len(seqs[k])
          /\ \A i \in 1..Len(F[k - 1]) : F[k][i] = F[k - 1][i]
          /\ \A i \in 1..Len(seqs[k]) : F[k][Len(F[k - 1]) + i] = seqs[k][i]
      BY <3>1, <1>4, Zenon
    <3>3. QED  BY <3>1, <3>2, Zenon DEF k
  <2>4. Len(F[n]) \in Nat /\ Len(F[n + 1]) \in Nat /\ Len(seqs[n + 1]) \in Nat
    BY <2>2, <1>2, <1>3
  <2>5. ASSUME NEW j \in 1..(n + 1)
        PROVE  /\ Len(F[j]) <= Len(F[n + 1])
               /\ \A i \in 1..Len(seqs[j]) : F[n + 1][Len(F[j - 1]) + i] = seqs[j][i]
    <3>1. CASE j = n + 1
      BY <3>1, <2>2, <2>3, <2>4
    <3>2. CASE j # n + 1
      <4>1. j \in 1..n /\ j \in 0..N /\ j - 1 \in 0..N /\ j \in 1..N
        BY <3>2, <2>2, <1>2
      <4>2. Len(F[j]) <= Len(F[n]) /\ \A i \in 1..Len(seqs[j]) : F[n][Len(F[j - 1]) + i] = seqs[j][i]
        BY <4>1, <2>1
      <4>3. Len(F[j]) = Len(F[j - 1]) + Len(seqs[j]) /\ Len(F[j]) \in Nat /\ Len(F[j - 1]) \in Nat /\ Len(seqs[j]) \in Nat
        BY <4>1, <1>2, <1>3, <1>4
      <4> DEFINE x == Len(F[j])  y == Len(F[j - 1])  z == Len(seqs[j])  u == Len(F[n])
                 v == Len(F[n + 1])  w == Len(seqs[n + 1])
      <4>8. x <= u /\ x = y + z /\ v = u + w /\ x \in Nat /\ y \in Nat /\ z \in Nat /\ u \in Nat /\ v \in Nat /\ w \in Nat
        BY <4>2, <4>3, <2>3, <2>4
      <4>4. \A i \in 1..Len(seqs[j]) : Len(F[j - 1]) + i \in 1..Len(F[n])
        <5>1. \A i \in 1..z : y + i \in 1..u
          <6> HIDE DEF x, y, z, u, v, w
          <6>1. QED  BY <4>8
        <5>2. QED  BY <5>1
      <4>5. \A i \in 1..Len(seqs[j]) : F[n + 1][Len(F[j - 1]) + i] = seqs[j][i]
        BY <4>4, <4>2, <2>3
      <4>6. Len(F[j]) <= Len(F[n + 1])
        <5>1. x <= v
          <6> HIDE DEF x, y, z, u, v, w
          <6>1. QED  BY <4>8
        <5>2. QED  BY <5>1
      <4>7. QED  BY <4>5, <4>6
    <3>3. QED  BY <3>1, <3>2
  <2>6. QED  BY <2>2, <2>5
<1>7. N \in T
  <2> HIDE DEF T, N
  <2>1. 0..N \subseteq T
    BY <1>2, <1>5, <1>6, UpTo
  <2>2. QED  BY <2>1, <1>2
<1>8. FlattenSeq(seqs) \in Seq(S)
  BY <1>1, <1>2, <1>3
<1> DEFINE off == [j \in 0..N |-> Len(F[j])]
<1>9. Places(off, FlattenSeq(seqs), seqs)
  <2> DEFINE all == FlattenSeq(seqs)
  <2>1. off \in [0..N -> Nat]
    BY <1>3
  <2>2. off[0] = 0
    <3>1. F[0] = <<>>
      BY <1>1 DEF Parts
    <3>2. off[0] = Len(F[0])
      BY <1>2
    <3>3. QED  BY <3>1, <3>2
  <2>3. off[N] = Len(all) /\ all = F[N]
    BY <1>1, <1>2
  <2>4. ASSUME NEW j \in 1..N
        PROVE  /\ off[j] = off[j - 1] + Len(seqs[j]) /\ off[j] <= Len(all)
               /\ \A i \in 1..Len(seqs[j]) : all[off[j - 1] + i] = seqs[j][i]
    <3>1. off[j] = Len(F[j]) /\ off[j - 1] = Len(F[j - 1])
      BY <1>2
    <3> HIDE DEF off, all
    <3>2. QED  BY <3>1, <2>3, <1>4, <1>7
  <2> HIDE DEF off, all
  <2>5. QED  BY <2>1, <2>2, <2>3, <2>4 DEF Places, all
<1> HIDE DEF off
<1>10. QED  BY <1>8, <1>9

-----------------------------------------------------------------------------
\* Packs on the wire.

\* The fields of one parameter.
LEMMA FieldsOfParam ==
  ASSUME NEW p \in Param
  PROVE  /\ ParamFields(p) \in Seq(Field)
         /\ p.type = "int32" =>
              /\ Len(ParamFields(p)) = 2
              /\ ParamFields(p)[1] = Type("int32") /\ ParamFields(p)[2] = Number(p.val)
         /\ p.type # "int32" =>
              /\ p.type = "buffer" /\ Len(ParamFields(p)) = 3
              /\ ParamFields(p)[1] = Type("buffer")
              /\ ParamFields(p)[2] = Number(LengthOf(p.val)) /\ ParamFields(p)[3] = Data(p.val)
<1>1. p.type \in {"int32", "buffer"} /\ p.val \in Vals
  BY DEF Param
<1>2. LengthOf(p.val) \in Nat
  BY DataLengthAssumption DEF LengthOf
<1>3. /\ Type("int32") \in Field /\ Type("buffer") \in Field
      /\ Number(p.val) \in Field /\ Number(LengthOf(p.val)) \in Field
  <2> DEFINE v == p.val  l == LengthOf(p.val)
  <2>1. v \in Vals /\ l \in Nat
    BY <1>1, <1>2
  <2> HIDE DEF v, l
  <2>2. Number(v) \in Field /\ Number(l) \in Field
    BY <2>1 DEF Number, Field, Said
  <2>3. Type("int32") \in Field /\ Type("buffer") \in Field
    <3>1. "int32" \in Said /\ "buffer" \in Said
      BY DEF Said
    <3>2. ASSUME NEW x \in Said PROVE Type(x) \in Field
      BY DEF Type, Field
    <3>3. QED  BY <3>1, <3>2, Zenon
  <2>4. QED  BY <2>2, <2>3 DEF v, l
<1>4. Data(p.val) \in Field
  <2> DEFINE v == p.val  l == LengthOf(p.val)
  <2>1. v \in Vals /\ l \in Nat /\ LengthOf(v) = l
    BY <1>1, <1>2
  <2> HIDE DEF v, l
  <2>2. Data(v) \in Field
    BY <2>1 DEF Data, Field, Said
  <2>3. QED  BY <2>2 DEF v
<1>5. CASE p.type = "int32"
  <2> DEFINE a == Type("int32")  b == Number(p.val)
  <2>1. ParamFields(p) = <<a, b>>
    BY <1>5 DEF ParamFields
  <2>2. a \in Field /\ b \in Field
    BY <1>3
  <2> HIDE DEF a, b
  <2>3. <<a, b>> \in Seq(Field) /\ Len(<<a, b>>) = 2 /\ <<a, b>>[1] = a /\ <<a, b>>[2] = b
    BY <2>2
  <2>4. QED  BY <1>5, <2>1, <2>3 DEF a, b
<1>6. CASE p.type # "int32"
  <2> DEFINE a == Type("buffer")  b == Number(LengthOf(p.val))  c == Data(p.val)
  <2>1. ParamFields(p) = <<a, b, c>>
    BY <1>6 DEF ParamFields
  <2>2. a \in Field /\ b \in Field /\ c \in Field
    BY <1>3, <1>4
  <2>3. p.type = "buffer"
    BY <1>1, <1>6
  <2> HIDE DEF a, b, c
  <2>4. <<a, b, c>> \in Seq(Field) /\ Len(<<a, b, c>>) = 3
    BY <2>2
  <2>5. <<a, b, c>>[1] = a /\ <<a, b, c>>[2] = b /\ <<a, b, c>>[3] = c
    BY <2>2
  <2>6. QED  BY <1>6, <2>1, <2>3, <2>4, <2>5 DEF a, b, c
<1>7. QED  BY <1>5, <1>6

\* off[j] fields lie between the number of parameters and the end of parameter j.
Laid(off, pack, body) ==
    /\ off \in [0..Len(pack) -> Nat] /\ off[0] = 0 /\ off[Len(pack)] + 1 = Len(body)
    /\ \A j \in 1..Len(pack) :
        /\ off[j] + 1 <= Len(body)
        /\ pack[j].type = "int32" =>
             /\ off[j] = off[j - 1] + 2
             /\ body[2 + off[j - 1]] = Type("int32")
             /\ body[3 + off[j - 1]] = Number(pack[j].val)
        /\ pack[j].type # "int32" =>
             /\ off[j] = off[j - 1] + 3
             /\ body[2 + off[j - 1]] = Type("buffer")
             /\ body[3 + off[j - 1]] = Number(LengthOf(pack[j].val))
             /\ body[4 + off[j - 1]] = Data(pack[j].val)

LEMMA BodyLaid ==
  ASSUME NEW pack \in Seq(Param), pack # <<>>
  PROVE  /\ Body(pack) \in Seq(Field) /\ Len(Body(pack)) \in Nat \ {0}
         /\ Body(pack)[1] = Number(Len(pack))
         /\ \E off : Laid(off, pack, Body(pack))
<1> DEFINE N == Len(pack)
           seqs == [n \in DOMAIN pack |-> ParamFields(pack[n])]
           flat == FlattenSeq(seqs)
           body == Body(pack)
<1>1. N \in Nat \ {0} /\ DOMAIN pack = 1..N /\ \A j \in 1..N : pack[j] \in Param
  <2>1. N \in Nat /\ N # 0
    BY EmptySeq
  <2>2. QED  BY <2>1, ElementOfSeq
<1>2. seqs \in Seq(Seq(Field)) /\ Len(seqs) = N /\ \A j \in 1..N : seqs[j] = ParamFields(pack[j])
  <2>1. seqs = [n \in 1..N |-> ParamFields(pack[n])]
    BY <1>1
  <2>2. \A n \in 1..N : ParamFields(pack[n]) \in Seq(Field)
    BY <1>1, FieldsOfParam
  <2>3. [n \in 1..N |-> ParamFields(pack[n])] \in Seq(Seq(Field))
    BY <2>2, <1>1, IsASeq
  <2>4. DOMAIN seqs = 1..N
    BY <2>1
  <2>5. Len(seqs) = N
    <3> HIDE DEF seqs, N
    <3>1. QED  BY <2>1, <2>3, <2>4, <1>1, LenProperties
  <2>6. \A j \in 1..N : seqs[j] = ParamFields(pack[j])
    BY <2>1
  <2>7. QED  BY <2>1, <2>3, <2>5, <2>6
<1>3. seqs # <<>>
  <2> HIDE DEF seqs, N
  <2>1. QED  BY <1>1, <1>2, EmptySeq
<1>4. flat \in Seq(Field) /\ \E off : Places(off, flat, seqs)
  <2> HIDE DEF seqs
  <2>1. QED  BY <1>2, <1>3, FlattenPlaces
<1>5. PICK off : Places(off, flat, seqs)
  BY <1>4
<1>6. Number(N) \in Field
  <2> HIDE DEF N
  <2>1. QED  BY <1>1 DEF Number, Field, Said
<1>7. /\ body \in Seq(Field) /\ Len(body) = Len(flat) + 1 /\ body[1] = Number(N)
      /\ \A i \in 1..Len(flat) : body[i + 1] = flat[i]
  <2> DEFINE one == Number(N)
  <2>1. body = <<one>> \o flat
    BY DEF Body
  <2> HIDE DEF one, flat, body
  <2>2. one \in Field
    BY <1>6 DEF one
  <2>3. /\ body \in Seq(Field) /\ Len(body) = Len(flat) + 1 /\ body[1] = one
        /\ \A i \in 1..Len(flat) : body[i + 1] = flat[i]
    BY <2>1, <2>2, <1>4, FirstAndRest
  <2>4. QED  BY <2>3 DEF one
<1>8. Len(flat) \in Nat
  BY <1>4
<1>9. /\ off \in [0..N -> Nat] /\ off[0] = 0 /\ off[N] = Len(flat)
      /\ \A j \in 1..N :
          /\ off[j] = off[j - 1] + Len(ParamFields(pack[j])) /\ off[j] <= Len(flat)
          /\ \A i \in 1..Len(ParamFields(pack[j])) : flat[off[j - 1] + i] = ParamFields(pack[j])[i]
  <2> HIDE DEF seqs, flat, N
  <2>1. /\ off \in [0..Len(seqs) -> Nat] /\ off[0] = 0 /\ off[Len(seqs)] = Len(flat)
        /\ \A j \in 1..Len(seqs) :
            /\ off[j] = off[j - 1] + Len(seqs[j]) /\ off[j] <= Len(flat)
            /\ \A i \in 1..Len(seqs[j]) : flat[off[j - 1] + i] = seqs[j][i]
    BY <1>5, Zenon DEF Places
  <2>2. off \in [0..N -> Nat] /\ off[0] = 0 /\ off[N] = Len(flat)
    BY <2>1, <1>2
  <2>3. ASSUME NEW j \in 1..N
        PROVE  /\ off[j] = off[j - 1] + Len(ParamFields(pack[j])) /\ off[j] <= Len(flat)
               /\ \A i \in 1..Len(ParamFields(pack[j])) : flat[off[j - 1] + i] = ParamFields(pack[j])[i]
    <3>1. seqs[j] = ParamFields(pack[j]) /\ j \in 1..Len(seqs)
      BY <1>2
    <3>2. QED  BY <2>1, <3>1, Zenon
  <2>4. QED  BY <2>2, <2>3, Zenon
<1>10. ASSUME NEW j \in 1..N
       PROVE  /\ off[j] + 1 <= Len(body)
              /\ pack[j].type = "int32" =>
                   /\ off[j] = off[j - 1] + 2
                   /\ body[2 + off[j - 1]] = Type("int32")
                   /\ body[3 + off[j - 1]] = Number(pack[j].val)
              /\ pack[j].type # "int32" =>
                   /\ off[j] = off[j - 1] + 3
                   /\ body[2 + off[j - 1]] = Type("buffer")
                   /\ body[3 + off[j - 1]] = Number(LengthOf(pack[j].val))
                   /\ body[4 + off[j - 1]] = Data(pack[j].val)
  <2> DEFINE p == pack[j]  fs == ParamFields(p)  o == off[j - 1]
  <2>1. p \in Param
    BY <1>1
  <2>2. off[j] = o + Len(fs) /\ off[j] <= Len(flat) /\ \A i \in 1..Len(fs) : flat[o + i] = fs[i]
    BY <1>9
  <2>3. o \in Nat /\ off[j] \in Nat
    <3>1. j - 1 \in 0..N /\ j \in 0..N
      BY <1>1
    <3> HIDE DEF N
    <3>2. QED  BY <3>1, <1>9
  <2>4. off[j] + 1 <= Len(body)
    <3> HIDE DEF flat, body, N, fs, o
    <3>1. QED  BY <2>2, <2>3, <1>7, <1>8
  <2>5. ASSUME NEW i \in 1..Len(fs), i \in Nat, o + i <= Len(flat)
        PROVE  body[(i + 1) + o] = fs[i]
    <3> HIDE DEF flat, body, N, fs, o
    <3>1. o + i \in 1..Len(flat) /\ (o + i) + 1 = (i + 1) + o
      BY <2>3, <2>5, <1>8
    <3>2. body[(o + i) + 1] = flat[o + i]
      BY <3>1, <1>7
    <3>3. QED  BY <3>1, <3>2, <2>2
  <2>6. CASE p.type = "int32"
    <3>1. Len(fs) = 2 /\ fs[1] = Type("int32") /\ fs[2] = Number(p.val)
      BY <2>1, <2>6, FieldsOfParam
    <3> HIDE DEF flat, body, N, fs, o, p
    <3>2. off[j] = o + 2 /\ o + 1 <= Len(flat) /\ o + 2 <= Len(flat)
      BY <3>1, <2>2, <2>3, <1>8
    <3>3. body[(1 + 1) + o] = fs[1] /\ body[(2 + 1) + o] = fs[2]
      BY <3>1, <3>2, <2>5
    <3>4. (1 + 1) + o = 2 + o /\ (2 + 1) + o = 3 + o
      BY <2>3
    <3>5. body[2 + o] = Type("int32") /\ body[3 + o] = Number(p.val)
      BY <3>1, <3>3, <3>4
    <3>6. QED  BY <2>4, <2>6, <3>2, <3>5 DEF p, o
  <2>7. CASE p.type # "int32"
    <3>1. /\ Len(fs) = 3 /\ fs[1] = Type("buffer")
          /\ fs[2] = Number(LengthOf(p.val)) /\ fs[3] = Data(p.val)
      BY <2>1, <2>7, FieldsOfParam
    <3> HIDE DEF flat, body, N, fs, o, p
    <3>2. off[j] = o + 3 /\ o + 1 <= Len(flat) /\ o + 2 <= Len(flat) /\ o + 3 <= Len(flat)
      BY <3>1, <2>2, <2>3, <1>8
    <3>3. body[(1 + 1) + o] = fs[1] /\ body[(2 + 1) + o] = fs[2] /\ body[(3 + 1) + o] = fs[3]
      BY <3>1, <3>2, <2>5
    <3>4. (1 + 1) + o = 2 + o /\ (2 + 1) + o = 3 + o /\ (3 + 1) + o = 4 + o
      BY <2>3
    <3>5. /\ body[2 + o] = Type("buffer") /\ body[3 + o] = Number(LengthOf(p.val))
          /\ body[4 + o] = Data(p.val)
      BY <3>1, <3>3, <3>4
    <3>6. QED  BY <2>4, <2>7, <3>2, <3>5 DEF p, o
  <2>8. QED  BY <2>6, <2>7
<1>11. Laid(off, pack, body)
  <2>1. off[N] + 1 = Len(body)
    BY <1>9, <1>7
  <2> HIDE DEF body
  <2>2. QED  BY <1>9, <1>10, <2>1 DEF Laid
<1>12. Len(body) \in Nat \ {0}
  BY <1>7, <1>8
<1> HIDE DEF body, seqs, flat
<1>13. QED  BY <1>7, <1>11, <1>12 DEF body

\* The walk through a buffer.
LEMMA AfterRange ==
  ASSUME NEW s \in Seq(Field)
  PROVE  /\ Len(s) \in Nat
         /\ After(s) \in [1..(Len(s) + 2) -> 1..(Len(s) + 2)]
         /\ \A k \in 1..(Len(s) + 2) :
              /\ k >= Len(s) => After(s)[k] = Len(s) + 2
              /\ k < Len(s) /\ s[k].kind = "type" =>
                   After(s)[k] = IF s[k].val = "int32" \/ s[k + 1].val = 0 THEN k + 2 ELSE k + 3
<1>1. Len(s) \in Nat
  OBVIOUS
<1> DEFINE N == Len(s)
<1>2. N \in Nat
  BY <1>1
<1> HIDE DEF N
<1>3. After(s) = [k \in 1..(N + 2) |->
          IF k >= N \/ s[k].kind # "type" THEN N + 2
          ELSE IF s[k].val = "int32" \/ s[k + 1].val = 0 THEN k + 2 ELSE k + 3]
  BY DEF After, N
<1>4. ASSUME NEW k \in 1..(N + 2)
      PROVE  /\ After(s)[k] \in 1..(N + 2)
             /\ k >= N => After(s)[k] = N + 2
             /\ k < N /\ s[k].kind = "type" =>
                  After(s)[k] = IF s[k].val = "int32" \/ s[k + 1].val = 0 THEN k + 2 ELSE k + 3
  <2> DEFINE x == After(s)[k]  num == s[k].val = "int32" \/ s[k + 1].val = 0
             other == s[k].kind # "type"
  <2>1. x = IF k >= N \/ other THEN N + 2 ELSE IF num THEN k + 2 ELSE k + 3
    BY <1>3
  <2>2. other <=> ~(s[k].kind = "type")
    OBVIOUS
  <2> HIDE DEF x, num, other
  <2>3. /\ x \in 1..(N + 2)
        /\ k >= N => x = N + 2
        /\ k < N /\ ~other => x = IF num THEN k + 2 ELSE k + 3
    BY <2>1, <1>2
  <2>4. QED  BY <2>2, <2>3 DEF x, num
<1>5. After(s) \in [1..(N + 2) -> 1..(N + 2)]
  BY <1>3, <1>4
<1>6. QED  BY <1>2, <1>4, <1>5 DEF N

LEMMA WalkWalks ==
  ASSUME NEW s \in Seq(Field), NEW n \in Nat
  PROVE  \A j \in 0..n : Walk(s, n)[j] \in 1..(Len(s) + 2)
         /\ (j = 0 => Walk(s, n)[j] = 2) /\ (j # 0 => Walk(s, n)[j] = After(s)[Walk(s, n)[j - 1]])
<1> DEFINE R == 1..(Len(s) + 2)
           step == [x \in R \X (1..n) |-> After(s)[x[1]]]
           Is(f) == f = [j \in 0..n |-> IF j = 0 THEN 2 ELSE After(s)[f[j - 1]]]
           w == Walk(s, n)
<1>1. After(s) \in [R -> R] /\ 2 \in R
  <2>1. Len(s) \in Nat /\ After(s) \in [R -> R]
    BY AfterRange
  <2>2. QED  BY <2>1
<1>2. step \in Steps(R, n)
  <2> HIDE DEF R
  <2>1. QED  BY <1>1 DEF Steps
<1>3. PICK h : Recurs(h, R, 2, step, n)
  <2> HIDE DEF R, step
  <2>1. QED  BY <1>1, <1>2, Recursion
<1>4. h \in [0..n -> R] /\ h[0] = 2 /\ \A j \in 1..n : h[j] = step[<<h[j - 1], j>>]
  <2> HIDE DEF R, step
  <2>1. QED  BY <1>3 DEF Recurs
<1>5. \A j \in 1..n : h[j] = After(s)[h[j - 1]]
  <2>1. \A j \in 1..n : j - 1 \in 0..n
    OBVIOUS
  <2>2. \A j \in 1..n : <<h[j - 1], j>> \in R \X (1..n)
    <3> HIDE DEF R, step
    <3>1. QED  BY <2>1, <1>4
  <2>3. \A j \in 1..n : step[<<h[j - 1], j>>] = After(s)[h[j - 1]]
    <3> HIDE DEF R
    <3>1. QED  BY <2>2
  <2> HIDE DEF R, step
  <2>4. QED  BY <1>4, <2>3
<1>6. Is(h)
  <2> HIDE DEF R, step
  <2>1. h = [j \in 0..n |-> h[j]]
    BY <1>4
  <2>2. \A j \in 0..n : h[j] = IF j = 0 THEN 2 ELSE After(s)[h[j - 1]]
    BY <1>4, <1>5
  <2>3. QED  BY <2>1, <2>2
<1>7. Is(w)
  <2>1. w = CHOOSE f : Is(f)
    BY DEF Walk
  <2> HIDE DEF Is, w
  <2>2. QED  BY <1>6, <2>1
<1>8. w[0] = 2 /\ \A j \in 1..n : w[j] = After(s)[w[j - 1]]
  <2>1. w = [j \in 0..n |-> IF j = 0 THEN 2 ELSE After(s)[w[j - 1]]]
    BY <1>7
  <2> HIDE DEF w
  <2>2. QED  BY <2>1
<1> DEFINE T == {j \in 0..n : w[j] \in R}
<1>9. 0..n \subseteq T
  <2> HIDE DEF R, w
  <2>1. 0 \in T
    BY <1>1, <1>8
  <2>2. \A j \in 0..(n - 1) : j \in T => j + 1 \in T
    <3> TAKE j \in 0..(n - 1)
    <3>1. j + 1 \in 1..n /\ (j + 1) - 1 = j /\ j + 1 \in 0..n
      OBVIOUS
    <3>2. HAVE j \in T
    <3>3. w[j + 1] = After(s)[w[j]]
      BY <3>1, <1>8
    <3>4. w[j + 1] \in R
      BY <3>2, <3>3, <1>1
    <3>5. QED  BY <3>1, <3>4
  <2> HIDE DEF T
  <2>3. QED  BY <2>1, <2>2, UpTo
<1>10. ASSUME NEW j \in 0..n
       PROVE  w[j] \in R /\ (j = 0 => w[j] = 2) /\ (j # 0 => w[j] = After(s)[w[j - 1]])
  <2> HIDE DEF w, R
  <2>1. w[j] \in R
    BY <1>9
  <2>2. j # 0 => j \in 1..n
    OBVIOUS
  <2>3. QED  BY <2>1, <2>2, <1>8
<1>11. QED  BY <1>10

-----------------------------------------------------------------------------
\* What is read is what was packed.

\* Fields of which none is empty, as received: the beginning of what was to be sent.
Begins(got, body) ==
    /\ got \in Seq(Solid) /\ Len(got) <= Len(body)
    /\ \A i \in 1..Len(got) : got[i] = body[i]

LEMMA ReadsOne ==
  ASSUME NEW pack \in Seq(Param), NEW off, NEW body, Laid(off, pack, body),
         NEW got, Begins(got, body), NEW i \in 1..Len(pack),
         2 + off[i - 1] < Len(got), After(got)[2 + off[i - 1]] <= Len(got) + 1
  PROVE  /\ ParamAt(got, 2 + off[i - 1]) = pack[i]
         /\ After(got)[2 + off[i - 1]] <= Len(got) => After(got)[2 + off[i - 1]] = 2 + off[i]
<1> DEFINE k == 2 + off[i - 1]  M == Len(got)  p == pack[i]  w == After(got)[k]
<1>1. got \in Seq(Field) /\ got \in Seq(Solid) /\ M \in Nat
  BY SolidFields DEF Begins
<1>2. p \in Param /\ Len(pack) \in Nat
  BY ElementOfSeq
<1>3. off[i - 1] \in Nat /\ off[i] \in Nat
  <2>1. i - 1 \in 0..Len(pack) /\ i \in 0..Len(pack)
    BY <1>2
  <2>2. off \in [0..Len(pack) -> Nat]
    BY Zenon DEF Laid
  <2>3. QED  BY <2>1, <2>2
<1>4. k \in 1..(M + 2) /\ k \in 1..M /\ k + 1 \in 1..M /\ k < M /\ k + 1 = 3 + off[i - 1] /\ k + 2 = 4 + off[i - 1]
      /\ k \in Nat
  <2> DEFINE o == off[i - 1]
  <2>1. o \in Nat /\ M \in Nat /\ 2 + o < M
    BY <1>1, <1>3
  <2> HIDE DEF o, M
  <2>2. /\ 2 + o \in 1..(M + 2) /\ 2 + o \in 1..M /\ (2 + o) + 1 \in 1..M /\ 2 + o < M
        /\ (2 + o) + 1 = 3 + o /\ (2 + o) + 2 = 4 + o /\ 2 + o \in Nat
    BY <2>1
  <2>3. QED  BY <2>2 DEF o
<1>5. got[k] = body[k] /\ got[k + 1] = body[k + 1]
  <2> HIDE DEF k, M
  <2>1. QED  BY <1>4 DEF Begins, M
<1>6. w <= M + 1
  OBVIOUS
<1>7. got[k].kind = "type" => w = IF got[k].val = "int32" \/ got[k + 1].val = 0 THEN k + 2 ELSE k + 3
  <2> HIDE DEF k
  <2>1. QED  BY <1>1, <1>4, AfterRange DEF M, w
<1>8. CASE p.type = "int32"
  <2>1. off[i] = off[i - 1] + 2 /\ body[k] = Type("int32") /\ body[3 + off[i - 1]] = Number(p.val)
    BY <1>8 DEF Laid
  <2>2. got[k] = Type("int32") /\ got[k + 1] = Number(p.val)
    <3> HIDE DEF k, p
    <3>1. QED  BY <2>1, <1>4, <1>5
  <2>3. got[k].kind = "type" /\ got[k].val = "int32" /\ got[k + 1].val = p.val
    <3> HIDE DEF k, p
    <3>1. QED  BY <2>2 DEF Type, Number
  <2>4. w = k + 2
    <3> HIDE DEF k, p, w
    <3>1. QED  BY <2>3, <1>7
  <2>5. ParamAt(got, k) = [type |-> "int32", val |-> p.val]
    <3> HIDE DEF k, p
    <3>1. QED  BY <2>3 DEF ParamAt
  <2>6. p = [type |-> "int32", val |-> p.val]
    <3> HIDE DEF p
    <3>1. QED  BY <1>2, <1>8 DEF Param
  <2>7. w = 2 + off[i]
    BY <2>4, <2>1, <1>3
  <2>8. QED  BY <2>5, <2>6, <2>7
<1>9. CASE p.type # "int32"
  <2>1. /\ off[i] = off[i - 1] + 3 /\ body[k] = Type("buffer")
        /\ body[3 + off[i - 1]] = Number(LengthOf(p.val)) /\ body[4 + off[i - 1]] = Data(p.val)
    BY <1>9 DEF Laid
  <2>2. got[k] = Type("buffer") /\ got[k + 1] = Number(LengthOf(p.val))
    <3> HIDE DEF k, p
    <3>1. QED  BY <2>1, <1>4, <1>5
  <2>3. got[k].kind = "type" /\ got[k].val = "buffer" /\ got[k + 1].val = LengthOf(p.val)
    <3> HIDE DEF k, p
    <3>1. QED  BY <2>2 DEF Type, Number
  <2>4. got[k].val # "int32"
    BY <2>3
  <2>5. p = [type |-> "buffer", val |-> p.val]
    <3> HIDE DEF p
    <3>1. QED  BY <1>2, <1>9 DEF Param
  <2>6. CASE p.val = Empty
    <3>1. got[k + 1].val = 0
      BY <2>3, <2>6 DEF LengthOf
    <3>2. w = k + 2
      <4> HIDE DEF k, p, w
      <4>1. QED  BY <3>1, <2>3, <1>7
    <3>3. ParamAt(got, k) = [type |-> "buffer", val |-> Empty]
      <4> HIDE DEF k, p
      <4>1. QED  BY <2>3, <2>4, <3>1 DEF ParamAt
    <3>4. ~(w <= M)
      <4>1. SUFFICES ASSUME k + 2 <= M PROVE FALSE
        BY <3>2
      <4>2. k + 2 \in 1..M
        BY <4>1, <1>4, <1>1
      <4>3. got[k + 2] = body[k + 2] /\ got[k + 2] \in Solid
        <5> HIDE DEF k, M
        <5>1. QED  BY <4>2, <1>1, ElementOfSeq DEF Begins, M
      <4>4. got[k + 2] = Data(p.val)
        <5> HIDE DEF k, M, p
        <5>1. QED  BY <4>3, <2>1, <1>4
      <4>5. got[k + 2].len = 0
        <5> HIDE DEF k, M, p
        <5>1. got[k + 2].len = LengthOf(p.val)
          BY <4>4 DEF Data
        <5>2. LengthOf(p.val) = 0
          BY <2>6 DEF LengthOf
        <5>3. QED  BY <5>1, <5>2
      <4>6. QED  BY <4>3, <4>5 DEF Solid
    <3>5. QED  BY <2>5, <2>6, <3>3, <3>4
  <2>7. CASE p.val # Empty
    <3>1. got[k + 1].val # 0
      <4>1. LengthOf(p.val) # 0
        BY <2>7, DataLengthAssumption DEF LengthOf
      <4>2. QED  BY <2>3, <4>1
    <3>2. w = k + 3
      <4> HIDE DEF k, p, w
      <4>1. QED  BY <3>1, <2>3, <2>4, <1>7
    <3>3. k + 2 \in 1..M
      BY <3>2, <1>6, <1>4, <1>1
    <3>4. got[k + 2] = Data(p.val)
      <4>1. got[k + 2] = body[k + 2]
        <5> HIDE DEF k, M
        <5>1. QED  BY <3>3 DEF Begins, M
      <4> HIDE DEF k, M, p
      <4>2. QED  BY <4>1, <2>1, <1>4
    <3>5. got[k + 2].val = p.val
      <4> HIDE DEF k, M, p
      <4>1. QED  BY <3>4 DEF Data
    <3>6. ParamAt(got, k) = [type |-> "buffer", val |-> p.val]
      <4> HIDE DEF k, p
      <4>1. QED  BY <2>3, <2>4, <3>1, <3>5 DEF ParamAt
    <3>7. w = 2 + off[i]
      BY <3>2, <2>1, <1>3
    <3>8. QED  BY <2>5, <3>6, <3>7
  <2>8. QED  BY <2>6, <2>7
<1>10. QED  BY <1>8, <1>9

LEMMA ReadsBack ==
  ASSUME NEW pack \in Seq(Param), pack # <<>>,
         NEW got, got # <<>>, Begins(got, Body(pack)), Readable(got)
  PROVE  Unpack(got) = pack
<1> DEFINE n == Len(pack)  body == Body(pack)  M == Len(got)  w == Walk(got, n)
<1>1. got \in Seq(Field) /\ M \in Nat \ {0} /\ n \in Nat \ {0}
  <2>1. got \in Seq(Field)
    BY SolidFields DEF Begins
  <2>2. QED  BY <2>1, EmptySeq
<1>2. PICK off : Laid(off, pack, body)
  BY BodyLaid
<1>3. Head(got).val = n
  <2>1. body[1] = Number(n)
    BY BodyLaid
  <2>2. got[1] = body[1]
    BY <1>1 DEF Begins
  <2>3. Head(got) = got[1]
    BY <1>1
  <2>4. Head(got) = Number(n)
    BY <2>1, <2>2, <2>3
  <2> HIDE DEF n
  <2>5. QED  BY <2>4 DEF Number
<1>4. w[n] <= M + 1
  <2>1. Checked(got, n)
    BY <1>3 DEF Readable
  <2>2. QED  BY <2>1 DEF Checked
<1>5. \A j \in 0..n : /\ w[j] \in 1..(M + 2) /\ (j = 0 => w[j] = 2)
                      /\ (j # 0 => w[j] = After(got)[w[j - 1]])
  BY <1>1, WalkWalks
<1>6. \A k \in 1..(M + 2) : k >= M => After(got)[k] = M + 2
  BY <1>1, AfterRange
<1>7. ASSUME NEW j \in 1..n PROVE w[j - 1] < M /\ w[j] <= M + 1
  <2> DEFINE Out == {i \in 0..n : i >= j => w[i] = M + 2}
             Past == w[j - 1] >= M \/ w[j] = M + 2
  <2> HIDE DEF n, M, w
  <2>0. j - 1 \in 0..n /\ j \in 0..n /\ j # 0
    BY <1>1
  <2>1. ASSUME w[j] = M + 2 PROVE FALSE
    <3>1. 0 \in Out
      BY <1>1
    <3>2. \A i \in 0..(n - 1) : i \in Out => i + 1 \in Out
      <4> TAKE i \in 0..(n - 1)
      <4>1. HAVE i \in Out
      <4>2. i + 1 \in 0..n /\ (i + 1) - 1 = i /\ i + 1 # 0 /\ i \in 0..n
        BY <1>1
      <4>3. CASE i + 1 = j
        BY <4>2, <4>3, <2>1
      <4>4. CASE i >= j
        <5>1. w[i] = M + 2 /\ M + 2 \in 1..(M + 2) /\ M + 2 >= M
          BY <4>1, <4>4, <1>1
        <5>2. w[i + 1] = After(got)[w[i]]
          <6> DEFINE ii == i + 1
          <6>1. ii \in 0..n /\ ii # 0 /\ ii - 1 = i
            BY <4>2
          <6> HIDE DEF ii
          <6>2. w[ii] = After(got)[w[ii - 1]]
            BY <6>1, <1>5
          <6>3. QED  BY <6>1, <6>2 DEF ii
        <5>3. w[i + 1] = M + 2
          BY <5>1, <5>2, <1>6
        <5>4. QED  BY <4>2, <5>3
      <4>5. CASE ~(i + 1 >= j)
        BY <4>2, <4>5
      <4>6. i + 1 = j \/ i >= j \/ ~(i + 1 >= j)
        BY <4>2, <1>1
      <4>7. QED  BY <4>3, <4>4, <4>5, <4>6
    <3>3. 0..n \subseteq Out
      <4> HIDE DEF Out
      <4>1. QED  BY <1>1, <3>1, <3>2, UpTo
    <3>4. n \in Out
      <4> HIDE DEF Out
      <4>1. QED  BY <3>3, <1>1
    <3>5. w[n] = M + 2
      BY <3>4, <1>1
    <3>6. QED  BY <3>5, <1>4, <1>1
  <2>2. w[j] = After(got)[w[j - 1]] /\ w[j - 1] \in 1..(M + 2) /\ w[j] \in 1..(M + 2)
    BY <2>0, <1>5
  <2>3. ~(w[j - 1] >= M)
    BY <2>1, <2>2, <1>6
  <2>4. QED  BY <2>1, <2>2, <2>3, <1>1
<1> DEFINE T == {j \in 0..n : j < n => w[j] = 2 + off[j]}
<1>8. ASSUME NEW i \in 1..n, w[i - 1] = 2 + off[i - 1]
      PROVE  ParamAt(got, w[i - 1]) = pack[i] /\ (w[i] <= M => w[i] = 2 + off[i])
  <2>1. i \in 0..n /\ i # 0
    BY <1>1
  <2>2. w[i] = After(got)[w[i - 1]]
    <3> HIDE DEF w
    <3>1. QED  BY <2>1, <1>5
  <2> HIDE DEF w, body
  <2>3. 2 + off[i - 1] < Len(got) /\ After(got)[2 + off[i - 1]] <= Len(got) + 1
    BY <1>7, <1>8, <2>2
  <2>4. /\ ParamAt(got, 2 + off[i - 1]) = pack[i]
        /\ After(got)[2 + off[i - 1]] <= Len(got) => After(got)[2 + off[i - 1]] = 2 + off[i]
    BY <2>3, <1>2, ReadsOne DEF body
  <2>5. QED  BY <2>4, <2>2, <1>8
<1>9. 0..n \subseteq T
  <2> HIDE DEF n, w, M
  <2>1. 0 \in T
    <3>1. off[0] = 0
      BY <1>2 DEF Laid
    <3>2. w[0] = 2
      BY <1>1, <1>5
    <3>3. QED  BY <3>1, <3>2, <1>1
  <2>2. \A j \in 0..(n - 1) : j \in T => j + 1 \in T
    <3> TAKE j \in 0..(n - 1)
    <3>1. HAVE j \in T
    <3> DEFINE i == j + 1
    <3>2. i \in 1..n /\ i \in 0..n /\ i - 1 = j /\ j < n
      BY <1>1
    <3>3. i < n => i + 1 \in 1..n /\ (i + 1) - 1 = i
      BY <1>1
    <3>4. w[j] = 2 + off[j]
      BY <3>1, <3>2
    <3> HIDE DEF i
    <3>5. w[i] <= M => w[i] = 2 + off[i]
      BY <3>2, <3>4, <1>8
    <3>6. ASSUME i < n PROVE w[i] = 2 + off[i]
      <4> DEFINE l == i + 1
      <4>1. l \in 1..n /\ l - 1 = i
        BY <3>3, <3>6
      <4> HIDE DEF l
      <4>2. w[i] < M
        BY <4>1, <1>7
      <4>3. w[i] \in 1..(M + 2)
        BY <3>2, <1>5
      <4>4. QED  BY <4>2, <4>3, <3>5, <1>1
    <3>7. i \in T
      BY <3>6, <3>2
    <3>8. QED  BY <3>7 DEF i
  <2> HIDE DEF T
  <2>3. QED  BY <1>1, <2>1, <2>2, UpTo
<1>10. ASSUME NEW i \in 1..n PROVE ParamAt(got, w[i - 1]) = pack[i]
  <2> HIDE DEF w
  <2>1. i - 1 \in 0..n /\ i - 1 < n
    BY <1>1
  <2> HIDE DEF n
  <2>2. i - 1 \in T
    <3> HIDE DEF T
    <3>1. QED  BY <2>1, <1>9
  <2>3. w[i - 1] = 2 + off[i - 1]
    BY <2>1, <2>2
  <2>4. QED  BY <2>3, <1>8
<1>11. Unpack(got) = [j \in 1..n |-> ParamAt(got, w[j - 1])]
  <2> DEFINE m == Head(got).val
  <2>1. Unpack(got) = [j \in 1..m |-> ParamAt(got, Walk(got, m)[j - 1])]
    BY DEF Unpack
  <2>2. m = n
    BY <1>3
  <2> HIDE DEF m, n
  <2>3. QED  BY <2>1, <2>2
<1>12. Unpack(got) = [j \in 1..n |-> pack[j]]
  <2> HIDE DEF w, n
  <2>1. QED  BY <1>10, <1>11
<1>13. pack = [j \in 1..n |-> pack[j]]
  BY <1>1
<1>14. QED  BY <1>12, <1>13

\* A pack without an empty value is sent whole, and read.
LEMMA SolidParam ==
  ASSUME NEW p \in Param, p.val # Empty
  PROVE  ParamFields(p) \in Seq(Solid)
<1> DEFINE s == ParamFields(p)
<1>1. s \in Seq(Field)
  BY FieldsOfParam
<1>2. LengthOf(p.val) # 0
  BY DataLengthAssumption DEF LengthOf
<1>3. \A i \in 1..Len(s) : s[i].len # 0
  <2>1. CASE p.type = "int32"
    <3>1. Len(s) = 2 /\ s[1] = Type("int32") /\ s[2] = Number(p.val)
      BY <2>1, FieldsOfParam
    <3> HIDE DEF s
    <3>2. s[1].len = 4 /\ s[2].len = 4
      BY <3>1 DEF Type, Number
    <3>3. QED  BY <3>1, <3>2
  <2>2. CASE p.type # "int32"
    <3>1. /\ Len(s) = 3 /\ s[1] = Type("buffer")
          /\ s[2] = Number(LengthOf(p.val)) /\ s[3] = Data(p.val)
      BY <2>2, FieldsOfParam
    <3> HIDE DEF s
    <3>2. s[1].len = 4 /\ s[2].len = 4 /\ s[3].len = LengthOf(p.val)
      BY <3>1 DEF Type, Number, Data
    <3>3. QED  BY <3>1, <3>2, <1>2
  <2>3. QED  BY <2>1, <2>2
<1> HIDE DEF s
<1>4. Len(s) \in Nat /\ \A i \in 1..Len(s) : s[i] \in Solid
  BY <1>1, <1>3, ElementOfSeq DEF Solid
<1>5. s = [i \in 1..Len(s) |-> s[i]]
  BY <1>1
<1>6. [i \in 1..Len(s) |-> s[i]] \in Seq(Solid)
  BY <1>4, IsASeq
<1>7. QED  BY <1>5, <1>6 DEF s

LEMMA SolidNumber ==
  ASSUME NEW v \in Said
  PROVE  Number(v) \in Solid
<1>1. Number(v) \in Field
  BY DEF Number, Field
<1>2. Number(v).len = 4
  BY DEF Number
<1>3. QED  BY <1>1, <1>2 DEF Solid

LEMMA SolidBody ==
  ASSUME NEW pack \in Seq(Param), pack # <<>>, Full(pack)
  PROVE  Body(pack) \in Seq(Solid)
<1> DEFINE N == Len(pack)
           seqs == [n \in DOMAIN pack |-> ParamFields(pack[n])]
           flat == FlattenSeq(seqs)
<1>1. N \in Nat \ {0} /\ DOMAIN pack = 1..N /\ \A j \in 1..N : pack[j] \in Param
  <2>1. N \in Nat /\ N # 0
    BY EmptySeq
  <2>2. QED  BY <2>1, ElementOfSeq
<1>2. seqs = [n \in 1..N |-> ParamFields(pack[n])]
  BY <1>1
<1>3. \A n \in 1..N : ParamFields(pack[n]) \in Seq(Solid)
  BY <1>1, SolidParam DEF Full
<1>4. seqs \in Seq(Seq(Solid))
  <2>1. [n \in 1..N |-> ParamFields(pack[n])] \in Seq(Seq(Solid))
    BY <1>1, <1>3, IsASeq
  <2>2. QED  BY <2>1, <1>2
<1>5. seqs # <<>>
  <2>1. DOMAIN seqs = 1..N
    BY <1>2
  <2>2. 1 \in DOMAIN seqs
    BY <2>1, <1>1
  <2> HIDE DEF seqs
  <2>3. QED  BY <2>2
<1>6. flat \in Seq(Solid)
  <2> HIDE DEF seqs
  <2>1. QED  BY <1>4, <1>5, FlattenPlaces
<1>7. Number(N) \in Solid
  <2>1. N \in Said
    BY <1>1 DEF Said
  <2>2. QED  BY <2>1, SolidNumber
<1> DEFINE one == Number(N)  body == Body(pack)
<1>8. body = <<one>> \o flat
  BY DEF Body
<1>9. one \in Solid
  BY <1>7
<1> HIDE DEF one, flat, body
<1>10. body \in Seq(Solid)
  BY <1>6, <1>8, <1>9, FirstAndRest
<1>11. QED  BY <1>10 DEF body

LEMMA ReadsAll ==
  ASSUME NEW pack \in Seq(Param), pack # <<>>, Packs(pack), Full(pack)
  PROVE  Readable(Body(pack))
<1> DEFINE n == Len(pack)  body == Body(pack)  M == Len(body)  w == Walk(body, n)
<1>1. /\ body \in Seq(Field) /\ body \in Seq(Solid) /\ M \in Nat \ {0} /\ n \in Nat \ {0}
      /\ body[1] = Number(n)
  <2>1. n \in Nat \ {0}
    BY EmptySeq
  <2>2. QED  BY <2>1, SolidBody, BodyLaid
<1>2. PICK off : Laid(off, pack, body)
  BY BodyLaid
<1>3. body # <<>> /\ Head(body).val = n /\ Head(body).kind = "number"
  <2> HIDE DEF body, n
  <2>1. body # <<>> /\ Head(body) = Number(n)
    BY <1>1
  <2>2. QED  BY <2>1 DEF Number
<1>4. \A j \in 0..n : (j = 0 => w[j] = 2) /\ (j # 0 => w[j] = After(body)[w[j - 1]])
  <2> HIDE DEF body, n
  <2>1. QED  BY <1>1, WalkWalks
<1>5. /\ off \in [0..n -> Nat] /\ off[0] = 0 /\ off[n] + 1 = M
      /\ \A j \in 1..n : /\ off[j] + 1 <= M
                         /\ off[j] = off[j - 1] + 2 \/ off[j] = off[j - 1] + 3
  <2> HIDE DEF body
  <2>1. QED  BY <1>2 DEF Laid
<1>6. ASSUME NEW i \in 1..n PROVE After(body)[2 + off[i - 1]] = 2 + off[i]
  <2> DEFINE k == 2 + off[i - 1]  p == pack[i]
  <2>1. off[i - 1] \in Nat /\ off[i] \in Nat
    <3> HIDE DEF n, M
    <3>1. i - 1 \in 0..n /\ i \in 0..n
      BY <1>1
    <3>2. QED  BY <3>1, <1>5
  <2>2. k \in 1..(M + 2) /\ k < M /\ k + 1 = 3 + off[i - 1] /\ k \in Nat
    <3> DEFINE x == off[i - 1]  y == off[i]
    <3> HIDE DEF n, M
    <3>1. x \in Nat /\ y \in Nat /\ y + 1 <= M /\ (y = x + 2 \/ y = x + 3) /\ M \in Nat
      BY <2>1, <1>5, <1>1
    <3> HIDE DEF x, y
    <3>2. 2 + x \in 1..(M + 2) /\ 2 + x < M /\ (2 + x) + 1 = 3 + x /\ 2 + x \in Nat
      BY <3>1
    <3>3. QED  BY <3>2 DEF x
  <2>3. body[k].kind = "type" =>
          After(body)[k] = IF body[k].val = "int32" \/ body[k + 1].val = 0 THEN k + 2 ELSE k + 3
    <3> HIDE DEF k, body
    <3>1. QED  BY <1>1, <2>2, AfterRange DEF M
  <2>4. CASE p.type = "int32"
    <3>1. off[i] = off[i - 1] + 2 /\ body[k] = Type("int32")
      <4> HIDE DEF body
      <4>1. QED  BY <1>2, <2>4 DEF Laid
    <3>2. body[k].kind = "type" /\ body[k].val = "int32"
      <4> HIDE DEF k, body
      <4>1. QED  BY <3>1 DEF Type
    <3>3. After(body)[k] = k + 2
      <4> HIDE DEF k, body
      <4>1. QED  BY <3>2, <2>3
    <3>4. QED  BY <3>1, <3>3, <2>1
  <2>5. CASE p.type # "int32"
    <3>1. /\ off[i] = off[i - 1] + 3 /\ body[k] = Type("buffer")
          /\ body[3 + off[i - 1]] = Number(LengthOf(p.val))
      <4> HIDE DEF body
      <4>1. QED  BY <1>2, <2>5 DEF Laid
    <3>2. LengthOf(p.val) # 0
      BY DataLengthAssumption DEF LengthOf, Full
    <3>3. body[k].kind = "type" /\ body[k].val = "buffer" /\ body[k + 1].val = LengthOf(p.val)
      <4> HIDE DEF k, body, p
      <4>1. body[k + 1] = Number(LengthOf(p.val))
        BY <3>1, <2>2
      <4>2. QED  BY <3>1, <4>1 DEF Type, Number
    <3>4. body[k].val # "int32" /\ body[k + 1].val # 0
      BY <3>2, <3>3
    <3>5. After(body)[k] = k + 3
      <4> HIDE DEF k, body
      <4>1. QED  BY <3>3, <3>4, <2>3
    <3>6. QED  BY <3>1, <3>5, <2>1
  <2>6. QED  BY <2>4, <2>5
<1> DEFINE T == {j \in 0..n : w[j] = 2 + off[j]}
<1>7. 0..n \subseteq T
  <2> HIDE DEF n, w, M, body
  <2>1. 0 \in T
    BY <1>1, <1>4, <1>5
  <2>2. \A j \in 0..(n - 1) : j \in T => j + 1 \in T
    <3> TAKE j \in 0..(n - 1)
    <3>1. HAVE j \in T
    <3> DEFINE i == j + 1
    <3>2. i \in 1..n /\ i \in 0..n /\ i - 1 = j /\ i # 0
      BY <1>1
    <3> HIDE DEF i
    <3>3. w[i] = After(body)[w[j]]
      BY <3>2, <1>4
    <3>4. w[i] = 2 + off[i]
      BY <3>1, <3>2, <3>3, <1>6
    <3>5. i \in T
      BY <3>2, <3>4
    <3>6. QED  BY <3>5 DEF i
  <2> HIDE DEF T
  <2>3. QED  BY <1>1, <2>1, <2>2, UpTo
<1>8. w[n] = M + 1
  <2> HIDE DEF n, w, M, body
  <2>1. n \in T
    <3> HIDE DEF T
    <3>1. QED  BY <1>7, <1>1
  <2>2. off[n] \in Nat
    BY <1>1, <1>5
  <2>3. QED  BY <2>1, <2>2, <1>5, <1>1
<1>9. Checked(body, Head(body).val)
  <2>1. w[n] <= M + 1
    <3> HIDE DEF w, M, n
    <3>1. QED  BY <1>8, <1>1
  <2>2. Checked(body, n)
    BY <2>1 DEF Checked
  <2> HIDE DEF n, body
  <2>3. QED  BY <2>2, <1>3
<1>10. Head(body).val <= MaxParams
  <2> HIDE DEF body
  <2>1. QED  BY <1>3 DEF Packs
<1>11. QED  BY <1>3, <1>9, <1>10 DEF Readable

\* What is sent of fields of which some may be empty.
LEMMA SentIs ==
  ASSUME NEW s \in Seq(Field)
  PROVE  \E m \in 0..Len(s) :
           /\ Sent(s) = SubSeq(s, 1, m) /\ \A i \in 1..m : s[i] \in Solid
           /\ m = Len(s) \/ s[m + 1].len = 0
<1> DEFINE Z == {k \in DOMAIN s : s[k].len = 0}
<1>1. Len(s) \in Nat /\ DOMAIN s = 1..Len(s) /\ \A i \in 1..Len(s) : s[i] \in Field
  BY ElementOfSeq
<1>2. CASE Z = {}
  <2>1. Sent(s) = s
    BY <1>2 DEF Sent
  <2>2. SubSeq(s, 1, Len(s)) = s
    BY SubSeqFull
  <2>3. \A i \in 1..Len(s) : s[i] \in Solid
    BY <1>1, <1>2 DEF Solid
  <2> DEFINE m == Len(s)
  <2>4. m \in 0..Len(s) /\ Sent(s) = SubSeq(s, 1, m) /\ m = Len(s) /\ \A i \in 1..m : s[i] \in Solid
    BY <1>1, <2>1, <2>2, <2>3
  <2> HIDE DEF m, Z
  <2>5. QED  BY <2>4
<1>3. CASE Z # {}
  <2> DEFINE z == Min(Z)
  <2>1. Z \in SUBSET Nat
    BY <1>1
  <2>2. z \in Z /\ \A k \in Z : z <= k
    <3>1. \E x \in Z : \A y \in Z : x <= y
      <4> HIDE DEF Z
      <4>1. QED  BY <2>1, <1>3, Least
    <3> HIDE DEF Z
    <3>2. QED  BY <3>1 DEF Min
  <2>3. Sent(s) = SubSeq(s, 1, z - 1)
    BY <1>3 DEF Sent
  <2> HIDE DEF z
  <2>4. z - 1 \in 0..Len(s) /\ (z - 1) + 1 = z /\ s[z].len = 0
    BY <1>1, <2>2
  <2>5. \A i \in 1..(z - 1) : s[i] \in Solid
    <3> TAKE i \in 1..(z - 1)
    <3>1. i \in 1..Len(s) /\ i \notin Z
      BY <1>1, <2>2
    <3>2. QED  BY <3>1, <1>1 DEF Solid
  <2> DEFINE m == z - 1
  <2>6. m \in 0..Len(s) /\ Sent(s) = SubSeq(s, 1, m) /\ s[m + 1].len = 0 /\ \A i \in 1..m : s[i] \in Solid
    BY <2>3, <2>4, <2>5
  <2> HIDE DEF m
  <2>7. QED  BY <2>6
<1>4. QED  BY <1>2, <1>3

LEMMA SentBegins ==
  ASSUME NEW s \in Seq(Field)
  PROVE  /\ Begins(Sent(s), s) /\ (s \in Seq(Solid) => Sent(s) = s)
         /\ s # <<>> /\ s[1] \in Solid => Sent(s) # <<>>
<1>1. PICK m \in 0..Len(s) :
        /\ Sent(s) = SubSeq(s, 1, m) /\ \A i \in 1..m : s[i] \in Solid
        /\ m = Len(s) \/ s[m + 1].len = 0
  BY SentIs
<1>2. Len(s) \in Nat /\ m \in Nat /\ m <= Len(s) /\ 1 \in Int /\ m \in Int
  OBVIOUS
<1> DEFINE t == SubSeq(s, 1, m)
<1>3. t \in Seq(Solid) /\ Len(t) = m /\ \A i \in 1..m : t[i] = s[i]
  <2>1. /\ t \in Seq(Solid) /\ Len(t) = (IF 1 <= m THEN m - 1 + 1 ELSE 0)
        /\ \A i \in 1..(m - 1 + 1) : t[i] = s[1 + i - 1]
    BY <1>1, <1>2, SubSeqProperties
  <2> HIDE DEF t
  <2>2. Len(t) = m
    BY <2>1, <1>2
  <2>3. \A i \in 1..m : i \in 1..(m - 1 + 1) /\ 1 + i - 1 = i
    BY <1>2
  <2>4. QED  BY <2>1, <2>2, <2>3
<1>4. Begins(Sent(s), s)
  <2> HIDE DEF t
  <2>1. Begins(t, s)
    BY <1>2, <1>3 DEF Begins
  <2>2. QED  BY <2>1, <1>1 DEF t
<1>5. ASSUME s \in Seq(Solid) PROVE Sent(s) = s
  <2>1. m = Len(s)
    <3>1. SUFFICES ASSUME m # Len(s) PROVE FALSE
      OBVIOUS
    <3>2. m + 1 \in 1..Len(s) /\ s[m + 1].len = 0
      BY <3>1, <1>1, <1>2
    <3>3. s[m + 1] \in Solid
      BY <3>2, <1>5, ElementOfSeq
    <3>4. QED  BY <3>2, <3>3 DEF Solid
  <2>2. QED  BY <2>1, <1>1, SubSeqFull
<1>6. ASSUME s # <<>>, s[1] \in Solid PROVE Sent(s) # <<>>
  <2>1. Len(s) # 0
    BY <1>6, EmptySeq
  <2>2. m # 0
    <3>1. SUFFICES ASSUME m = 0 PROVE FALSE
      OBVIOUS
    <3>2. s[1].len = 0
      BY <3>1, <2>1, <1>1
    <3>3. QED  BY <3>2, <1>6 DEF Solid
  <2> HIDE DEF t
  <2>3. t # <<>>
    BY <2>2, <1>3
  <2>4. QED  BY <2>3, <1>1 DEF t
<1>7. QED  BY <1>4, <1>5, <1>6

LEMMA SentAfterFirst ==
  ASSUME NEW e \in Solid, NEW r \in Seq(Field)
  PROVE  Sent(<<e>> \o r) = <<e>> \o Sent(r)
<1> DEFINE s == <<e>> \o r  u == Sent(r)  v == <<e>> \o u
<1>0. e \in Field
  BY DEF Solid
<1>1. /\ s \in Seq(Field) /\ Len(s) = Len(r) + 1 /\ s[1] = e
      /\ \A i \in 1..Len(r) : s[i + 1] = r[i]
  BY <1>0, FirstAndRest
<1>2. PICK m \in 0..Len(r) :
        /\ u = SubSeq(r, 1, m) /\ \A i \in 1..m : r[i] \in Solid
        /\ m = Len(r) \/ r[m + 1].len = 0
  BY SentIs
<1>3. Begins(u, r)
  BY SentBegins
<1> HIDE DEF s
<1>4. PICK l \in 0..Len(s) :
        /\ Sent(s) = SubSeq(s, 1, l) /\ \A i \in 1..l : s[i] \in Solid
        /\ l = Len(s) \/ s[l + 1].len = 0
  BY <1>1, SentIs
<1>5. Len(r) \in Nat /\ m \in Nat /\ l \in Nat /\ Len(s) \in Nat /\ m <= Len(r) /\ l <= Len(s)
  BY <1>1
<1>6. l = m + 1
  <2>1. ASSUME l < m + 1 PROVE FALSE
    <3>1. l # Len(s) /\ s[l + 1].len = 0
      BY <2>1, <1>1, <1>4, <1>5
    <3>2. CASE l = 0
      BY <3>1, <3>2, <1>1 DEF Solid
    <3>3. CASE l # 0
      <4>1. l \in 1..m /\ l \in 1..Len(r)
        BY <2>1, <3>3, <1>5
      <4>2. s[l + 1] = r[l] /\ r[l] \in Solid
        BY <4>1, <1>1, <1>2
      <4>3. QED  BY <4>2, <3>1 DEF Solid
    <3>4. QED  BY <3>2, <3>3
  <2>2. ASSUME l > m + 1 PROVE FALSE
    <3>1. m # Len(r) /\ m + 1 \in 1..Len(r) /\ m + 2 \in 1..l /\ (m + 1) + 1 = m + 2
      BY <2>2, <1>1, <1>5
    <3>2. r[m + 1].len = 0
      BY <3>1, <1>2
    <3>3. s[m + 2] = r[m + 1]
      <4>1. s[(m + 1) + 1] = r[m + 1]
        BY <3>1, <1>1
      <4>2. QED  BY <3>1, <4>1
    <3>4. s[m + 2] \in Solid
      BY <3>1, <1>4
    <3>5. QED  BY <3>2, <3>3, <3>4 DEF Solid
  <2>3. QED  BY <2>1, <2>2, <1>5
<1> DEFINE t == SubSeq(s, 1, l)
<1>7. t \in Seq(Field) /\ Len(t) = l /\ \A i \in 1..l : t[i] = s[i]
  <2>0. \A i \in 1..l : s[i] \in Field
    BY <1>4 DEF Solid
  <2>1. /\ t \in Seq(Field) /\ Len(t) = (IF 1 <= l THEN l - 1 + 1 ELSE 0)
        /\ \A i \in 1..(l - 1 + 1) : t[i] = s[1 + i - 1]
    BY <2>0, <1>5, SubSeqProperties
  <2> HIDE DEF t
  <2>2. Len(t) = l
    BY <2>1, <1>5
  <2>3. \A i \in 1..l : i \in 1..(l - 1 + 1) /\ 1 + i - 1 = i
    BY <1>5
  <2>4. QED  BY <2>1, <2>2, <2>3
<1>8. u \in Seq(Field) /\ Len(u) = m /\ \A i \in 1..m : u[i] = r[i]
  <2>0. \A i \in 1..m : r[i] \in Field
    BY <1>2 DEF Solid
  <2> DEFINE x == SubSeq(r, 1, m)
  <2>1. /\ x \in Seq(Field) /\ Len(x) = (IF 1 <= m THEN m - 1 + 1 ELSE 0)
        /\ \A i \in 1..(m - 1 + 1) : x[i] = r[1 + i - 1]
    BY <2>0, <1>5, SubSeqProperties
  <2> HIDE DEF x, u
  <2>2. Len(x) = m
    BY <2>1, <1>5
  <2>3. \A i \in 1..m : i \in 1..(m - 1 + 1) /\ 1 + i - 1 = i
    BY <1>5
  <2>4. x \in Seq(Field) /\ Len(x) = m /\ \A i \in 1..m : x[i] = r[i]
    BY <2>1, <2>2, <2>3
  <2>5. u = x
    BY <1>2 DEF x
  <2>6. QED  BY <2>4, <2>5
<1> HIDE DEF u
<1>9. /\ v \in Seq(Field) /\ Len(v) = Len(u) + 1 /\ v[1] = e
      /\ \A i \in 1..Len(u) : v[i + 1] = u[i]
  BY <1>0, <1>8, FirstAndRest
<1> HIDE DEF t, v
<1>10. \A i \in 1..l : t[i] = v[i]
  <2> TAKE i \in 1..l
  <2>1. CASE i = 1
    BY <2>1, <1>7, <1>9, <1>1
  <2>2. CASE i # 1
    <3> DEFINE j == i - 1
    <3>1. j \in 1..m /\ j \in 1..Len(r) /\ j + 1 = i
      BY <2>2, <1>5, <1>6
    <3> HIDE DEF j
    <3>2. s[j + 1] = r[j] /\ v[j + 1] = u[j] /\ u[j] = r[j]
      BY <3>1, <1>1, <1>8, <1>9
    <3>3. QED  BY <3>1, <3>2, <1>7
  <2>3. QED  BY <2>1, <2>2
<1>11. t = v
  <2>1. Len(v) = l
    BY <1>6, <1>8, <1>9
  <2>2. QED  BY <2>1, <1>7, <1>9, <1>10, SeqEqual
<1>12. QED  BY <1>4, <1>11 DEF t, s, u, v

-----------------------------------------------------------------------------
\* The table of functions.

Entry == [key : Names, val : Names]

LEMMA RankOrders ==
  /\ \A k \in Names : Rank(k) \in Nat
  /\ \A k, l \in Names : Rank(k) = Rank(l) => k = l
<1>1. ASSUME NEW k \in Names PROVE Rank(k) \in Nat /\ Order[Rank(k)] = k
  <2>1. DOMAIN Order = 1..Len(Order) /\ Len(Order) \in Nat
    BY OrderAssumption
  <2>2. \E n \in DOMAIN Order : Order[n] = k
    BY NamesAssumption DEF ToSet
  <2>3. Rank(k) \in DOMAIN Order /\ Order[Rank(k)] = k
    BY <2>2 DEF Rank
  <2>4. QED  BY <2>1, <2>3
<1>2. QED  BY <1>1

LEMMA PassedIs ==
  ASSUME NEW chain \in Seq(Entry), NEW key \in Names
  PROVE  LET n == Passed(chain, key) IN
         /\ n \in 0..Len(chain)
         /\ \A m \in 1..n : Rank(chain[m].key) < Rank(key)
         /\ n = Len(chain) \/ Rank(chain[n + 1].key) >= Rank(key)
<1> DEFINE T == {n \in 0..Len(chain) : n = Len(chain) \/ Rank(chain[n + 1].key) >= Rank(key)}
<1>1. Len(chain) \in Nat /\ \A i \in 1..Len(chain) : chain[i].key \in Names
  <2>1. \A i \in 1..Len(chain) : chain[i] \in Entry
    BY ElementOfSeq
  <2>2. QED  BY <2>1 DEF Entry
<1>2. PICK n \in T : \A m \in T : n <= m
  <2>1. T \in SUBSET Nat /\ Len(chain) \in T
    BY <1>1
  <2> HIDE DEF T
  <2>2. QED  BY <2>1, Least
<1>3. \A m \in 1..n : Rank(chain[m].key) < Rank(key)
  <2> TAKE m \in 1..n
  <2>0. n \in 0..Len(chain)
    BY <1>2
  <2> DEFINE l == m - 1
  <2>3. l \in 0..Len(chain) /\ l # Len(chain) /\ l + 1 = m /\ m \in 1..Len(chain) /\ ~(n <= l)
    BY <2>0, <1>1
  <2>4. l \notin T
    <3> HIDE DEF T, l
    <3>1. QED  BY <2>3, <1>2
  <2>1. m \in 1..Len(chain) /\ ~(Rank(chain[l + 1].key) >= Rank(key)) /\ l + 1 = m
    <3> HIDE DEF l
    <3>1. QED  BY <2>3, <2>4
  <2>2. ~(Rank(chain[m].key) >= Rank(key))
    <3> HIDE DEF l
    <3>1. QED  BY <2>1
  <2>5. Rank(chain[m].key) \in Nat /\ Rank(key) \in Nat
    BY <2>1, <1>1, RankOrders
  <2>6. QED  BY <2>2, <2>5
<1>4. \E l \in 0..Len(chain) :
        /\ \A m \in 1..l : Rank(chain[m].key) < Rank(key)
        /\ l = Len(chain) \/ Rank(chain[l + 1].key) >= Rank(key)
  BY <1>2, <1>3
<1>5. QED  BY <1>4 DEF Passed

\* A chain in the order of memcmp, of entries whose value is their key.
Sorted(chain) ==
    /\ chain \in Seq(Entry) /\ \A i \in 1..Len(chain) : chain[i].val = chain[i].key
    /\ \A i, j \in 1..Len(chain) : i < j => Rank(chain[i].key) < Rank(chain[j].key)
Has(chain, key) == \E i \in 1..Len(chain) : chain[i].key = key

Good(t, h, K) ==
    /\ DOMAIN t = {h[f] : f \in Names}
    /\ \A key \in Names : Sorted(t[h[key]]) /\ (Has(t[h[key]], key) <=> key \in K)

\* The search stops at the key, if the chain has it.
LEMMA SearchFinds ==
  ASSUME NEW chain, Sorted(chain), NEW key \in Names
  PROVE  LET n == Passed(chain, key) + 1 IN
         /\ n \in Nat \ {0}
         /\ Has(chain, key) <=> n <= Len(chain) /\ chain[n].key = key
<1> DEFINE p == Passed(chain, key)
<1>1. chain \in Seq(Entry) /\ Len(chain) \in Nat
  BY DEF Sorted
<1>2. /\ p \in 0..Len(chain)
      /\ \A m \in 1..p : Rank(chain[m].key) < Rank(key)
      /\ p = Len(chain) \/ Rank(chain[p + 1].key) >= Rank(key)
  BY <1>1, PassedIs
<1>3. \A i \in 1..Len(chain) : chain[i].key \in Names /\ Rank(chain[i].key) \in Nat
  <2>1. \A i \in 1..Len(chain) : chain[i] \in Entry
    BY <1>1, ElementOfSeq
  <2>2. \A i \in 1..Len(chain) : chain[i].key \in Names
    BY <2>1 DEF Entry
  <2>3. QED  BY <2>2, RankOrders
<1> HIDE DEF p
<1>4. ASSUME NEW i \in 1..Len(chain), chain[i].key = key PROVE i = p + 1
  <2>0. Rank(chain[i].key) = Rank(key) /\ Rank(key) \in Nat
    BY <1>4, RankOrders
  <2>1. ~(i \in 1..p)
    BY <2>0, <1>2, <1>3
  <2>2. ~(i > p + 1)
    <3>1. SUFFICES ASSUME i > p + 1 PROVE FALSE
      OBVIOUS
    <3>2. p + 1 \in 1..Len(chain) /\ p # Len(chain)
      BY <3>1, <1>1, <1>2
    <3>3. Rank(chain[p + 1].key) < Rank(chain[i].key)
      BY <3>1, <3>2 DEF Sorted
    <3>4. Rank(chain[p + 1].key) >= Rank(key) /\ Rank(chain[p + 1].key) \in Nat
      BY <3>2, <1>2, <1>3
    <3>5. QED  BY <3>3, <3>4, <2>0
  <2>3. QED  BY <2>1, <2>2, <1>1, <1>2
<1>5. p + 1 \in Nat \ {0} /\ (p + 1 <= Len(chain) => p + 1 \in 1..Len(chain))
  BY <1>1, <1>2
<1>6. Has(chain, key) => p + 1 <= Len(chain) /\ chain[p + 1].key = key
  <2>1. HAVE Has(chain, key)
  <2>2. PICK i \in 1..Len(chain) : chain[i].key = key
    BY <2>1 DEF Has
  <2>3. i = p + 1
    BY <2>2, <1>4
  <2>4. QED  BY <2>2, <2>3, <1>1
<1>7. p + 1 <= Len(chain) /\ chain[p + 1].key = key => Has(chain, key)
  BY <1>5 DEF Has
<1>8. QED  BY <1>5, <1>6, <1>7 DEF p

LEMMA TableGetIs ==
  ASSUME NEW t, NEW h, NEW K, Good(t, h, K), NEW key \in Names
  PROVE  TableGet(t, h, key) = IF key \in K THEN key ELSE NoEntry
<1> DEFINE chain == t[h[key]]  n == Passed(chain, key) + 1
<1>1. Sorted(chain) /\ (Has(chain, key) <=> key \in K)
  BY DEF Good
<1> HIDE DEF chain
<1>2. n \in Nat \ {0} /\ (Has(chain, key) <=> n <= Len(chain) /\ chain[n].key = key)
  BY <1>1, SearchFinds
<1>3. TableGet(t, h, key) = IF n <= Len(chain) /\ chain[n].key = key THEN chain[n].val ELSE NoEntry
  BY DEF TableGet, chain
<1> HIDE DEF n
<1>4. CASE key \in K
  <2>1. n <= Len(chain) /\ chain[n].key = key
    BY <1>1, <1>2, <1>4
  <2>2. n \in 1..Len(chain)
    <3>1. PICK i \in 1..Len(chain) : chain[i].key = key
      BY <1>1, <1>4 DEF Has
    <3>2. Len(chain) \in Nat
      BY <1>1 DEF Sorted
    <3>3. QED  BY <2>1, <3>2, <1>2
  <2>3. chain[n].val = chain[n].key
    BY <2>2, <1>1 DEF Sorted
  <2>4. QED  BY <2>1, <2>3, <1>3, <1>4
<1>5. CASE key \notin K
  BY <1>1, <1>2, <1>3, <1>5
<1>6. QED  BY <1>4, <1>5

Inserted(t, s, p, e) ==
    /\ Len(t) = Len(s) + 1 /\ t[p + 1] = e
    /\ \A i \in 1..p : t[i] = s[i]
    /\ \A i \in (p + 1)..Len(s) : t[i + 1] = s[i]

LEMMA InsertAtIs ==
  ASSUME NEW S, NEW s \in Seq(S), NEW e \in S, NEW p \in 0..Len(s)
  PROVE  InsertAt(s, p + 1, e) \in Seq(S) /\ Inserted(InsertAt(s, p + 1, e), s, p, e)
<1> DEFINE a == SubSeq(s, 1, p)  b == SubSeq(s, p + 1, Len(s))  o == <<e>>
           ao == a \o o  t == ao \o b
<1>1. Len(s) \in Nat /\ p \in Nat /\ p <= Len(s) /\ \A i \in 1..Len(s) : s[i] \in S
  BY ElementOfSeq
<1>2. InsertAt(s, p + 1, e) = t
  <2>1. (p + 1) - 1 = p
    BY <1>1
  <2>2. QED  BY <2>1 DEF InsertAt
<1>3. a \in Seq(S) /\ Len(a) = p /\ \A i \in 1..p : a[i] = s[i]
  <2>1. \A i \in 1..p : s[i] \in S
    BY <1>1
  <2>2. /\ a \in Seq(S) /\ Len(a) = (IF 1 <= p THEN p - 1 + 1 ELSE 0)
        /\ \A i \in 1..(p - 1 + 1) : a[i] = s[1 + i - 1]
    BY <2>1, <1>1, SubSeqProperties
  <2> HIDE DEF a
  <2>3. \A i \in 1..p : i \in 1..(p - 1 + 1) /\ 1 + i - 1 = i
    BY <1>1
  <2>4. QED  BY <2>2, <2>3, <1>1
<1>4. b \in Seq(S) /\ Len(b) = Len(s) - p /\ \A i \in 1..(Len(s) - p) : b[i] = s[p + i]
  <2>1. \A i \in (p + 1)..Len(s) : s[i] \in S
    BY <1>1
  <2> DEFINE l == Len(s)  q == p + 1
  <2>0. l \in Int /\ q \in Int /\ q = p + 1
    BY <1>1
  <2>2. /\ b \in Seq(S) /\ Len(b) = (IF q <= l THEN l - q + 1 ELSE 0)
        /\ \A i \in 1..(l - q + 1) : b[i] = s[q + i - 1]
    <3> HIDE DEF l, q
    <3>1. \A i \in q..l : s[i] \in S
      BY <2>1 DEF l, q
    <3>2. /\ SubSeq(s, q, l) \in Seq(S) /\ Len(SubSeq(s, q, l)) = (IF q <= l THEN l - q + 1 ELSE 0)
          /\ \A i \in 1..(l - q + 1) : SubSeq(s, q, l)[i] = s[q + i - 1]
      BY <2>0, <3>1, SubSeqProperties
    <3>3. QED  BY <3>2 DEF l, q
  <2> HIDE DEF b
  <2>3. \A i \in 1..(Len(s) - p) : i \in 1..(l - q + 1) /\ q + i - 1 = p + i
    BY <1>1
  <2>4. Len(b) = Len(s) - p
    BY <2>2, <1>1
  <2>5. QED  BY <2>2, <2>3, <2>4
<1>5. o \in Seq(S) /\ Len(o) = 1 /\ o[1] = e
  OBVIOUS
<1> HIDE DEF a, b, o
<1>6. /\ ao \in Seq(S) /\ Len(ao) = p + 1
      /\ \A i \in 1..(p + 1) : ao[i] = IF i <= p THEN a[i] ELSE o[i - p]
  <2>1. /\ ao \in Seq(S) /\ Len(ao) = Len(a) + Len(o)
        /\ \A i \in 1..(Len(a) + Len(o)) : ao[i] = IF i <= Len(a) THEN a[i] ELSE o[i - Len(a)]
    BY <1>3, <1>5, ConcatProperties
  <2> HIDE DEF ao
  <2>2. Len(a) + Len(o) = p + 1 /\ Len(a) = p
    BY <1>3, <1>5, <1>1
  <2>3. QED  BY <2>1, <2>2
<1> HIDE DEF ao
<1>7. /\ t \in Seq(S) /\ Len(t) = Len(ao) + Len(b)
      /\ \A i \in 1..(Len(ao) + Len(b)) : t[i] = IF i <= Len(ao) THEN ao[i] ELSE b[i - Len(ao)]
  BY <1>6, <1>4, ConcatProperties
<1> HIDE DEF t
<1>8. Len(ao) + Len(b) = Len(s) + 1 /\ Len(t) = Len(s) + 1
  BY <1>7, <1>6, <1>4, <1>1
<1>9. t[p + 1] = e
  <2>1. p + 1 \in 1..(Len(ao) + Len(b)) /\ p + 1 <= Len(ao) /\ p + 1 \in 1..(p + 1) /\ ~(p + 1 <= p) /\ (p + 1) - p = 1
    BY <1>8, <1>6, <1>1
  <2>2. QED  BY <2>1, <1>5, <1>6, <1>7
<1>10. \A i \in 1..p : t[i] = s[i]
  <2> TAKE i \in 1..p
  <2>1. i \in 1..(Len(ao) + Len(b)) /\ i <= Len(ao) /\ i \in 1..(p + 1) /\ i <= p
    BY <1>8, <1>6, <1>1
  <2>2. QED  BY <2>1, <1>3, <1>6, <1>7
<1>11. \A i \in (p + 1)..Len(s) : t[i + 1] = s[i]
  <2> TAKE i \in (p + 1)..Len(s)
  <2>1. /\ i + 1 \in 1..(Len(ao) + Len(b)) /\ ~(i + 1 <= Len(ao)) /\ (i + 1) - Len(ao) = i - p
        /\ i - p \in 1..(Len(s) - p) /\ p + (i - p) = i
    BY <1>8, <1>6, <1>1
  <2> DEFINE q == i + 1  j == i - p
  <2>2. q \in 1..(Len(ao) + Len(b)) /\ ~(q <= Len(ao)) /\ q - Len(ao) = j /\ j \in 1..(Len(s) - p) /\ p + j = i
    BY <2>1
  <2> HIDE DEF q, j
  <2>3. t[q] = b[j]
    BY <2>2, <1>7
  <2>4. b[j] = s[p + j]
    BY <2>2, <1>4
  <2>5. t[q] = s[i]
    BY <2>2, <2>3, <2>4
  <2>6. QED  BY <2>5 DEF q
<1>12. Inserted(t, s, p, e)
  BY <1>8, <1>9, <1>10, <1>11 DEF Inserted
<1>13. QED  BY <1>2, <1>7, <1>12

LEMMA InsertSorts ==
  ASSUME NEW chain, Sorted(chain), NEW key \in Names, ~Has(chain, key)
  PROVE  LET s == InsertAt(chain, Passed(chain, key) + 1, [key |-> key, val |-> key]) IN
         Sorted(s) /\ \A k \in Names : Has(s, k) <=> k = key \/ Has(chain, k)
<1> DEFINE p == Passed(chain, key)  e == [key |-> key, val |-> key]  s == InsertAt(chain, p + 1, e)
           L == Len(chain)
<1>1. chain \in Seq(Entry) /\ L \in Nat /\ \A i \in 1..L : chain[i].val = chain[i].key
  BY DEF Sorted
<1>2. /\ p \in 0..L /\ \A m \in 1..p : Rank(chain[m].key) < Rank(key)
      /\ p = L \/ Rank(chain[p + 1].key) >= Rank(key)
  BY <1>1, PassedIs
<1>3. e \in Entry /\ e.key = key /\ e.val = key
  BY DEF Entry
<1> HIDE DEF p, e
<1>4. /\ s \in Seq(Entry) /\ Len(s) = L + 1 /\ s[p + 1] = e
      /\ \A i \in 1..p : s[i] = chain[i]
      /\ \A i \in (p + 1)..L : s[i + 1] = chain[i]
  <2>1. chain \in Seq(Entry) /\ p \in 0..Len(chain) /\ e \in Entry
    BY <1>1, <1>2, <1>3
  <2> DEFINE at == InsertAt(chain, p + 1, e)
  <2>2. at \in Seq(Entry) /\ Inserted(at, chain, p, e)
    BY <2>1, InsertAtIs
  <2> HIDE DEF at
  <2>3. /\ at \in Seq(Entry) /\ Len(at) = Len(chain) + 1 /\ at[p + 1] = e
        /\ \A i \in 1..p : at[i] = chain[i]
        /\ \A i \in (p + 1)..Len(chain) : at[i + 1] = chain[i]
    BY <2>2 DEF Inserted
  <2>4. QED  BY <2>3 DEF at
<1>5. \A i \in 1..L : chain[i].key \in Names /\ Rank(chain[i].key) \in Nat /\ chain[i].key # key
  <2>1. \A i \in 1..L : chain[i] \in Entry
    BY <1>1, ElementOfSeq
  <2>2. \A i \in 1..L : chain[i].key \in Names
    BY <2>1 DEF Entry
  <2>3. QED  BY <2>2, RankOrders DEF Has
<1>6. Rank(key) \in Nat
  BY RankOrders
<1>7. \A i \in (p + 1)..L : Rank(key) < Rank(chain[i].key)
  <2> TAKE i \in (p + 1)..L
  <2>1. p # L /\ p + 1 \in 1..L /\ i \in 1..L /\ (i = p + 1 \/ p + 1 < i)
    BY <1>1, <1>2
  <2>2. Rank(key) < Rank(chain[p + 1].key)
    <3>1. Rank(chain[p + 1].key) # Rank(key)
      BY <2>1, <1>5, RankOrders
    <3>2. Rank(chain[p + 1].key) >= Rank(key) /\ Rank(chain[p + 1].key) \in Nat
      BY <2>1, <1>2, <1>5
    <3>3. QED  BY <3>1, <3>2, <1>6
  <2>3. p + 1 < i => Rank(chain[p + 1].key) < Rank(chain[i].key)
    BY <2>1 DEF Sorted
  <2>4. Rank(chain[p + 1].key) \in Nat /\ Rank(chain[i].key) \in Nat
    BY <2>1, <1>5
  <2>5. QED  BY <2>1, <2>2, <2>3, <2>4, <1>6
\* Where the entries of the new chain come from.
<1>8. \A i \in 1..(L + 1) : \/ i \in 1..p /\ s[i] = chain[i]
                            \/ i = p + 1 /\ s[i] = e
                            \/ i - 1 \in (p + 1)..L /\ s[i] = chain[i - 1]
  <2> TAKE i \in 1..(L + 1)
  <2>1. i \in 1..p \/ i = p + 1 \/ i - 1 \in (p + 1)..L
    BY <1>1, <1>2
  <2>2. CASE i \in 1..p
    BY <2>2, <1>4
  <2>3. CASE i = p + 1
    BY <2>3, <1>4
  <2>4. CASE i - 1 \in (p + 1)..L
    <3> DEFINE l == i - 1
    <3>1. l \in (p + 1)..L /\ l + 1 = i
      BY <2>4, <1>2
    <3> HIDE DEF l, s
    <3>2. s[i] = chain[l]
      BY <3>1, <1>4
    <3>3. QED  BY <3>2, <2>4 DEF l
  <2> HIDE DEF s
  <2>5. QED  BY <2>1, <2>2, <2>3, <2>4
<1> HIDE DEF s, L
<1>9. \A i \in 1..(L + 1) : s[i].val = s[i].key
  <2> TAKE i \in 1..(L + 1)
  <2>1. CASE i \in 1..p /\ s[i] = chain[i]
    <3>1. i \in 1..L
      BY <2>1, <1>1, <1>2
    <3>2. QED  BY <3>1, <2>1, <1>1
  <2>2. CASE i = p + 1 /\ s[i] = e
    BY <2>2, <1>3
  <2>3. CASE i - 1 \in (p + 1)..L /\ s[i] = chain[i - 1]
    <3>1. i - 1 \in 1..L
      BY <2>3, <1>1, <1>2
    <3>2. QED  BY <3>1, <2>3, <1>1
  <2>4. QED  BY <2>1, <2>2, <2>3, <1>8
<1>10. ASSUME NEW i \in 1..(L + 1), NEW j \in 1..(L + 1), i < j
       PROVE  Rank(s[i].key) < Rank(s[j].key)
  <2>1. CASE i \in 1..p /\ s[i] = chain[i]
    <3>1. CASE j \in 1..p /\ s[j] = chain[j]
      <4>1. i \in 1..L /\ j \in 1..L
        BY <2>1, <3>1, <1>1, <1>2
      <4>2. Rank(chain[i].key) < Rank(chain[j].key)
        BY <4>1, <1>10 DEF Sorted, L
      <4>3. QED  BY <4>2, <2>1, <3>1
    <3>2. CASE j = p + 1 /\ s[j] = e
      BY <2>1, <3>2, <1>2, <1>3
    <3>3. CASE j - 1 \in (p + 1)..L /\ s[j] = chain[j - 1]
      <4>1. Rank(chain[i].key) < Rank(key) /\ Rank(key) < Rank(chain[j - 1].key)
        BY <2>1, <3>3, <1>2, <1>7
      <4>2. i \in 1..L /\ j - 1 \in 1..L
        BY <2>1, <3>3, <1>1, <1>2
      <4>3. Rank(chain[i].key) \in Nat /\ Rank(chain[j - 1].key) \in Nat
        BY <4>2, <1>5
      <4>4. Rank(chain[i].key) < Rank(chain[j - 1].key)
        BY <4>1, <4>3, <1>6
      <4>5. QED  BY <4>4, <2>1, <3>3
    <3>4. QED  BY <3>1, <3>2, <3>3, <1>8
  <2>2. CASE i = p + 1 /\ s[i] = e
    <3>1. j - 1 \in (p + 1)..L /\ s[j] = chain[j - 1]
      <4>1. ~(j \in 1..p) /\ j # p + 1
        BY <2>2, <1>10, <1>2, <1>1
      <4>2. QED  BY <4>1, <1>8
    <3>2. QED  BY <3>1, <2>2, <1>3, <1>7
  <2>3. CASE i - 1 \in (p + 1)..L /\ s[i] = chain[i - 1]
    <3>1. j - 1 \in (p + 1)..L /\ s[j] = chain[j - 1]
      <4>1. ~(j \in 1..p) /\ j # p + 1
        BY <2>3, <1>10, <1>2, <1>1
      <4>2. QED  BY <4>1, <1>8
    <3>2. i - 1 \in 1..L /\ j - 1 \in 1..L /\ i - 1 < j - 1
      BY <2>3, <3>1, <1>10, <1>1, <1>2
    <3>3. Rank(chain[i - 1].key) < Rank(chain[j - 1].key)
      BY <3>2 DEF Sorted, L
    <3>4. QED  BY <3>3, <2>3, <3>1
  <2>4. QED  BY <2>1, <2>2, <2>3, <1>8
<1>11. Sorted(s)
  BY <1>4, <1>9, <1>10 DEF Sorted
<1>12. ASSUME NEW k \in Names PROVE Has(s, k) <=> k = key \/ Has(chain, k)
  <2>1. ASSUME Has(s, k) PROVE k = key \/ Has(chain, k)
    <3>1. PICK i \in 1..(L + 1) : s[i].key = k
      BY <2>1, <1>4 DEF Has
    <3>2. CASE i \in 1..p /\ s[i] = chain[i]
      <4>1. i \in 1..L
        BY <3>2, <1>1, <1>2
      <4>2. QED  BY <4>1, <3>1, <3>2 DEF Has, L
    <3>3. CASE i = p + 1 /\ s[i] = e
      BY <3>1, <3>3, <1>3
    <3>4. CASE i - 1 \in (p + 1)..L /\ s[i] = chain[i - 1]
      <4>1. i - 1 \in 1..L
        BY <3>4, <1>1, <1>2
      <4>2. QED  BY <4>1, <3>1, <3>4 DEF Has, L
    <3>5. QED  BY <3>2, <3>3, <3>4, <1>8
  <2>2. ASSUME k = key PROVE Has(s, k)
    <3>1. p + 1 \in 1..Len(s) /\ s[p + 1].key = k
      BY <2>2, <1>1, <1>2, <1>3, <1>4
    <3>2. QED  BY <3>1 DEF Has
  <2>3. ASSUME Has(chain, k) PROVE Has(s, k)
    <3>1. PICK i \in 1..L : chain[i].key = k
      BY <2>3 DEF Has, L
    <3>2. CASE i \in 1..p
      <4>1. i \in 1..Len(s) /\ s[i].key = k
        BY <3>1, <3>2, <1>1, <1>2, <1>4
      <4>2. QED  BY <4>1 DEF Has
    <3>3. CASE i \in (p + 1)..L
      <4>1. i + 1 \in 1..Len(s) /\ s[i + 1].key = k
        BY <3>1, <3>3, <1>1, <1>2, <1>4
      <4>2. QED  BY <4>1 DEF Has
    <3>4. QED  BY <3>2, <3>3, <1>1, <1>2
  <2>4. QED  BY <2>1, <2>2, <2>3
<1>13. QED  BY <1>11, <1>12 DEF s, p, e

LEMMA TableSetIs ==
  ASSUME NEW t, NEW h, NEW K \in SUBSET Names, Good(t, h, K), NEW key \in Names
  PROVE  Good(TableSet(t, h, key, key), h, K \cup {key})
<1> DEFINE u == TableSet(t, h, key, key)  chain == t[h[key]]
           s == InsertAt(chain, Passed(chain, key) + 1, [key |-> key, val |-> key])
<1>1. TableGet(t, h, key) = IF key \in K THEN key ELSE NoEntry
  BY TableGetIs
<1>2. CASE key \in K
  <2>1. key # NoEntry
    BY DEF NoEntry, Names, Registered, KeyStoreRegistered, DataStoreRegistered, CredentialStoreRegistered, ToSet
  <2>2. u = t
    BY <1>1, <1>2, <2>1 DEF TableSet
  <2>3. K \cup {key} = K
    BY <1>2
  <2> HIDE DEF u
  <2>4. QED  BY <2>2, <2>3 DEF u
<1>3. CASE key \notin K
  <2>1. u = [t EXCEPT ![h[key]] = s]
    BY <1>1, <1>3 DEF TableSet
  <2>2. Sorted(chain) /\ ~Has(chain, key)
    BY <1>3 DEF Good
  <2> HIDE DEF chain
  <2>3. Sorted(s) /\ \A k \in Names : Has(s, k) <=> k = key \/ Has(chain, k)
    BY <2>2, InsertSorts
  <2> HIDE DEF s, u
  <2>4. DOMAIN t = {h[f] : f \in Names} /\ h[key] \in DOMAIN t
    BY DEF Good
  <2>5. DOMAIN u = {h[f] : f \in Names}
    BY <2>1, <2>4
  <2>6. ASSUME NEW k \in Names
        PROVE  Sorted(u[h[k]]) /\ (Has(u[h[k]], k) <=> k \in K \cup {key})
    <3>1. h[k] \in DOMAIN t /\ Sorted(t[h[k]]) /\ (Has(t[h[k]], k) <=> k \in K)
      BY DEF Good
    <3>2. CASE h[k] = h[key]
      <4>1. u[h[k]] = s /\ t[h[k]] = chain
        BY <3>2, <2>1, <2>4 DEF chain
      <4>2. Has(u[h[k]], k) <=> k \in K \cup {key}
        BY <4>1, <3>1, <2>3
      <4>3. QED  BY <4>1, <4>2, <2>3
    <3>3. CASE h[k] # h[key]
      <4>1. u[h[k]] = t[h[k]] /\ k # key
        BY <3>1, <3>3, <2>1
      <4>2. QED  BY <4>1, <3>1
    <3>4. QED  BY <3>2, <3>3
  <2>7. Good(u, h, K \cup {key})
    BY <2>5, <2>6 DEF Good
  <2>8. QED  BY <2>7 DEF u
<1>4. QED  BY <1>2, <1>3

\* All functions that a server registers, and no other, are in its table.
LEMMA FuncTableIs ==
  ASSUME NEW st \in DOMAIN Registered, NEW h
  PROVE  Good(FuncTable(st, h), h, ToSet(Registered[st]))
<1> DEFINE names == Registered[st]  N == Len(names)
           none == [b \in {h[f] : f \in Names} |-> <<>>]
           Keys(n) == {names[i] : i \in 1..n}
           Tables == {t \in [{h[f] : f \in Names} -> Seq(Entry)] : \E K \in SUBSET Names : Good(t, h, K)}
           step == [x \in Tables \X (1..N) |-> TableSet(x[1], h, names[x[2]], names[x[2]])]
           Is(f) == f = [n \in 0..N |-> IF n = 0 THEN none ELSE TableSet(f[n - 1], h, names[n], names[n])]
           after == CHOOSE f : Is(f)
<1>1. names \in Seq(Names) /\ N \in Nat
  <2>1. names = KeyStoreRegistered \/ names = DataStoreRegistered \/ names = CredentialStoreRegistered
    BY DEF Registered
  <2>2. \A s \in DOMAIN Registered : ToSet(Registered[s]) \subseteq Names
    BY DEF Names
  <2>3. \A i \in DOMAIN names : names[i] \in Names
    <3> HIDE DEF names
    <3>1. ToSet(names) \subseteq Names
      BY <2>2 DEF names
    <3>2. QED  BY <3>1 DEF ToSet
  <2>4. DOMAIN names = 1..Len(names) /\ Len(names) \in Nat /\ names = [i \in 1..Len(names) |-> names[i]]
    BY <2>1 DEF KeyStoreRegistered, DataStoreRegistered, CredentialStoreRegistered
  <2> HIDE DEF names
  <2>5. [i \in 1..Len(names) |-> names[i]] \in Seq(Names)
    BY <2>3, <2>4, IsASeq
  <2>6. QED  BY <2>4, <2>5
<1>2. \A n \in 1..N : names[n] \in Names
  BY <1>1, ElementOfSeq
<1>3. Good(none, h, {}) /\ none \in Tables
  <2>1. DOMAIN none = {h[f] : f \in Names} /\ none \in [{h[f] : f \in Names} -> Seq(Entry)]
    <3>1. <<>> \in Seq(Entry)
      BY EmptySeq
    <3>2. QED  BY <3>1
  <2>2. \A key \in Names : none[h[key]] = <<>>
    OBVIOUS
  <2>3. Sorted(<<>>) /\ \A key : ~Has(<<>>, key)
    <3>1. <<>> \in Seq(Entry) /\ Len(<<>>) = 0
      BY EmptySeq
    <3>2. QED  BY <3>1 DEF Sorted, Has
  <2> HIDE DEF none
  <2>4. Good(none, h, {})
    BY <2>1, <2>2, <2>3 DEF Good
  <2>5. \E K \in SUBSET Names : Good(none, h, K)
    BY <2>4
  <2>6. QED  BY <2>1, <2>4, <2>5
<1>4. ASSUME NEW t, NEW K \in SUBSET Names, Good(t, h, K), NEW key \in Names, t \in Tables
      PROVE  TableSet(t, h, key, key) \in Tables
  <2> DEFINE u == TableSet(t, h, key, key)
  <2>1. Good(u, h, K \cup {key}) /\ K \cup {key} \in SUBSET Names
    BY <1>4, TableSetIs
  <2>2. \E J \in SUBSET Names : Good(u, h, J)
    BY <2>1
  <2>3. u = t \/ \E s : u = [t EXCEPT ![h[key]] = s]
    BY DEF TableSet
  <2>4. u = [b \in DOMAIN t |-> u[b]]
    <3>1. t = [b \in DOMAIN t |-> t[b]]
      BY <1>4
    <3> HIDE DEF u
    <3>2. QED  BY <2>3, <3>1
  <2>5. \A b \in {h[f] : f \in Names} : u[b] \in Seq(Entry)
    <3> HIDE DEF u
    <3>1. QED  BY <2>1 DEF Good, Sorted
  <2>6. DOMAIN t = {h[f] : f \in Names}
    BY <1>4
  <2> HIDE DEF u
  <2>7. u \in [{h[f] : f \in Names} -> Seq(Entry)]
    BY <2>4, <2>5, <2>6
  <2>8. QED  BY <2>2, <2>7 DEF u
<1>5. step \in Steps(Tables, N)
  <2>1. \A x \in Tables \X (1..N) : TableSet(x[1], h, names[x[2]], names[x[2]]) \in Tables
    <3> TAKE x \in Tables \X (1..N)
    <3> DEFINE t == x[1]  key == names[x[2]]
    <3>1. t \in Tables /\ x[2] \in 1..N
      <4> HIDE DEF Tables, N
      <4>1. QED  OBVIOUS
    <3>2. key \in Names
      <4> HIDE DEF names, Tables, N
      <4>1. QED  BY <3>1, <1>2
    <3>3. \E K \in SUBSET Names : Good(t, h, K)
      <4> HIDE DEF t, key
      <4>1. QED  BY <3>1
    <3> HIDE DEF t, key, Tables, N, names
    <3>4. TableSet(t, h, key, key) \in Tables
      BY <3>1, <3>2, <3>3, <1>4
    <3>5. QED  BY <3>4 DEF t, key
  <2> HIDE DEF Tables, N, names
  <2>2. QED  BY <2>1 DEF Steps
<1>6. PICK g : Recurs(g, Tables, none, step, N)
  <2> HIDE DEF Tables, step, none, N, names
  <2>1. QED  BY <1>1, <1>3, <1>5, Recursion
<1>7. g \in [0..N -> Tables] /\ g[0] = none /\ \A n \in 1..N : g[n] = step[<<g[n - 1], n>>]
  <2> HIDE DEF Tables, step, none, N, names
  <2>1. QED  BY <1>6 DEF Recurs
<1>8. \A n \in 1..N : g[n] = TableSet(g[n - 1], h, names[n], names[n])
  <2>1. \A n \in 1..N : <<g[n - 1], n>> \in Tables \X (1..N)
    <3> HIDE DEF Tables, step, none, N, names
    <3>1. \A n \in 1..N : n - 1 \in 0..N
      BY <1>1
    <3>2. QED  BY <3>1, <1>7
  <2>2. \A n \in 1..N : step[<<g[n - 1], n>>] = TableSet(g[n - 1], h, names[n], names[n])
    <3> HIDE DEF Tables, none, N, names
    <3>1. QED  BY <2>1
  <2> HIDE DEF Tables, step, none, N, names
  <2>3. QED  BY <1>7, <2>2
<1>9. Is(g)
  <2> HIDE DEF Tables, step, none, N, names
  <2>1. g = [n \in 0..N |-> g[n]]
    BY <1>7
  <2>2. \A n \in 0..N : g[n] = IF n = 0 THEN none ELSE TableSet(g[n - 1], h, names[n], names[n])
    BY <1>1, <1>7, <1>8
  <2>3. QED  BY <2>1, <2>2
<1>10. Is(after)
  <2> HIDE DEF Is
  <2>1. QED  BY <1>9
<1>11. FuncTable(st, h) = after[N]
  BY DEF FuncTable
<1> HIDE DEF after
<1>12. after[0] = none /\ \A n \in 1..N : after[n] = TableSet(after[n - 1], h, names[n], names[n])
  <2>1. after = [n \in 0..N |-> IF n = 0 THEN none ELSE TableSet(after[n - 1], h, names[n], names[n])]
    BY <1>10
  <2> HIDE DEF names, N, none
  <2>2. QED  BY <2>1, <1>1
<1> DEFINE T == {n \in 0..N : Good(after[n], h, Keys(n))}
<1>13. 0..N \subseteq T
  <2> HIDE DEF names, N, none
  <2>1. 0 \in T
    <3>1. Keys(0) = {}
      OBVIOUS
    <3> HIDE DEF Keys
    <3>2. Good(after[0], h, Keys(0))
      BY <3>1, <1>3, <1>12
    <3>3. QED  BY <3>2, <1>1
  <2>2. \A n \in 0..(N - 1) : n \in T => n + 1 \in T
    <3> TAKE n \in 0..(N - 1)
    <3>1. HAVE n \in T
    <3> DEFINE m == n + 1
    <3>2. m \in 1..N /\ m \in 0..N /\ m - 1 = n
      BY <1>1
    <3>3. Keys(m) = Keys(n) \cup {names[m]} /\ Keys(n) \in SUBSET Names
      <4>1. \A i : i \in 1..m <=> i \in 1..n \/ i = m
        OBVIOUS
      <4>2. \A i \in 1..n : i \in 1..N
        BY <1>1
      <4> HIDE DEF m
      <4>3. Keys(m) = Keys(n) \cup {names[m]}
        BY <4>1
      <4>4. QED  BY <4>2, <4>3, <1>2
    <3>4. names[m] \in Names
      <4> HIDE DEF m
      <4>1. QED  BY <3>2, <1>2
    <3>5. Good(after[n], h, Keys(n))
      BY <3>1
    <3>6. after[m] = TableSet(after[n], h, names[m], names[m])
      <4> HIDE DEF m
      <4>1. QED  BY <3>2, <1>12
    <3> HIDE DEF m, Keys
    <3>7. Good(TableSet(after[n], h, names[m], names[m]), h, Keys(n) \cup {names[m]})
      BY <3>3, <3>4, <3>5, TableSetIs
    <3>8. Good(after[m], h, Keys(m))
      BY <3>3, <3>6, <3>7
    <3>9. m \in T
      BY <3>2, <3>8
    <3>10. QED  BY <3>9 DEF m
  <2> HIDE DEF T
  <2>3. QED  BY <1>1, <2>1, <2>2, UpTo
<1>14. Good(after[N], h, Keys(N))
  <2> HIDE DEF names, N, Keys
  <2>1. N \in 0..N
    BY <1>1
  <2>2. QED  BY <2>1, <1>13
<1>15. Keys(N) = ToSet(names)
  <2> HIDE DEF names
  <2>1. DOMAIN names = 1..N
    BY <1>1
  <2>2. QED  BY <2>1 DEF ToSet
<1> HIDE DEF Keys, N
<1>16. QED  BY <1>11, <1>14, <1>15

-----------------------------------------------------------------------------
\* Signatures.

\* The stubs extract what the proxies pack, and the proxies what the stubs reply.
LEMMA SignaturesAgree == StubExtracts = ProxyPacks /\ ProxyResults = StubReplies
<1>1. StubExtracts = ProxyPacks
  BY DEF StubExtracts, ProxyPacks, KeyStoreExtracts, KeyStorePacks, DataStoreExtracts,
         DataStorePacks, CredentialStoreExtracts, CredentialStorePacks
<1>2. ProxyResults = StubReplies
  BY DEF ProxyResults, StubReplies, KeyStoreResults, KeyStoreReplies, DataStoreResults,
         DataStoreReplies, CredentialStoreResults, CredentialStoreReplies
<1>3. QED  BY <1>1, <1>2

Listed(names) == names \in Seq(ParamNames) /\ names # <<>> /\ Len(names) <= 5

LEMMA OfStoresListed ==
  ASSUME NEW key, NEW data, NEW credential,
         \A f \in DOMAIN key : Listed(key[f]),
         \A f \in DOMAIN data : Listed(data[f]),
         \A f \in DOMAIN credential : Listed(credential[f])
  PROVE  LET all == OfStores(key, data, credential) IN
         /\ DOMAIN all = DOMAIN key \cup DOMAIN data \cup DOMAIN credential
         /\ \A f \in DOMAIN all : Listed(all[f])
  BY DEF OfStores

LEMMA TuplesListed ==
  /\ \A a \in ParamNames : Listed(<<a>>)
  /\ \A a, b \in ParamNames : Listed(<<a, b>>)
  /\ \A a, b, c \in ParamNames : Listed(<<a, b, c>>)
  /\ \A a, b, c, d \in ParamNames : Listed(<<a, b, c, d>>)
  /\ \A a, b, c, d, e \in ParamNames : Listed(<<a, b, c, d, e>>)
<1>1. \A a \in ParamNames : Listed(<<a>>)
  BY DEF Listed
<1>2. \A a, b \in ParamNames : Listed(<<a, b>>)
  BY DEF Listed
<1>3. \A a, b, c \in ParamNames : Listed(<<a, b, c>>)
  BY DEF Listed
<1>4. \A a, b, c, d \in ParamNames : Listed(<<a, b, c, d>>)
  BY DEF Listed
<1>5. \A a, b, c, d, e \in ParamNames : Listed(<<a, b, c, d, e>>)
  BY DEF Listed
<1>6. QED  BY <1>1, <1>2, <1>3, <1>4, <1>5

LEMMA TheNames ==
  /\ "block_id" \in ParamNames /\ "user_id" \in ParamNames /\ "owner_id" \in ParamNames
  /\ "read_token" \in ParamNames /\ "write_token" \in ParamNames /\ "index" \in ParamNames
  /\ "rights_mask" \in ParamNames /\ "id" \in ParamNames /\ "block" \in ParamNames
  /\ "meta" \in ParamNames /\ "mac" \in ParamNames /\ "old_mac" \in ParamNames
  /\ "key" \in ParamNames /\ "extra" \in ParamNames
  BY DEF ParamNames

LEMMA PacksListed == \A f \in Names : Listed(ProxyPacks[f])
<1>1. \A f \in DOMAIN KeyStorePacks : Listed(KeyStorePacks[f])
  <2>1. /\ Listed(<<"block_id", "user_id", "owner_id", "read_token">>)
        /\ Listed(<<"block_id", "user_id", "owner_id", "write_token">>)
        /\ Listed(<<"block_id", "user_id">>)
        /\ Listed(<<"block_id", "user_id", "owner_id">>)
        /\ Listed(<<"block_id", "index">>)
    BY TuplesListed, TheNames, Zenon
  <2>2. \A f \in DOMAIN KeyStorePacks : \/ KeyStorePacks[f] = <<"block_id", "user_id", "owner_id", "read_token">>
            \/ KeyStorePacks[f] = <<"block_id", "user_id", "owner_id", "write_token">>
            \/ KeyStorePacks[f] = <<"block_id", "user_id">>
            \/ KeyStorePacks[f] = <<"block_id", "user_id", "owner_id">>
            \/ KeyStorePacks[f] = <<"block_id", "index">>
    BY DEF KeyStorePacks
  <2>3. QED  BY <2>1, <2>2
<1>2. \A f \in DOMAIN DataStorePacks : Listed(DataStorePacks[f])
  <2>1. /\ Listed(<<"block", "meta", "mac">>)
        /\ Listed(<<"id", "block", "meta", "mac">>)
        /\ Listed(<<"id">>)
        /\ Listed(<<"id", "block", "meta", "mac", "old_mac">>)
        /\ Listed(<<"id", "old_mac">>)
    BY TuplesListed, TheNames, Zenon
  <2>2. \A f \in DOMAIN DataStorePacks : \/ DataStorePacks[f] = <<"block", "meta", "mac">>
            \/ DataStorePacks[f] = <<"id", "block", "meta", "mac">>
            \/ DataStorePacks[f] = <<"id">>
            \/ DataStorePacks[f] = <<"id", "block", "meta", "mac", "old_mac">>
            \/ DataStorePacks[f] = <<"id", "old_mac">>
    BY DEF DataStorePacks
  <2>3. QED  BY <2>1, <2>2
<1>3. \A f \in DOMAIN CredentialStorePacks : Listed(CredentialStorePacks[f])
  <2>1. /\ Listed(<<"id">>)
    BY TuplesListed, TheNames, Zenon
  <2>2. \A f \in DOMAIN CredentialStorePacks : \/ CredentialStorePacks[f] = <<"id">>
    BY DEF CredentialStorePacks
  <2>3. QED  BY <2>1, <2>2
<1>4. /\ DOMAIN ProxyPacks = DOMAIN KeyStorePacks \cup DOMAIN DataStorePacks \cup DOMAIN CredentialStorePacks
      /\ \A f \in DOMAIN ProxyPacks : Listed(ProxyPacks[f])
  BY <1>1, <1>2, <1>3, OfStoresListed DEF ProxyPacks
<1>5. ToSet(KeyStoreRegistered) \subseteq DOMAIN KeyStorePacks
  BY DEF KeyStoreRegistered, KeyStorePacks, ToSet
<1>6. ToSet(DataStoreRegistered) \subseteq DOMAIN DataStorePacks
  BY DEF DataStoreRegistered, DataStorePacks, ToSet
<1>7. ToSet(CredentialStoreRegistered) \subseteq DOMAIN CredentialStorePacks
  BY DEF CredentialStoreRegistered, CredentialStorePacks, ToSet
<1>8. Names = ToSet(KeyStoreRegistered) \cup ToSet(DataStoreRegistered) \cup ToSet(CredentialStoreRegistered)
  BY DEF Names, Registered
<1>9. Names \subseteq DOMAIN ProxyPacks
  BY <1>4, <1>5, <1>6, <1>7, <1>8
<1>10. QED  BY <1>4, <1>9

LEMMA RepliesListed == \A f \in DOMAIN StubReplies : Listed(StubReplies[f])
<1>1. \A f \in DOMAIN KeyStoreReplies : Listed(KeyStoreReplies[f])
  <2>1. /\ Listed(<<"read_token", "owner_id">>)
        /\ Listed(<<"write_token", "owner_id">>)
        /\ Listed(<<"user_id", "rights_mask">>)
    BY TuplesListed, TheNames, Zenon
  <2>2. \A f \in DOMAIN KeyStoreReplies : \/ KeyStoreReplies[f] = <<"read_token", "owner_id">>
            \/ KeyStoreReplies[f] = <<"write_token", "owner_id">>
            \/ KeyStoreReplies[f] = <<"user_id", "rights_mask">>
    BY DEF KeyStoreReplies
  <2>3. QED  BY <2>1, <2>2
<1>2. \A f \in DOMAIN DataStoreReplies : Listed(DataStoreReplies[f])
  <2>1. /\ Listed(<<"id">>)
        /\ Listed(<<"block", "meta">>)
    BY TuplesListed, TheNames, Zenon
  <2>2. \A f \in DOMAIN DataStoreReplies : \/ DataStoreReplies[f] = <<"id">>
            \/ DataStoreReplies[f] = <<"block", "meta">>
    BY DEF DataStoreReplies
  <2>3. QED  BY <2>1, <2>2
<1>3. \A f \in DOMAIN CredentialStoreReplies : Listed(CredentialStoreReplies[f])
  <2>1. /\ Listed(<<"key">>)
    BY TuplesListed, TheNames, Zenon
  <2>2. \A f \in DOMAIN CredentialStoreReplies : \/ CredentialStoreReplies[f] = <<"key">>
    BY DEF CredentialStoreReplies
  <2>3. QED  BY <2>1, <2>2
<1>4. QED  BY <1>1, <1>2, <1>3, OfStoresListed DEF StubReplies

\* Names are not taken for something else.
LEMMA NamesDiffer ==
  /\ NoEntry \notin Names /\ None \notin ParamNames
  /\ \A s \in DOMAIN Registered : ToSet(Registered[s]) \subseteq Names
<1>1. NoEntry \notin Names
  BY DEF NoEntry, Names, Registered, KeyStoreRegistered, DataStoreRegistered, CredentialStoreRegistered, ToSet
<1>2. None \notin ParamNames
  BY DEF None, ParamNames
<1>3. \A s \in DOMAIN Registered : ToSet(Registered[s]) \subseteq Names
  BY DEF Names
<1>4. QED  BY <1>1, <1>2, <1>3

-----------------------------------------------------------------------------
\* What is on the wire, field by field.

Leads(s, e, r) == e \in Solid /\ r \in Seq(Solid) /\ s = <<e>> \o r

\* The first field is received, and then the others are left.
LEMMA TakesLead ==
  ASSUME NEW s, NEW e, NEW r, Leads(s, e, r)
  PROVE  /\ s \in Seq(Solid) /\ s # <<>> /\ s[1] = e /\ Len(s) = Len(r) + 1
         /\ Receives(s, e.len)
         /\ \A k \in DOMAIN s : Takes(s, e.len, k) => Head(s) = e /\ Rest(s, k) = r
<1>1. e \in Solid /\ r \in Seq(Solid) /\ s = <<e>> \o r
  BY DEF Leads
<1>2. /\ s \in Seq(Solid) /\ Len(s) = Len(r) + 1 /\ 1 \in DOMAIN s /\ s # <<>>
      /\ s[1] = e /\ Head(s) = e /\ Rest(s, 1) = r
  <2>1. e \in Solid /\ r \in Seq(Solid) /\ Joined(s, e, r)
    BY <1>1 DEF Joined
  <2>2. QED  BY <2>1, JoinedIs
<1>3. /\ \A k \in DOMAIN s : Takes(s, s[1].len, k) => k = 1
      /\ Receives(s, s[1].len)
  BY <1>2, TakesFirst
<1>4. QED  BY <1>2, <1>3

LEMMA SolidName ==
  ASSUME NEW f \in Names
  PROVE  Name(f) \in Solid /\ Name(f).len = DataLength /\ Name(f).val = f /\ Name(f).kind = "data"
<1>1. f \in Said
  BY DEF Said
<1>2. Name(f) \in Field /\ Name(f).len = DataLength /\ Name(f).val = f /\ Name(f).kind = "data"
  BY <1>1, DataLengthAssumption DEF Name, Field
<1>3. QED  BY <1>2, DataLengthAssumption DEF Solid

LEMMA SolidNumbers ==
  /\ \A v \in Nat \cup {"ok", "error"} : Number(v) \in Solid
  /\ \A v : Number(v).len = 4 /\ Number(v).val = v /\ Number(v).kind = "number"
<1>1. \A v \in Nat \cup {"ok", "error"} : v \in Said
  BY DEF Said
<1>2. \A v : Number(v).len = 4 /\ Number(v).val = v /\ Number(v).kind = "number"
  BY DEF Number
<1>3. QED  BY <1>1, <1>2, SolidNumber

LEMMA RequestIs ==
  ASSUME NEW f \in Names, NEW params \in Seq(Param), params # <<>>, Full(params)
  PROVE  /\ Leads(Request(f, params), Number(DataLength), Named(f, params))
         /\ Leads(Named(f, params), Name(f), PackFields(params))
         /\ Leads(PackFields(params), Number(Lengths(Body(params))), Body(params))
         /\ Body(params) \in Seq(Solid) /\ Body(params) # <<>>
<1> DEFINE body == Body(params)  pf == PackFields(params)  l == Lengths(body)
<1>1. body \in Seq(Solid) /\ body # <<>>
  <2>1. body \in Seq(Solid) /\ Len(body) # 0
    BY SolidBody, BodyLaid
  <2> HIDE DEF body
  <2>2. QED  BY <2>1
<1>2. l \in Nat
  <2> HIDE DEF body
  <2>1. QED  BY <1>1, TakesAll
<1>3. Leads(pf, Number(l), body)
  <2>1. pf = <<Number(l)>> \o body
    BY DEF PackFields
  <2> HIDE DEF pf, l, body
  <2>2. QED  BY <2>1, <1>1, <1>2, SolidNumbers DEF Leads
<1>4. pf \in Seq(Solid)
  <2> HIDE DEF pf, l, body
  <2>1. QED  BY <1>3, TakesLead
<1>5. Leads(Named(f, params), Name(f), pf)
  <2>1. Named(f, params) = <<Name(f)>> \o pf
    BY DEF Named
  <2> HIDE DEF pf
  <2>2. QED  BY <2>1, <1>4, SolidName DEF Leads
<1>6. Named(f, params) \in Seq(Solid)
  <2> HIDE DEF pf
  <2>1. QED  BY <1>5, TakesLead
<1>7. Leads(Request(f, params), Number(DataLength), Named(f, params))
  <2>1. Number(DataLength) \in Solid
    BY DataLengthAssumption, SolidNumbers
  <2>2. QED  BY <2>1, <1>6 DEF Leads, Request
<1>8. QED  BY <1>1, <1>3, <1>5, <1>7

\* A request that is received whole is what was packed.
LEMMA RequestRead ==
  ASSUME NEW params \in Seq(Param), params # <<>>, Full(params), Packs(params)
  PROVE  LET body == Body(params) IN
         /\ Receives(body, Lengths(body))
         /\ \A k \in DOMAIN body : Takes(body, Lengths(body), k) =>
              /\ Rest(body, k) = <<>> /\ SubSeq(body, 1, k) = body
         /\ Readable(body) /\ Unpack(body) = params
<1> DEFINE body == Body(params)
<1>1. body \in Seq(Solid) /\ body # <<>>
  <2>1. body \in Seq(Solid) /\ Len(body) # 0
    BY SolidBody, BodyLaid
  <2> HIDE DEF body
  <2>2. QED  BY <2>1
<1>2. Readable(body)
  BY ReadsAll
<1>3. Unpack(body) = params
  <2>1. Begins(body, Body(params))
    <3> HIDE DEF body
    <3>1. Begins(body, body)
      BY <1>1 DEF Begins
    <3>2. QED  BY <3>1 DEF body
  <2>2. QED  BY <2>1, <1>1, <1>2, ReadsBack
<1> HIDE DEF body
<1>4. Receives(body, Lengths(body)) /\ \A k \in DOMAIN body : Takes(body, Lengths(body), k) => k = Len(body)
  BY <1>1, TakesAll
<1>5. SubSeq(body, 1, Len(body)) = body /\ Rest(body, Len(body)) = <<>>
  BY <1>1, Whole
<1>6. QED  BY <1>2, <1>3, <1>4, <1>5 DEF body

LEMMA BytesNotLess ==
  ASSUME NEW s \in Seq(Field)
  PROVE  \A m \in 0..Len(s) : Bytes(s)[m] <= Lengths(s)
<1> DEFINE N == Len(s)
<1>1. N \in Nat
  OBVIOUS
<1>2. /\ \A n \in 1..N : Bytes(s)[n] = Bytes(s)[n - 1] + s[n].len
      /\ \A n \in 0..N : Bytes(s)[n] \in Nat
  BY BytesSum
<1>3. \A n \in 1..N : s[n].len \in Nat
  <2>1. \A n \in 1..N : s[n] \in Field
    BY ElementOfSeq
  <2>2. QED  BY <2>1 DEF Field
<1>4. ASSUME NEW m \in 0..N PROVE Bytes(s)[m] <= Bytes(s)[N]
  <2> DEFINE T == {n \in 0..N : n >= m => Bytes(s)[m] <= Bytes(s)[n]}
  <2> HIDE DEF N
  <2>1. 0 \in T
    BY <1>1, <1>2
  <2>2. \A n \in 0..(N - 1) : n \in T => n + 1 \in T
    <3> TAKE n \in 0..(N - 1)
    <3>1. HAVE n \in T
    <3> DEFINE i == n + 1
    <3>2. i \in 1..N /\ i \in 0..N /\ i - 1 = n /\ n \in 0..N /\ (i >= m => n >= m \/ i = m)
      BY <1>1
    <3> HIDE DEF i
    <3>3. Bytes(s)[i] = Bytes(s)[n] + s[i].len /\ s[i].len \in Nat /\ Bytes(s)[n] \in Nat /\ Bytes(s)[m] \in Nat
      BY <3>2, <1>2, <1>3
    <3>4. i >= m => Bytes(s)[m] <= Bytes(s)[i]
      BY <3>1, <3>2, <3>3
    <3>5. i \in T
      BY <3>2, <3>4
    <3>6. QED  BY <3>5 DEF i
  <2> HIDE DEF T
  <2>3. 0..N \subseteq T
    BY <1>1, <2>1, <2>2, UpTo
  <2>4. N \in T
    BY <2>3, <1>1
  <2>5. QED  BY <2>4, <1>1 DEF T
<1>5. QED  BY <1>4 DEF Lengths

\* A reply, of which only the fields before an empty one are sent.
LEMMA ReplyIs ==
  ASSUME NEW pack \in Seq(Param), pack # <<>>
  PROVE  /\ Leads(Reply(pack), Number("ok"), Replied(pack))
         /\ Leads(Replied(pack), Number(Lengths(Body(pack))), Sent(Body(pack)))
         /\ Sent(PackFields(pack)) = Replied(pack)
         /\ Full(pack) => Sent(PackFields(pack)) = PackFields(pack)
<1> DEFINE body == Body(pack)  l == Lengths(body)  one == Number(l)
<1>1. body \in Seq(Field)
  BY BodyLaid
<1>2. l \in Nat
  <2>1. Len(body) \in 0..Len(body)
    <3> HIDE DEF body
    <3>1. QED  BY <1>1
  <2> HIDE DEF body
  <2>2. QED  BY <2>1, <1>1, BytesSum DEF Lengths
<1>3. one \in Solid
  <2> HIDE DEF l
  <2>1. QED  BY <1>2, SolidNumbers
<1>4. Sent(body) \in Seq(Solid)
  <2> HIDE DEF body
  <2>1. QED  BY <1>1, SentBegins DEF Begins
<1>5. Leads(Replied(pack), one, Sent(body))
  <2>1. Replied(pack) = <<one>> \o Sent(body)
    BY DEF Replied
  <2> HIDE DEF one, body
  <2>2. QED  BY <2>1, <1>3, <1>4 DEF Leads
<1>6. Replied(pack) \in Seq(Solid)
  <2> HIDE DEF one, body
  <2>1. QED  BY <1>5, TakesLead
<1>7. Leads(Reply(pack), Number("ok"), Replied(pack))
  BY <1>6, SolidNumbers DEF Leads, Reply
<1>8. PackFields(pack) = <<one>> \o body
  BY DEF PackFields
<1>9. Sent(PackFields(pack)) = <<one>> \o Sent(body)
  <2> HIDE DEF one, body
  <2>1. Sent(<<one>> \o body) = <<one>> \o Sent(body)
    BY <1>1, <1>3, SentAfterFirst
  <2>2. QED  BY <2>1, <1>8
<1>10. Sent(PackFields(pack)) = Replied(pack)
  BY <1>9 DEF Replied
<1>11. Full(pack) => Sent(body) = body
  <2>1. Full(pack) => body \in Seq(Solid)
    BY SolidBody
  <2> HIDE DEF body
  <2>2. QED  BY <2>1, <1>1, SentBegins
<1>12. Full(pack) => Sent(PackFields(pack)) = PackFields(pack)
  <2> HIDE DEF one, body
  <2>1. QED  BY <1>8, <1>9, <1>11
<1>13. QED  BY <1>5, <1>7, <1>10, <1>12

\* A reply that is received is what was packed.
LEMMA ReplyRead ==
  ASSUME NEW pack \in Seq(Param), pack # <<>>, Packs(pack)
  PROVE  LET body == Body(pack)
             got == Sent(body) IN
         /\ got \in Seq(Solid)
         /\ \A k \in DOMAIN got : Takes(got, Lengths(body), k) =>
              Rest(got, k) = <<>> /\ SubSeq(got, 1, k) = got
         /\ Readable(got) => Unpack(got) = pack
         /\ Full(pack) => Readable(got) /\ Receives(got, Lengths(body))
         /\ Lengths(got) >= Lengths(body) => Receives(got, Lengths(body))
<1> DEFINE body == Body(pack)  got == Sent(body)
<1>1. body \in Seq(Field) /\ body # <<>> /\ body[1] \in Solid
  <2>1. body \in Seq(Field) /\ Len(body) # 0 /\ body[1] = Number(Len(pack)) /\ Len(pack) \in Nat
    BY BodyLaid
  <2> HIDE DEF body
  <2>2. QED  BY <2>1, SolidNumbers
<1>2. Begins(got, body) /\ got \in Seq(Solid) /\ got # <<>>
  <2>1. Begins(got, body) /\ got # <<>>
    <3> HIDE DEF body
    <3>1. QED  BY <1>1, SentBegins
  <2> HIDE DEF body, got
  <2>2. QED  BY <2>1 DEF Begins
<1>3. Readable(got) => Unpack(got) = pack
  <2> HIDE DEF got
  <2>1. QED  BY <1>2, ReadsBack
<1>4. ASSUME Full(pack) PROVE Readable(got) /\ Receives(got, Lengths(body))
  <2>1. body \in Seq(Solid)
    BY <1>4, SolidBody
  <2>2. got = body
    <3> HIDE DEF body
    <3>1. QED  BY <2>1, <1>1, SentBegins
  <2>3. Readable(body)
    BY <1>4, ReadsAll
  <2> HIDE DEF got, body
  <2>4. Receives(body, Lengths(body))
    BY <2>1, <1>1, TakesAll
  <2>5. QED  BY <2>2, <2>3, <2>4
<1> HIDE DEF body, got
<1>5. Len(got) \in Nat /\ got \in Seq(Field) /\ Len(got) <= Len(body) /\ Len(body) \in Nat
      /\ \A i \in 1..Len(got) : got[i] = body[i]
  BY <1>1, <1>2, SolidFields DEF Begins
<1>6. \A n \in 0..Len(got) : Bytes(got)[n] = Bytes(body)[n]
  BY <1>1, <1>5, BytesOfPrefix
<1>7. ASSUME NEW k \in DOMAIN got, Takes(got, Lengths(body), k)
      PROVE  k = Len(got)
  <2>1. k \in 0..Len(got) /\ Len(got) \in 0..Len(got) /\ Len(got) \in 0..Len(body) /\ k <= Len(got)
    BY <1>5
  <2>2. Bytes(got)[Len(got)] <= Lengths(body)
    BY <2>1, <1>1, <1>6, BytesNotLess
  <2>3. k < Len(got) => Bytes(got)[k] < Bytes(got)[Len(got)]
    BY <2>1, <1>2, BytesGrow
  <2>4. Bytes(got)[k] = Lengths(body)
    BY <1>7 DEF Takes
  <2>5. Bytes(got)[k] \in Nat /\ Bytes(got)[Len(got)] \in Nat
    BY <2>1, <1>5, BytesSum
  <2>6. ~(k < Len(got))
    BY <2>2, <2>3, <2>4, <2>5
  <2>7. QED  BY <2>1, <2>6, <1>5
<1>8. SubSeq(got, 1, Len(got)) = got /\ Rest(got, Len(got)) = <<>>
  BY <1>2, Whole
<1>9. \A k \in DOMAIN got : Takes(got, Lengths(body), k) => Rest(got, k) = <<>> /\ SubSeq(got, 1, k) = got
  BY <1>7, <1>8
<1>10. ASSUME Lengths(got) >= Lengths(body) PROVE Receives(got, Lengths(body))
  <2>1. Len(got) \in 0..Len(got) /\ Len(got) \in 0..Len(body) /\ Len(got) \in DOMAIN got
    BY <1>2, <1>5
  <2>2. Bytes(got)[Len(got)] <= Lengths(body)
    BY <2>1, <1>1, <1>6, BytesNotLess
  <2>3. Bytes(got)[Len(got)] \in Nat /\ Lengths(body) \in Nat
    <3>1. Len(body) \in 0..Len(body)
      BY <1>5
    <3>2. QED  BY <2>1, <3>1, <1>1, <1>5, BytesSum DEF Lengths
  <2>4. Bytes(got)[Len(got)] = Lengths(body)
    BY <2>2, <2>3, <1>10 DEF Lengths
  <2>5. QED  BY <2>1, <2>4, <1>10 DEF Receives, Takes
<1>11. QED  BY <1>2, <1>3, <1>4, <1>9, <1>10 DEF body, got

-----------------------------------------------------------------------------
\* What is packed.

LEMMA ListedIs ==
  ASSUME NEW names, Listed(names)
  PROVE  /\ Len(names) \in 1..5 /\ DOMAIN names = 1..Len(names)
         /\ \A k \in 1..Len(names) : names[k] \in ParamNames /\ names[k] \in ToSet(names)
<1>1. names \in Seq(ParamNames) /\ names # <<>> /\ Len(names) <= 5
  BY DEF Listed
<1>2. Len(names) \in Nat /\ Len(names) # 0 /\ DOMAIN names = 1..Len(names)
  BY <1>1, EmptySeq
<1>3. \A k \in 1..Len(names) : names[k] \in ParamNames
  BY <1>1, <1>2, ElementOfSeq
<1>4. \A k \in 1..Len(names) : names[k] \in ToSet(names)
  BY <1>2, Zenon DEF ToSet
<1>5. QED  BY <1>1, <1>2, <1>3, <1>4

LEMMA TypesListed ==
  ASSUME NEW names, Listed(names)
  PROVE  Len(TypesOf(names)) = Len(names) /\ DOMAIN TypesOf(names) = 1..Len(names)
         /\ \A k \in 1..Len(names) : TypesOf(names)[k] = TypeOf(names[k])
<1>1. Len(names) \in Nat /\ DOMAIN names = 1..Len(names)
  BY ListedIs
<1> DEFINE n == Len(names)  t == [k \in 1..n |-> TypeOf(names[k])]
<1>2. TypesOf(names) = t
  BY <1>1 DEF TypesOf
<1>3. DOMAIN t = 1..n /\ \A k \in 1..n : t[k] = TypeOf(names[k])
  OBVIOUS
<1>4. Len(t) = n
  <2>1. \A k \in 1..n : TypeOf(names[k]) \in {"int32", "buffer"}
    BY DEF TypeOf
  <2>2. t \in Seq({"int32", "buffer"})
    <3> HIDE DEF n
    <3>1. n \in Nat
      BY <1>1 DEF n
    <3>2. QED  BY <2>1, <3>1, IsASeq
  <2> HIDE DEF t
  <2>3. QED  BY <2>2, <1>1, <1>3, LenProperties
<1> HIDE DEF t
<1>5. QED  BY <1>2, <1>3, <1>4

LEMMA ByNameIs ==
  ASSUME NEW names, NEW p \in ToSet(names), NEW values
  PROVE  \E k \in DOMAIN names : names[k] = p /\ ByName(names, values, p) = values[k].val
<1>1. \E k \in DOMAIN names : names[k] = p
  BY DEF ToSet
<1> DEFINE k == CHOOSE l \in DOMAIN names : names[l] = p
<1>2. k \in DOMAIN names /\ names[k] = p
  BY <1>1
<1>3. ByName(names, values, p) = values[k].val
  BY DEF ByName
<1> HIDE DEF k
<1>4. QED  BY <1>2, <1>3

LEMMA ResultsPack ==
  ASSUME NEW f \in DOMAIN StubReplies, NEW n \in Nat, NEW empty
  PROVE  LET pack == ResultsOf(f, n, empty)
             names == ProxyResults[f] IN
         /\ pack \in Seq(Param) /\ pack # <<>> /\ Packs(pack)
         /\ empty = None => Full(pack)
         /\ Extracts(pack, TypesOf(names))
         /\ \A p \in ToSet(names) :
              ByName(names, pack, p) = IF p = empty THEN Empty ELSE <<"res", n, p>>
<1> DEFINE names == StubReplies[f]  N == Len(names)
           at(k) == [type |-> TypeOf(names[k]),
                     val |-> IF names[k] = empty THEN Empty ELSE <<"res", n, names[k]>>]
           pack == [k \in 1..N |-> at(k)]
<1>1. names = ProxyResults[f]
  BY SignaturesAgree
<1>2. Listed(names)
  BY RepliesListed
<1> HIDE DEF names
<1>3. N \in 1..5 /\ DOMAIN names = 1..N /\ \A k \in 1..N : names[k] \in ParamNames
  BY <1>2, ListedIs
<1>4. ResultsOf(f, n, empty) = pack
  BY <1>3 DEF ResultsOf, names
<1> HIDE DEF N
<1>5. \A k \in 1..N : at(k) \in Param
  <2> TAKE k \in 1..N
  <2>1. TypeOf(names[k]) \in {"int32", "buffer"}
    BY DEF TypeOf
  <2>2. <<"res", n, names[k]>> \in Vals /\ Empty \in Vals
    BY <1>3 DEF Vals
  <2> DEFINE v == IF names[k] = empty THEN Empty ELSE <<"res", n, names[k]>>
             t == TypeOf(names[k])
  <2>3. v \in Vals /\ t \in {"int32", "buffer"}
    BY <2>1, <2>2
  <2> HIDE DEF v, t
  <2>4. [type |-> t, val |-> v] \in Param
    BY <2>3 DEF Param
  <2>5. QED  BY <2>4 DEF t, v
<1>6. pack \in Seq(Param) /\ Len(pack) = N
  <2> HIDE DEF at
  <2>1. N \in Nat
    BY <1>3
  <2>2. pack \in Seq(Param)
    BY <2>1, <1>5, IsASeq
  <2>3. DOMAIN pack = 1..N
    OBVIOUS
  <2> HIDE DEF pack
  <2>4. QED  BY <2>1, <2>2, <2>3, LenProperties
<1>7. \A k \in 1..N : /\ pack[k].type = TypeOf(names[k])
                      /\ pack[k].val = IF names[k] = empty THEN Empty ELSE <<"res", n, names[k]>>
  OBVIOUS
<1> HIDE DEF pack, at
<1>8. pack # <<>> /\ Packs(pack)
  <2>1. Len(pack) \in 1..5
    BY <1>3, <1>6
  <2>2. pack # <<>>
    BY <2>1, <1>6, EmptySeq
  <2>3. Packs(pack)
    <3> DEFINE l == Len(pack)
    <3>1. l \in 1..5
      BY <2>1
    <3> HIDE DEF l
    <3>2. l <= 20
      BY <3>1
    <3>3. QED  BY <3>2 DEF Packs, MaxParams, l
  <2>4. QED  BY <2>2, <2>3
<1>9. ASSUME empty = None PROVE Full(pack)
  <2>1. \A k \in 1..N : names[k] # empty
    BY <1>3, <1>9, NamesDiffer
  <2>2. \A k \in 1..N : <<"res", n, names[k]>> # Empty
    BY DEF Empty
  <2>3. QED  BY <2>1, <2>2, <1>6, <1>7 DEF Full
<1>10. Extracts(pack, TypesOf(names))
  <2>1. /\ Len(TypesOf(names)) = N /\ DOMAIN TypesOf(names) = 1..N
        /\ \A k \in 1..N : TypesOf(names)[k] = TypeOf(names[k])
    BY <1>2, TypesListed DEF N
  <2> DEFINE types == TypesOf(names)
  <2>2. Len(types) = N /\ DOMAIN types = 1..N /\ \A k \in 1..N : types[k] = TypeOf(names[k])
    BY <2>1
  <2> HIDE DEF types
  <2>3. Len(types) <= Len(pack)
    BY <2>2, <1>3, <1>6
  <2>4. \A k \in DOMAIN types : pack[k].type = types[k]
    BY <2>2, <1>7
  <2>5. Extracts(pack, types)
    BY <2>3, <2>4 DEF Extracts
  <2>6. QED  BY <2>5 DEF types
<1>11. ASSUME NEW p \in ToSet(names)
       PROVE  ByName(names, pack, p) = IF p = empty THEN Empty ELSE <<"res", n, p>>
  <2>1. PICK k \in DOMAIN names : names[k] = p /\ ByName(names, pack, p) = pack[k].val
    BY ByNameIs
  <2>2. QED  BY <2>1, <1>3, <1>7
<1>12. QED  BY <1>1, <1>4, <1>6, <1>8, <1>9, <1>10, <1>11

LEMMA CallPack ==
  ASSUME calls \in Nat, NEW f \in Names, NEW params \in PacksFor(f)
  PROVE  ParamsOK(f, params, calls + 1)
<1> DEFINE names == ProxyPacks[f]  N == Len(names)  exact == [k \in 1..N |-> Arg(names[k])]
           Sure == {p \in Param : p.val # Empty}
<1>1. Listed(names)
  BY PacksListed
<1> HIDE DEF names
<1>2. N \in 1..5 /\ DOMAIN names = 1..N /\ \A k \in 1..N : names[k] \in ParamNames
  BY <1>1, ListedIs
<1> HIDE DEF N
<1>3. \A p \in ParamNames : /\ Arg(p) \in Sure /\ Arg(p).val = <<"arg", calls + 1, p>>
  <2> TAKE p \in ParamNames
  <2>1. TypeOf(p) \in {"int32", "buffer"}
    BY DEF TypeOf
  <2> DEFINE v == <<"arg", calls + 1, p>>  t == TypeOf(p)
  <2>2. v \in Vals /\ v # Empty
    BY DEF Vals, Empty
  <2>3. t \in {"int32", "buffer"} /\ Arg(p) = [type |-> t, val |-> v]
    BY <2>1 DEF Arg
  <2> HIDE DEF v, t
  <2>4. [type |-> t, val |-> v] \in Param /\ [type |-> t, val |-> v].val = v
    BY <2>2, <2>3 DEF Param
  <2>5. QED  BY <2>2, <2>3, <2>4 DEF v
<1>4. exact \in Seq(Sure) /\ Len(exact) = N /\ \A k \in 1..N : exact[k] = Arg(names[k])
  <2>1. N \in Nat /\ \A k \in 1..N : Arg(names[k]) \in Sure
    BY <1>2, <1>3
  <2> HIDE DEF Sure
  <2>2. exact \in Seq(Sure)
    BY <2>1, IsASeq
  <2>3. DOMAIN exact = 1..N /\ \A k \in 1..N : exact[k] = Arg(names[k])
    OBVIOUS
  <2> HIDE DEF exact
  <2>4. QED  BY <2>1, <2>2, <2>3, LenProperties
<1>5. exact = [k \in DOMAIN names |-> Arg(names[k])]
  BY <1>2
<1> HIDE DEF exact, Sure
<1>6. \/ params \in Seq(Sure) /\ Len(params) < N
      \/ /\ params \in Seq(Sure)
         /\ \A k \in 1..N : params[k] = Arg(names[k])
      \/ params = [exact EXCEPT ![1].type = "int32"]
  <2> DEFINE Longer(m) == exact \o [k \in 1..(m - Len(exact)) |-> Arg("extra")]
  <2>1. params \in {<<>>, Front(exact), exact, Longer(Len(exact) + 1), Longer(MaxParams),
                    Longer(MaxParams + 1), [exact EXCEPT ![1].type = "int32"]}
    BY <1>5 DEF PacksFor, names
  <2>2. CASE params = <<>>
    <3>1. <<>> \in Seq(Sure) /\ Len(<<>>) = 0
      BY EmptySeq
    <3>2. QED  BY <2>2, <3>1, <1>2
  <2>3. CASE params = Front(exact)
    <3> DEFINE t == SubSeq(exact, 1, N - 1)
    <3>1. \A k \in 1..(N - 1) : exact[k] \in Sure
      BY <1>2, <1>4, ElementOfSeq
    <3>2. 1 \in Int /\ N - 1 \in Int
      BY <1>2
    <3>3. t \in Seq(Sure) /\ Len(t) = IF 1 <= N - 1 THEN (N - 1) - 1 + 1 ELSE 0
      BY <3>1, <3>2, SubSeqProperties
    <3>4. params = t
      BY <2>3, <1>4 DEF Front
    <3> HIDE DEF t
    <3>5. Len(t) < N
      BY <3>3, <1>2
    <3>6. QED  BY <3>3, <3>4, <3>5
  <2>4. CASE params = exact
    BY <2>4, <1>4
  <2>5. ASSUME NEW m \in Nat, m >= N, params = Longer(m)
        PROVE  params \in Seq(Sure) /\ \A k \in 1..N : params[k] = Arg(names[k])
    <3> DEFINE d == m - Len(exact)  more == [k \in 1..d |-> Arg("extra")]  t == exact \o more
    <3>1. d \in Nat /\ Arg("extra") \in Sure
      BY <2>5, <1>2, <1>3, <1>4, TheNames
    <3> HIDE DEF d
    <3>2. more \in Seq(Sure)
      BY <3>1, IsASeq
    <3> HIDE DEF more
    <3>3. Len(more) \in Nat
      BY <3>2
    <3>4. /\ t \in Seq(Sure)
          /\ \A i \in 1..(Len(exact) + Len(more)) : t[i] = IF i <= Len(exact) THEN exact[i] ELSE more[i - Len(exact)]
      BY <3>2, <1>4, ConcatProperties
    <3>5. params = t
      BY <2>5 DEF more, d
    <3> HIDE DEF t
    <3>6. \A k \in 1..N : k \in 1..(Len(exact) + Len(more)) /\ k <= Len(exact)
      BY <3>3, <1>2, <1>4
    <3>7. \A k \in 1..N : t[k] = Arg(names[k])
      BY <3>4, <3>6, <1>4
    <3>8. QED  BY <3>4, <3>5, <3>7
  <2>6. /\ Len(exact) + 1 \in Nat /\ Len(exact) + 1 >= N
        /\ MaxParams \in Nat /\ MaxParams >= N /\ MaxParams + 1 \in Nat /\ MaxParams + 1 >= N
    BY <1>2, <1>4 DEF MaxParams
  <2> HIDE DEF Longer
  <2>7. CASE params = Longer(Len(exact) + 1)
    BY <2>5, <2>6, <2>7
  <2>8. CASE params = Longer(MaxParams)
    BY <2>5, <2>6, <2>8
  <2>9. CASE params = Longer(MaxParams + 1)
    BY <2>5, <2>6, <2>9
  <2>10. QED  BY <2>1, <2>2, <2>3, <2>4, <2>7, <2>8, <2>9
<1>7. CASE params \in Seq(Sure)
  <2>1. params \in Seq(Param)
    BY <1>7, SeqMonotonic DEF Sure
  <2>2. Full(params)
    <3>1. \A j \in 1..Len(params) : params[j] \in Sure
      BY <1>7, ElementOfSeq
    <3>2. QED  BY <3>1 DEF Full, Sure
  <2>3. ASSUME Len(params) >= N
        PROVE  \A k \in 1..N : params[k].val = <<"arg", calls + 1, names[k]>>
    <3>1. CASE Len(params) < N
      <4>1. Len(params) \in Nat
        BY <1>7
      <4>2. QED  BY <4>1, <3>1, <2>3, <1>2
    <3>2. CASE \A k \in 1..N : params[k] = Arg(names[k])
      BY <3>2, <1>2, <1>3
    <3>3. CASE params = [exact EXCEPT ![1].type = "int32"]
      <4>1. \A k \in 1..N : params[k].val = exact[k].val
        BY <3>3, <1>4
      <4>2. QED  BY <4>1, <1>2, <1>3, <1>4
    <3>4. QED  BY <3>1, <3>2, <3>3, <1>6
  <2>4. QED  BY <2>1, <2>2, <2>3, <1>2 DEF ParamsOK, names, N
<1>8. CASE params = [exact EXCEPT ![1].type = "int32"]
  <2>1. \A k \in 1..N : exact[k] \in Sure
    BY <1>4, ElementOfSeq
  <2>2. 1 \in 1..N /\ exact = [k \in 1..N |-> exact[k]] /\ DOMAIN exact = 1..N
    BY <1>2, <1>4
  <2> DEFINE p == [exact[1] EXCEPT !.type = "int32"]
  <2>3. p \in Sure
    <3>1. exact[1] \in Param /\ exact[1].val # Empty
      BY <2>1, <2>2 DEF Sure
    <3>2. p = [type |-> "int32", val |-> exact[1].val]
      BY <3>1 DEF Param
    <3>3. p \in Param /\ p.val # Empty
      BY <3>1, <3>2 DEF Param
    <3> HIDE DEF p
    <3>4. QED  BY <3>3 DEF Sure
  <2>4. params = [k \in 1..N |-> IF k = 1 THEN p ELSE exact[k]]
    BY <2>2, <1>8
  <2> HIDE DEF p
  <2>5. \A k \in 1..N : (IF k = 1 THEN p ELSE exact[k]) \in Sure
    BY <2>1, <2>3
  <2>6. params \in Seq(Sure)
    <3>1. N \in Nat
      BY <1>2
    <3>2. QED  BY <2>4, <2>5, <3>1, IsASeq
  <2>7. QED  BY <2>6, <1>7
<1>9. QED  BY <1>6, <1>7, <1>8

-----------------------------------------------------------------------------
\* The server after half a request.

LEMMA HalfReadTakes ==
  ASSUME NEW s \in Seq(Solid), NEW at, NEW m \in 0..3, HalfRead(at, s, m)
  PROVE  /\ s # <<>> => Receives(s, at.need)
         /\ \A k \in DOMAIN s : Takes(s, at.need, k) =>
              /\ m \in {0, 2} => Head(s).val = DataLength
              /\ m = 3 => ~Readable(SubSeq(s, 1, k))
              /\ m < 3 => \A next : next.need = (IF m = 1 THEN 4 ELSE DataLength)
                            /\ (m = 0 => next.at = "name") /\ (m = 1 => next.at = "pack length")
                            /\ (m = 2 => next.at = "pack")
                            => HalfRead(next, Rest(s, k), m + 1)
<1>1. Len(s) \in Nat /\ DOMAIN s = 1..Len(s) /\ \A i \in 1..Len(s) : s[i] \in Solid
  BY ElementOfSeq
<1>2. /\ Len(s) + m = 2 \/ Len(s) + m >= 4
      /\ \A i \in 1..Len(s) :
          /\ i + m \in {1, 3} => s[i] = Number(DataLength)
          /\ i + m \in {2, 4} => s[i].kind = "data" /\ s[i].len = DataLength
      /\ at.need = IF m \in {0, 2} THEN 4 ELSE DataLength
  <2>1. /\ Len(s) + m = 2 \/ Len(s) + m >= 4
        /\ \A i \in 1..Len(s) :
            /\ i + m \in {1, 3} => s[i] = Number(DataLength)
            /\ i + m \in {2, 4} => s[i].kind = "data" /\ s[i].len = DataLength
    BY <1>1, Zenon DEF HalfRead
  <2>2. at.need = IF m \in {0, 2} THEN 4 ELSE DataLength
    <3>1. \/ m = 0 /\ at.need = 4
          \/ m = 1 /\ at.need = DataLength
          \/ m = 2 /\ at.need = 4
          \/ m = 3 /\ at.need = DataLength
      BY Zenon DEF HalfRead
    <3>2. QED  BY <3>1
  <2>3. QED  BY <2>1, <2>2
<1>3. ASSUME s # <<>>
      PROVE  /\ 1 \in 1..Len(s) /\ s[1].len = at.need /\ Head(s) = s[1]
             /\ m \in {0, 2} => s[1].val = DataLength
             /\ m = 3 => s[1].kind = "data"
  <2>1. 1 \in 1..Len(s) /\ Head(s) = s[1]
    BY <1>1, <1>3, EmptySeq
  <2>2. m \in {0, 2} => s[1] = Number(DataLength)
    BY <2>1, <1>2
  <2>3. m \in {1, 3} => s[1].kind = "data" /\ s[1].len = DataLength
    BY <2>1, <1>2
  <2>4. m \in {0, 2} \/ m \in {1, 3}
    OBVIOUS
  <2>5. QED  BY <2>1, <2>2, <2>3, <2>4, <1>2, SolidNumbers
<1>4. s # <<>> => Receives(s, at.need) /\ \A k \in DOMAIN s : Takes(s, at.need, k) => k = 1
  <2>1. s # <<>> => 1 \in DOMAIN s
    BY <1>1, <1>3
  <2>2. s # <<>> => Receives(s, s[1].len) /\ \A k \in DOMAIN s : Takes(s, s[1].len, k) => k = 1
    BY <2>1, TakesFirst
  <2>3. QED  BY <2>2, <1>3
<1>5. ASSUME NEW k \in DOMAIN s, Takes(s, at.need, k)
      PROVE  /\ m \in {0, 2} => Head(s).val = DataLength
             /\ m = 3 => ~Readable(SubSeq(s, 1, k))
             /\ m < 3 => \A next : next.need = (IF m = 1 THEN 4 ELSE DataLength)
                            /\ (m = 0 => next.at = "name") /\ (m = 1 => next.at = "pack length")
                            /\ (m = 2 => next.at = "pack")
                            => HalfRead(next, Rest(s, k), m + 1)
  <2>1. s # <<>> /\ k = 1
    <3>1. s # <<>>
      BY <1>5
    <3>2. QED  BY <3>1, <1>4, <1>5
  <2>2. m \in {0, 2} => Head(s).val = DataLength
    BY <2>1, <1>3
  <2>3. ASSUME m = 3 PROVE ~Readable(SubSeq(s, 1, k))
    <3> DEFINE t == SubSeq(s, 1, 1)
    <3>1. \A i \in 1..1 : s[i] \in Solid
      BY <1>1, <1>3, <2>1
    <3>2. /\ t \in Seq(Solid) /\ Len(t) = (IF 1 <= 1 THEN 1 - 1 + 1 ELSE 0)
          /\ \A i \in 1..(1 - 1 + 1) : t[i] = s[1 + i - 1]
      BY <3>1, SubSeqProperties
    <3> HIDE DEF t
    <3>3. t \in Seq(Solid) /\ Len(t) = 1 /\ t[1] = s[1]
      BY <3>2
    <3>4. Head(t) = s[1]
      BY <3>3
    <3>5. Head(t).kind # "number"
      BY <3>4, <1>3, <2>1, <2>3
    <3>6. ~Readable(t)
      BY <3>5 DEF Readable
    <3>7. QED  BY <3>6, <2>1 DEF t
  <2>4. ASSUME m < 3, NEW next, next.need = (IF m = 1 THEN 4 ELSE DataLength),
               m = 0 => next.at = "name", m = 1 => next.at = "pack length", m = 2 => next.at = "pack"
        PROVE  HalfRead(next, Rest(s, k), m + 1)
    <3> DEFINE t == SubSeq(s, 2, Len(s))
    <3>0. \A i \in 2..Len(s) : s[i] \in Solid
      BY <1>1
    <3>1. /\ t \in Seq(Solid) /\ Len(t) = (IF 2 <= Len(s) THEN Len(s) - 2 + 1 ELSE 0)
          /\ \A i \in 1..(Len(s) - 2 + 1) : t[i] = s[2 + i - 1]
      BY <3>0, <1>1, SubSeqProperties
    <3>2. Rest(s, k) = t
      BY <2>1 DEF Rest
    <3> HIDE DEF t
    <3>3. Len(t) = Len(s) - 1 /\ DOMAIN t = 1..Len(t)
      <4> DEFINE l == Len(s)
      <4>1. l \in Nat /\ 1 \in 1..l /\ Len(t) = (IF 2 <= l THEN l - 2 + 1 ELSE 0) /\ t \in Seq(Solid)
        BY <3>1, <1>1, <1>3, <2>1
      <4>2. DOMAIN t = 1..Len(t)
        BY <4>1
      <4> HIDE DEF l
      <4>3. Len(t) = l - 1
        BY <4>1
      <4>4. QED  BY <4>2, <4>3 DEF l
    <3>4. Len(t) + (m + 1) = Len(s) + m
      BY <3>3, <1>1
    <3>5. \A i \in 1..Len(t) : t[i] = s[i + 1] /\ i + 1 \in 1..Len(s) /\ i + (m + 1) = (i + 1) + m
      <4> TAKE i \in 1..Len(t)
      <4>1. i \in 1..(Len(s) - 2 + 1) /\ 2 + i - 1 = i + 1 /\ i + 1 \in 1..Len(s) /\ i + (m + 1) = (i + 1) + m
        BY <3>3, <1>1
      <4>2. QED  BY <4>1, <3>1
    <3>6. \A i \in 1..Len(t) :
            /\ i + (m + 1) \in {1, 3} => t[i] = Number(DataLength)
            /\ i + (m + 1) \in {2, 4} => t[i].kind = "data" /\ t[i].len = DataLength
      <4> TAKE i \in 1..Len(t)
      <4> DEFINE j == i + 1
      <4>1. t[i] = s[j] /\ j \in 1..Len(s) /\ i + (m + 1) = j + m
        BY <3>5
      <4> HIDE DEF j
      <4>2. QED  BY <4>1, <1>2
    <3>7. \/ m = 0 /\ m + 1 = 1 /\ m # 1
          \/ m = 1 /\ m + 1 = 2
          \/ m = 2 /\ m + 1 = 3 /\ m # 1
      <4>1. m \in 0..3 /\ m < 3
        BY <2>4
      <4>2. QED  BY <4>1
    <3>8. \/ m + 1 = 1 /\ next.at = "name" /\ next.need = DataLength
          \/ m + 1 = 2 /\ next.at = "pack length" /\ next.need = 4
          \/ m + 1 = 3 /\ next.at = "pack" /\ next.need = DataLength
      BY <2>4, <3>7, Zenon
    <3>9. Len(t) + (m + 1) = 2 \/ Len(t) + (m + 1) >= 4
      BY <3>4, <1>2
    <3>10. HalfRead(next, t, m + 1)
      BY <3>3, <3>6, <3>8, <3>9, Zenon DEF HalfRead
    <3>11. QED  BY <3>2, <3>10
  <2>5. QED  BY <2>2, <2>3, <2>4
<1>6. QED  BY <1>4, <1>5

\* The next request comes behind the half one.
LEMMA HalfReadGrows ==
  ASSUME NEW s \in Seq(Solid), NEW at, NEW m \in 0..3, HalfRead(at, s, m),
         NEW f \in Names, NEW r \in Seq(Solid)
  PROVE  /\ HalfRead(at, s \o <<Number(DataLength), Name(f)>> \o r, m)
         /\ s \o <<Number(DataLength), Name(f)>> \o r \in Seq(Solid)
<1> DEFINE a == Number(DataLength)  b == Name(f)  ab == <<a, b>>  u == s \o ab  t == u \o r
<1>1. Len(s) \in Nat /\ Len(r) \in Nat
  OBVIOUS
<1>2. a \in Solid /\ b \in Solid /\ b.kind = "data" /\ b.len = DataLength
  BY DataLengthAssumption, SolidNumbers, SolidName
<1> HIDE DEF a, b
<1>3. ab \in Seq(Solid) /\ Len(ab) = 2 /\ ab[1] = a /\ ab[2] = b
  BY <1>2
<1> HIDE DEF ab
<1>4. /\ u \in Seq(Solid) /\ Len(u) = Len(s) + Len(ab)
      /\ \A i \in 1..(Len(s) + Len(ab)) : u[i] = IF i <= Len(s) THEN s[i] ELSE ab[i - Len(s)]
  BY <1>3, ConcatProperties
<1> HIDE DEF u
<1>5. /\ t \in Seq(Solid) /\ Len(t) = Len(u) + Len(r)
      /\ \A i \in 1..(Len(u) + Len(r)) : t[i] = IF i <= Len(u) THEN u[i] ELSE r[i - Len(u)]
  <2>1. u \in Seq(Solid) /\ r \in Seq(Solid)
    BY <1>4
  <2>2. QED  BY ONLY <2>1, ConcatProperties DEF t
<1> HIDE DEF t
<1>6. Len(u) = Len(s) + 2 /\ Len(t) = Len(s) + 2 + Len(r) /\ DOMAIN t = 1..Len(t) /\ DOMAIN s = 1..Len(s)
  BY <1>1, <1>3, <1>4, <1>5
<1>7. \A i \in 1..Len(s) : t[i] = s[i]
  BY <1>1, <1>3, <1>4, <1>5, <1>6
<1>8. t[Len(s) + 1] = a /\ t[Len(s) + 2] = b
  <2> DEFINE l == Len(s)
  <2>1. /\ l \in Nat /\ l + 1 \in 1..(l + Len(ab)) /\ l + 2 \in 1..(l + Len(ab)) /\ ~(l + 1 <= l)
        /\ ~(l + 2 <= l) /\ (l + 1) - l = 1 /\ (l + 2) - l = 2
    BY <1>1, <1>3
  <2>2. u[l + 1] = ab[1] /\ u[l + 2] = ab[2]
    BY <2>1, <1>4
  <2>3. /\ l + 1 \in 1..(Len(u) + Len(r)) /\ l + 2 \in 1..(Len(u) + Len(r))
        /\ l + 1 <= Len(u) /\ l + 2 <= Len(u)
    BY <2>1, <1>1, <1>6
  <2>4. QED  BY <2>2, <2>3, <1>3, <1>5
<1>9. /\ Len(s) + m = 2 \/ Len(s) + m >= 4
      /\ \A i \in 1..Len(s) :
          /\ i + m \in {1, 3} => s[i] = Number(DataLength)
          /\ i + m \in {2, 4} => s[i].kind = "data" /\ s[i].len = DataLength
  BY <1>6 DEF HalfRead
<1>10. Len(t) + m >= 4
  BY <1>1, <1>6, <1>9
<1>11. \A i \in 1..Len(t) :
         /\ i + m \in {1, 3} => t[i] = Number(DataLength)
         /\ i + m \in {2, 4} => t[i].kind = "data" /\ t[i].len = DataLength
  <2> TAKE i \in 1..Len(t)
  <2>1. CASE i \in 1..Len(s)
    BY <2>1, <1>7, <1>9
  <2>2. CASE i = Len(s) + 1
    <3>1. ~(i + m \in {2, 4}) /\ t[i] = a
      BY <2>2, <1>1, <1>8, <1>9
    <3>2. QED  BY <3>1 DEF a
  <2>3. CASE i = Len(s) + 2
    <3>1. ~(i + m \in {1, 3}) /\ t[i] = b
      BY <2>3, <1>1, <1>8, <1>9
    <3>2. QED  BY <3>1, <1>2
  <2>4. CASE i > Len(s) + 2
    BY <2>4, <1>1, <1>9
  <2>5. QED  BY <2>1, <2>2, <2>3, <2>4, <1>1, <1>6
<1>12. HalfRead(at, t, m)
  BY <1>6, <1>10, <1>11 DEF HalfRead
<1>13. QED  BY <1>5, <1>12 DEF t, u, ab, a, b

-----------------------------------------------------------------------------
\* The steps of the client.

LEMMA LeadsAlone ==
  /\ \A e \in Solid : Leads(<<e>>, e, <<>>)
  /\ Number("ok") \in Solid /\ Number("error") \in Solid /\ Number("ok").len = 4 /\ Number("error").len = 4
  /\ Number("ok").val = "ok" /\ Number("error").val = "error"
<1>1. \A e \in Solid : <<e>> = <<e>> \o <<>> /\ <<>> \in Seq(Solid)
  OBVIOUS
<1>2. QED  BY <1>1, SolidNumbers DEF Leads

\* Where the client is, and what a receive of its takes.
LEMMA Places4 ==
  /\ \A p, n : At(p, n).at = p /\ At(p, n).need = n
  /\ \A p, n, q, m : At(p, n) = At(q, m) => p = q
  /\ \A p, n, f : Doing(p, n, f).at = p /\ Doing(p, n, f).need = n /\ Doing(p, n, f).func = f
  BY DEF At, Doing

\* What is received does not fail.
LEMMA ReceivesNotFails ==
  \A s, n : Receives(s, n) => ~Fails(s, n)
  BY DEF Receives, Fails

\* What a step that leaves the call and what came of it as they are leaves true.
LEMMA SameCall ==
  ASSUME CallOK, RanOK, ArgumentsArrive, UNCHANGED <<calls, call, ran>>
  PROVE  CallOK' /\ RanOK' /\ ArgumentsArrive' /\ (FitsSignature' <=> FitsSignature)
<1>1. calls' = calls /\ call' = call /\ ran' = ran
  OBVIOUS
<1>2. CallOK'
  BY <1>1 DEF CallOK
<1>3. RanOK'
  BY <1>1 DEF RanOK
<1>4. ArgumentsArrive'
  BY <1>1 DEF ArgumentsArrive
<1>5. FitsSignature' <=> FitsSignature
  BY <1>1 DEF FitsSignature
<1>6. QED  BY <1>2, <1>3, <1>4, <1>5

LEMMA LeaveKeeps == ASSUME IInv, Leave PROVE IInv'
<1>1. /\ client.at = "idle" /\ closed' = TRUE
      /\ UNCHANGED <<store, hash, table, toServer, toClient, calls, call, client, server>>
      /\ UNCHANGED <<returned, ran, skewed>>
  BY DEF Leave
<1>2. Types'
  BY <1>1 DEF IInv, Types
<1>3. CallOK' /\ RanOK' /\ ArgumentsArrive' /\ (FitsSignature' <=> FitsSignature)
  BY <1>1, SameCall DEF IInv
<1>4. ResultsReturn'
  BY <1>1 DEF IInv, ResultsReturn
<1>5. RefusalsExplained'
  BY <1>1, <1>3 DEF IInv, RefusalsExplained
<1>6. ASSUME skewed PROVE OutOfStep'
  <2>1. OutOfStep
    BY <1>6 DEF IInv, InStep
  <2>2. Ended => Ended'
    BY <1>1 DEF Ended
  <2>3. QED  BY <2>1, <2>2, <1>1 DEF OutOfStep
<1>7. ASSUME ~skewed PROVE Waits'
  <2>1. Waits
    <3>1. Asked \/ Rejected \/ Answered \/ Waits
      BY <1>7 DEF IInv, InStep
    <3>2. ~Asked /\ ~Rejected
      <4>1. Asked \/ Rejected => client = At("status", 4)
        BY Zenon DEF Asked, Asking, Rejected
      <4>2. "status" # "idle"
        OBVIOUS
      <4>3. QED  BY <4>1, <4>2, <1>1, Places4
    <3>3. ~Answered
      BY <1>1, Places4 DEF Answered, Refused, Done, Replies
    <3>4. QED  BY <3>1, <3>2, <3>3
  <2>2. Ended => Ended'
    BY <1>1 DEF Ended
  <2>3. AtTop => AtTop'
    BY <1>1 DEF AtTop
  <2>4. QED  BY <2>1, <2>2, <2>3, <1>1 DEF Waits
<1>8. InStep'
  BY <1>1, <1>6, <1>7 DEF InStep
<1>9. QED  BY <1>2, <1>3, <1>4, <1>5, <1>8 DEF IInv

\* What the client knows when the answer is there.
LEMMA AnswerArrives ==
  ASSUME IInv, Answered
  PROVE  /\ Refused => Leads(toClient, Number("error"), <<>>)
         /\ Done => Leads(toClient, Number("ok"), <<>>)
         /\ Replies =>
              LET pack == ResultsOf(call.f, calls, ran.empty) IN
              /\ Leads(Reply(pack), Number("ok"), Replied(pack))
              /\ Leads(Replied(pack), Number(Lengths(Body(pack))), Sent(Body(pack)))
              /\ pack \in Seq(Param) /\ pack # <<>> /\ Packs(pack)
              /\ ran.empty = None => Full(pack)
<1>1. Refused => Leads(toClient, Number("error"), <<>>)
  BY LeadsAlone DEF Refused
<1>2. Done => Leads(toClient, Number("ok"), <<>>)
  BY LeadsAlone DEF Done
<1>3. ASSUME Replies
      PROVE  LET pack == ResultsOf(call.f, calls, ran.empty) IN
             /\ Leads(Reply(pack), Number("ok"), Replied(pack))
             /\ Leads(Replied(pack), Number(Lengths(Body(pack))), Sent(Body(pack)))
             /\ pack \in Seq(Param) /\ pack # <<>> /\ Packs(pack)
             /\ ran.empty = None => Full(pack)
  <2> DEFINE pack == ResultsOf(call.f, calls, ran.empty)
  <2>1. call.f \in DOMAIN StubReplies /\ calls \in Nat
    BY <1>3 DEF Replies, IInv, Types
  <2>2. pack \in Seq(Param) /\ pack # <<>> /\ Packs(pack) /\ (ran.empty = None => Full(pack))
    BY <2>1, ResultsPack
  <2> HIDE DEF pack
  <2>3. /\ Leads(Reply(pack), Number("ok"), Replied(pack))
        /\ Leads(Replied(pack), Number(Lengths(Body(pack))), Sent(Body(pack)))
    BY <2>2, ReplyIs
  <2>4. QED  BY <2>2, <2>3 DEF pack
<1>4. QED  BY <1>1, <1>2, <1>3

LEMMA ClientFailsKeeps == ASSUME IInv, ClientFails PROVE IInv'
<1>1. /\ client.at # "idle" /\ Fails(toClient, client.need)
      /\ client' = At("idle", 0) /\ returned' = [as |-> "failed", values |-> <<>>]
      /\ UNCHANGED <<store, hash, table, closed, toServer, toClient, calls, call, server>>
      /\ UNCHANGED <<ran, skewed>>
  BY DEF ClientFails, Return
<1>2. Types'
  BY <1>1 DEF IInv, Types
<1>3. CallOK' /\ RanOK' /\ ArgumentsArrive' /\ (FitsSignature' <=> FitsSignature)
  BY <1>1, SameCall DEF IInv
<1>4. returned'.as = "failed"
  BY <1>1
<1>5. ResultsReturn'
  BY <1>4 DEF ResultsReturn
<1>6. /\ Ended => Ended'
      /\ AtTop => AtTop'
  BY <1>1 DEF Ended, AtTop
<1>7. ASSUME skewed PROVE OutOfStep' /\ RefusalsExplained'
  <2>1. OutOfStep
    BY <1>7 DEF IInv, InStep
  <2>2. OutOfStep'
    BY <2>1, <1>1, <1>4, <1>6 DEF OutOfStep
  <2>3. skewed'
    BY <1>7, <1>1
  <2>4. QED  BY <2>2, <2>3 DEF RefusalsExplained
<1>8. ASSUME ~skewed PROVE Waits' /\ RefusalsExplained'
  <2>1. Asked \/ Rejected \/ Answered \/ Waits
    BY <1>8 DEF IInv, InStep
  <2>2. ~Asked
    <3>1. Asked => toClient = <<>> /\ ~closed /\ client = At("status", 4)
      BY Zenon DEF Asked, Asking
    <3>2. toClient = <<>> /\ client.need = 4 => Fails(<<>>, 4)
      BY <1>1
    <3>3. Fails(<<>>, 4) => closed
      BY TakesNothing DEF Fails
    <3>4. QED  BY <3>1, <3>2, <3>3, Places4
  <2>3. ~Waits
    BY <1>1, Places4 DEF Waits
  <2>4. ASSUME Rejected PROVE Waits' /\ RefusalsExplained'
    <3>1. Ended' /\ call.f \notin ToSet(Registered[store])
      BY <2>4, <1>6 DEF Rejected
    <3>2. call'.f \notin ToSet(Registered[store'])
      BY <3>1, <1>1
    <3>3. QED  BY <3>1, <3>2, <1>1 DEF Waits, RefusalsExplained
  <2>5. ASSUME Answered PROVE Waits' /\ RefusalsExplained'
    <3> DEFINE pack == ResultsOf(call.f, calls, ran.empty)
    <3>1. Replies
      <4>1. ASSUME NEW e, Leads(toClient, e, <<>>), e.len = 4, client = At("status", 4) PROVE FALSE
        BY <4>1, <1>1, TakesLead, ReceivesNotFails, Places4
      <4>2. ~Refused
        BY <4>1, <2>5, AnswerArrives, LeadsAlone DEF Refused
      <4>3. ~Done
        BY <4>1, <2>5, AnswerArrives, LeadsAlone DEF Done
      <4>4. QED  BY <2>5, <4>2, <4>3 DEF Answered
    <3>2. /\ Leads(Reply(pack), Number("ok"), Replied(pack))
          /\ Leads(Replied(pack), Number(Lengths(Body(pack))), Sent(Body(pack)))
          /\ pack \in Seq(Param) /\ pack # <<>> /\ Packs(pack)
          /\ ran.empty = None => Full(pack)
      BY <2>5, <3>1, AnswerArrives
    <3>3. /\ ran.as = "ok"
          /\ \/ client = At("status", 4) /\ toClient = Reply(pack)
             \/ client = At("length", 4) /\ toClient = Replied(pack)
             \/ client = At("pack", Lengths(Body(pack))) /\ toClient = Sent(Body(pack))
      BY <3>1, Zenon DEF Replies
    <3> HIDE DEF pack
    <3>4. ~Receives(toClient, client.need)
      BY <1>1, ReceivesNotFails
    <3>5. client = At("pack", Lengths(Body(pack))) /\ toClient = Sent(Body(pack))
      <4>1. Receives(Reply(pack), 4) /\ Receives(Replied(pack), 4)
        BY <3>2, TakesLead, SolidNumbers
      <4>2. QED  BY <4>1, <3>3, <3>4, Places4
    <3>6. ~Receives(Sent(Body(pack)), Lengths(Body(pack)))
      BY <3>4, <3>5, Places4
    <3>7. ran.empty # None /\ closed
      <4>1. /\ Full(pack) => Receives(Sent(Body(pack)), Lengths(Body(pack)))
            /\ Lengths(Sent(Body(pack))) >= Lengths(Body(pack)) =>
                 Receives(Sent(Body(pack)), Lengths(Body(pack)))
        BY <3>2, ReplyRead
      <4>2. Fails(Sent(Body(pack)), Lengths(Body(pack)))
        BY <3>5, <1>1, Places4
      <4>3. QED  BY <4>1, <4>2, <3>2, <3>6 DEF Fails
    <3>8. Ended'
      BY <3>7, <2>5, <1>6 DEF Answered
    <3>9. QED  BY <3>7, <3>8, <1>1 DEF Waits, RefusalsExplained
  <2>6. QED  BY <2>1, <2>2, <2>3, <2>4, <2>5
<1>9. InStep'
  BY <1>1, <1>7, <1>8 DEF InStep
<1>10. QED  BY <1>2, <1>3, <1>5, <1>7, <1>8, <1>9 DEF IInv

\* Nothing is said of a call that has not returned.
LEMMA NothingReturned ==
  returned' = NotReturned => ResultsReturn' /\ RefusalsExplained'
  BY DEF NotReturned, None, ResultsReturn, RefusalsExplained

\* The client has read the field e, and r is left.
LEMMA ClientTakesLead ==
  ASSUME NEW place, NEW k \in DOMAIN toClient, ClientTakes(place, k),
         NEW e, NEW r, Leads(toClient, e, r), client.need = e.len
  PROVE  Head(toClient) = e /\ toClient' = r
<1>1. Takes(toClient, client.need, k) /\ toClient' = Rest(toClient, k)
  BY DEF ClientTakes
<1>2. Takes(toClient, e.len, k)
  BY <1>1
<1>3. QED  BY <1>1, <1>2, TakesLead

LEMMA ReadStatusKeeps == ASSUME IInv, ReadStatus PROVE IInv'
<1>1. PICK k \in DOMAIN toClient : ClientTakes("status", k)
  BY DEF ReadStatus
<1>2. /\ client.at = "status"
      /\ UNCHANGED <<store, hash, table, closed, toServer, calls, call, server, ran, skewed>>
  BY <1>1 DEF ClientTakes
<1>3. /\ Head(toClient).val # "ok" =>
           client' = At("idle", 0) /\ returned' = [as |-> "error", values |-> <<>>]
      /\ Head(toClient).val = "ok" /\ call.f \in DOMAIN StubReplies =>
           client' = At("length", 4) /\ UNCHANGED returned
      /\ Head(toClient).val = "ok" /\ call.f \notin DOMAIN StubReplies =>
           client' = At("idle", 0) /\ returned' = [as |-> "ok", values |-> <<>>]
  BY SignaturesAgree DEF ReadStatus, Return
<1>4. toClient # <<>> /\ client # At("idle", 0) /\ returned = NotReturned
  BY <1>1, <1>2, Places4, TakesNothing DEF IInv, Types
<1>5. Types'
  BY <1>2, <1>3, <1>4, Places4 DEF IInv, Types
<1>6. CallOK' /\ RanOK' /\ ArgumentsArrive' /\ (FitsSignature' <=> FitsSignature)
  BY <1>2, SameCall DEF IInv
<1>7. /\ Ended => Ended'
      /\ AtTop => AtTop'
  BY <1>2 DEF Ended, AtTop
<1>8. ASSUME NEW e, NEW r, Leads(toClient, e, r), e.len = 4, client = At("status", 4)
      PROVE  Head(toClient) = e /\ toClient' = r
  BY <1>1, <1>8, ClientTakesLead, Places4
<1>9. ASSUME toClient = <<Number("error")>>, client = At("status", 4)
      PROVE  /\ client' = At("idle", 0) /\ toClient' = <<>>
             /\ returned' = [as |-> "error", values |-> <<>>]
  <2>1. Head(toClient) = Number("error") /\ toClient' = <<>>
    BY <1>8, <1>9, LeadsAlone
  <2>2. QED  BY <2>1, <1>3, LeadsAlone
<1>10. ASSUME skewed PROVE OutOfStep' /\ ResultsReturn' /\ RefusalsExplained'
  <2>1. OutOfStep
    BY <1>10 DEF IInv, InStep
  <2>2. toClient = <<Number("error")>> /\ client = At("status", 4) /\ Ended
    <3>1. toClient \in {<<>>, <<Number("error")>>} /\ client \in {At("idle", 0), At("status", 4)}
      BY <2>1, Zenon DEF OutOfStep
    <3>2. Ended \/ toClient = <<>>
      BY <2>1, Zenon DEF OutOfStep
    <3>3. QED  BY <3>1, <3>2, <1>4
  <2>3. client' = At("idle", 0) /\ toClient' = <<>> /\ returned'.as = "error"
    BY <2>2, <1>9
  <2>4. OutOfStep'
    BY <2>1, <2>2, <2>3, <1>2, <1>7 DEF OutOfStep
  <2>5. QED  BY <2>3, <2>4, <1>10, <1>2 DEF ResultsReturn, RefusalsExplained
<1>11. ASSUME ~skewed PROVE (Waits \/ Answered)' /\ ResultsReturn' /\ RefusalsExplained'
  <2>1. Asked \/ Rejected \/ Answered \/ Waits
    BY <1>11 DEF IInv, InStep
  <2>2. ~Asked /\ ~Waits
    <3>1. Asked => toClient = <<>>
      BY Zenon DEF Asked, Asking
    <3>2. Waits => client = At("idle", 0)
      BY DEF Waits
    <3>3. QED  BY <3>1, <3>2, <1>4
  <2>3. ASSUME Rejected PROVE Waits' /\ ResultsReturn' /\ RefusalsExplained'
    <3>1. /\ client = At("status", 4) /\ toClient = <<Number("error")>> /\ Ended
          /\ call.f \notin ToSet(Registered[store])
      BY <2>3, <1>4 DEF Rejected
    <3>2. client' = At("idle", 0) /\ returned'.as = "error"
      BY <3>1, <1>9
    <3>3. Waits'
      BY <3>1, <3>2, <1>7 DEF Waits
    <3>4. call'.f \notin ToSet(Registered[store'])
      BY <3>1, <1>2
    <3>5. QED  BY <3>2, <3>3, <3>4 DEF ResultsReturn, RefusalsExplained
  <2>4. ASSUME Answered, client' = At("idle", 0), toClient' = <<>> PROVE Waits'
    <3>1. toServer = <<>> /\ (AtTop \/ Ended)
      BY <2>4 DEF Answered
    <3>2. toServer' = <<>> /\ (AtTop' \/ Ended')
      BY <3>1, <1>2, <1>7
    <3>3. QED  BY <3>2, <2>4 DEF Waits
  <2>5. ASSUME Answered, Refused PROVE Waits' /\ ResultsReturn' /\ RefusalsExplained'
    <3>1. /\ client = At("status", 4) /\ toClient = <<Number("error")>>
          /\ ran.as = "error" \/ ~FitsSignature
      BY <2>5 DEF Refused
    <3>2. client' = At("idle", 0) /\ toClient' = <<>> /\ returned'.as = "error"
      BY <3>1, <1>9
    <3>3. ran'.as = "error" \/ ~FitsSignature'
      BY <3>1, <1>2, <1>6
    <3>4. QED  BY <3>2, <3>3, <2>4, <2>5 DEF ResultsReturn, RefusalsExplained
  <2>6. ASSUME Answered, Done PROVE Waits' /\ ResultsReturn' /\ RefusalsExplained'
    <3>1. /\ client = At("status", 4) /\ Leads(toClient, Number("ok"), <<>>)
          /\ ran.as = "ok" /\ call.f \notin DOMAIN StubReplies
      BY <2>6, AnswerArrives DEF Done
    <3>2. Head(toClient).val = "ok" /\ toClient' = <<>>
      BY <3>1, <1>8, LeadsAlone
    <3>3. client' = At("idle", 0) /\ returned' = [as |-> "ok", values |-> <<>>] /\ ran'.as = "ok"
      BY <3>1, <3>2, <1>2, <1>3
    <3>4. returned'.as = "ok" /\ DOMAIN returned'.values = {}
      BY <3>3
    <3>5. QED  BY <3>2, <3>3, <3>4, <2>4, <2>6 DEF ResultsReturn, RefusalsExplained
  <2>7. ASSUME Answered, Replies PROVE Answered' /\ ResultsReturn' /\ RefusalsExplained'
    <3> DEFINE pack == ResultsOf(call.f, calls, ran.empty)
    <3>1. Leads(Reply(pack), Number("ok"), Replied(pack))
      BY <2>7, AnswerArrives
    <3>2. /\ ran.as = "ok" /\ call.f \in DOMAIN StubReplies
          /\ \/ client = At("status", 4) /\ toClient = Reply(pack)
             \/ client = At("length", 4) /\ toClient = Replied(pack)
             \/ client = At("pack", Lengths(Body(pack))) /\ toClient = Sent(Body(pack))
      BY <2>7, Zenon DEF Replies
    <3>3. pack' = pack
      BY <1>2
    <3> HIDE DEF pack
    <3>4. client = At("status", 4) /\ toClient = Reply(pack)
      BY <3>2, <1>2, Places4
    <3>5. Head(toClient).val = "ok" /\ toClient' = Replied(pack)
      BY <3>1, <3>4, <1>8, LeadsAlone
    <3>6. client' = At("length", 4) /\ returned' = NotReturned
      BY <3>2, <3>5, <1>3, <1>4
    <3>7. toClient' = Replied(pack') /\ ran'.as = "ok" /\ call'.f \in DOMAIN StubReplies
      BY <3>2, <3>3, <3>5, <1>2
    <3>8. Replies'
      BY <3>6, <3>7 DEF Replies, pack
    <3>9. call' # NoCall /\ toServer' = <<>> /\ ((AtTop' /\ ~closed') \/ Ended')
      BY <2>7, <1>2, <1>7 DEF Answered
    <3>10. QED  BY <3>6, <3>8, <3>9, NothingReturned DEF Answered
  <2>8. QED  BY <2>1, <2>2, <2>3, <2>5, <2>6, <2>7 DEF Answered
<1>12. InStep'
  BY <1>2, <1>10, <1>11 DEF InStep
<1>13. QED  BY <1>5, <1>6, <1>10, <1>11, <1>12 DEF IInv

\* Only an answer with results is read further than its status.
LEMMA ReadsFurther ==
  ASSUME IInv, client.at \in {"length", "pack"}
  PROVE  ~skewed /\ Answered /\ Replies
<1>1. ~skewed
  <2>1. OutOfStep => client \in {At("idle", 0), At("status", 4)}
    BY Zenon DEF OutOfStep
  <2>2. ~OutOfStep
    BY <2>1, Places4
  <2>3. QED  BY <2>2 DEF IInv, InStep
<1>2. /\ Asked \/ Rejected \/ Refused \/ Done => client = At("status", 4)
      /\ Waits => client = At("idle", 0)
  BY Zenon DEF Asked, Asking, Rejected, Refused, Done, Waits
<1>3. ~Asked /\ ~Rejected /\ ~Refused /\ ~Done /\ ~Waits
  BY <1>2, Places4
<1>4. QED  BY <1>1, <1>3 DEF IInv, InStep, Answered

LEMMA ReadReplyLengthKeeps == ASSUME IInv, ReadReplyLength PROVE IInv'
<1>1. PICK k \in DOMAIN toClient : ClientTakes("length", k)
  BY DEF ReadReplyLength
<1>2. /\ client.at = "length" /\ client' = At("pack", Head(toClient).val)
      /\ UNCHANGED <<store, hash, table, closed, toServer, calls, call, server, ran, skewed>>
      /\ UNCHANGED returned
  BY <1>1 DEF ClientTakes, ReadReplyLength
<1>3. ~skewed /\ Answered /\ Replies
  BY <1>2, ReadsFurther
<1>4. client # At("idle", 0) /\ returned = NotReturned
  BY <1>2, Places4 DEF IInv, Types
<1>5. Types'
  BY <1>2, <1>4 DEF IInv, Types
<1>6. CallOK' /\ RanOK' /\ ArgumentsArrive'
  BY <1>2, SameCall DEF IInv
<1>7. /\ Ended => Ended'
      /\ AtTop => AtTop'
  BY <1>2 DEF Ended, AtTop
<1> DEFINE pack == ResultsOf(call.f, calls, ran.empty)
<1>8. Leads(Replied(pack), Number(Lengths(Body(pack))), Sent(Body(pack)))
  BY <1>3, AnswerArrives
<1>9. /\ ran.as = "ok" /\ call.f \in DOMAIN StubReplies
      /\ \/ client = At("status", 4) /\ toClient = Reply(pack)
         \/ client = At("length", 4) /\ toClient = Replied(pack)
         \/ client = At("pack", Lengths(Body(pack))) /\ toClient = Sent(Body(pack))
  BY <1>3, Zenon DEF Replies
<1>10. pack' = pack
  BY <1>2
<1> HIDE DEF pack
<1>11. client = At("length", 4) /\ toClient = Replied(pack)
  BY <1>2, <1>9, Places4
<1>12. Head(toClient) = Number(Lengths(Body(pack))) /\ toClient' = Sent(Body(pack))
  <2>1. client.need = Number(Lengths(Body(pack))).len
    BY <1>11, Places4, SolidNumbers
  <2>2. Leads(toClient, Number(Lengths(Body(pack))), Sent(Body(pack)))
    BY <1>8, <1>11
  <2>3. QED  BY <2>1, <2>2, <1>1, ClientTakesLead
<1>13. client' = At("pack", Lengths(Body(pack')))
  BY <1>2, <1>10, <1>12, SolidNumbers
<1>14. toClient' = Sent(Body(pack')) /\ ran'.as = "ok" /\ call'.f \in DOMAIN StubReplies
  BY <1>2, <1>9, <1>10, <1>12
<1>15. Replies'
  BY <1>13, <1>14 DEF Replies, pack
<1>16. call' # NoCall /\ toServer' = <<>> /\ ((AtTop' /\ ~closed') \/ Ended')
  BY <1>2, <1>3, <1>7 DEF Answered
<1>17. InStep'
  BY <1>2, <1>3, <1>15, <1>16 DEF InStep, Answered
<1>18. QED  BY <1>2, <1>4, <1>5, <1>6, <1>17, NothingReturned DEF IInv

LEMMA ReadReplyKeeps == ASSUME IInv, ReadReply PROVE IInv'
<1> DEFINE pack == ResultsOf(call.f, calls, ran.empty)
           names == ProxyResults[call.f]
           got(k) == SubSeq(toClient, 1, k)
<1>1. PICK k \in DOMAIN toClient :
        /\ ClientTakes("pack", k)
        /\ IF Readable(got(k)) /\ Extracts(Unpack(got(k)), TypesOf(names))
           THEN Return("ok", [p \in ToSet(names) |-> ByName(names, Unpack(got(k)), p)])
           ELSE Return("failed", <<>>)
  BY DEF ReadReply
<1>2. /\ client.at = "pack" /\ Takes(toClient, client.need, k) /\ toClient' = Rest(toClient, k)
      /\ UNCHANGED <<store, hash, table, closed, toServer, calls, call, server, ran, skewed>>
  BY <1>1 DEF ClientTakes
<1>3. ~skewed /\ Answered /\ Replies
  BY <1>2, ReadsFurther
<1>4. client' = At("idle", 0)
  BY <1>1 DEF Return
<1>5. Types'
  BY <1>2, <1>4 DEF IInv, Types
<1>6. CallOK' /\ RanOK' /\ ArgumentsArrive'
  BY <1>2, SameCall DEF IInv
<1>7. /\ pack \in Seq(Param) /\ pack # <<>> /\ Packs(pack) /\ (ran.empty = None => Full(pack))
      /\ Extracts(pack, TypesOf(names))
      /\ \A p \in ToSet(names) :
           ByName(names, pack, p) = IF p = ran.empty THEN Empty ELSE <<"res", calls, p>>
  <2>1. call.f \in DOMAIN StubReplies /\ calls \in Nat
    BY <1>3 DEF Replies, IInv, Types
  <2>2. QED  BY <2>1, ResultsPack
<1>8. ran.as = "ok" /\ client = At("pack", Lengths(Body(pack))) /\ toClient = Sent(Body(pack))
  <2>1. /\ ran.as = "ok"
        /\ \/ client = At("status", 4)
           \/ client = At("length", 4)
           \/ client = At("pack", Lengths(Body(pack))) /\ toClient = Sent(Body(pack))
    BY <1>3, Zenon DEF Replies
  <2> HIDE DEF pack
  <2>2. QED  BY <2>1, <1>2, Places4
<1> HIDE DEF pack
<1>9. Takes(Sent(Body(pack)), Lengths(Body(pack)), k) /\ k \in DOMAIN Sent(Body(pack))
  BY <1>1, <1>2, <1>8, Places4
<1>10. /\ toClient' = <<>> /\ got(k) = Sent(Body(pack))
       /\ Readable(got(k)) => Unpack(got(k)) = pack
       /\ Full(pack) => Readable(got(k))
  BY <1>2, <1>7, <1>8, <1>9, ReplyRead
<1> HIDE DEF got, names
<1>11. Waits'
  <2>1. toServer' = <<>> /\ (AtTop' \/ Ended')
    BY <1>2, <1>3 DEF Answered, AtTop, Ended
  <2>2. QED  BY <2>1, <1>4, <1>10 DEF Waits
<1>12. ASSUME Readable(got(k)) PROVE ResultsReturn' /\ RefusalsExplained'
  <2> DEFINE values == [p \in ToSet(names) |-> ByName(names, pack, p)]
  <2>1. returned' = [as |-> "ok", values |-> values]
    BY <1>1, <1>7, <1>10, <1>12 DEF Return
  <2>2. /\ DOMAIN values = ToSet(names)
        /\ \A p \in ToSet(names) : values[p] = IF p = ran.empty THEN Empty ELSE <<"res", calls, p>>
    BY <1>7
  <2> HIDE DEF values
  <2>3. returned'.as = "ok" /\ returned'.values = values /\ ran' = ran /\ calls' = calls
    BY <2>1, <1>2
  <2>4. QED  BY <2>2, <2>3, <1>8 DEF ResultsReturn, RefusalsExplained
<1>13. ASSUME ~Readable(got(k)) PROVE ResultsReturn' /\ RefusalsExplained'
  <2>1. returned'.as = "failed" /\ ran' = ran
    BY <1>1, <1>2, <1>13 DEF Return
  <2>2. ran.empty # None
    BY <1>7, <1>10, <1>13
  <2>3. QED  BY <2>1, <2>2 DEF ResultsReturn, RefusalsExplained
<1>14. InStep'
  BY <1>2, <1>3, <1>11 DEF InStep
<1>15. QED  BY <1>5, <1>6, <1>12, <1>13, <1>14 DEF IInv

-----------------------------------------------------------------------------
\* The client calls.

\* A connection on which the name of f is sent, and then r.
Extended(s, f, r) == s \o <<Number(DataLength), Name(f)>> \o r

LEMMA OneByOne ==
  ASSUME NEW a \in Solid, NEW b \in Solid, NEW r \in Seq(Solid)
  PROVE  <<>> \o <<a, b>> \o r = <<a>> \o (<<b>> \o r)
<1> DEFINE x == <<a>>  y == <<b>>  xy == <<a, b>>
<1>1. x \in Seq(Solid) /\ y \in Seq(Solid) /\ xy \in Seq(Solid)
  OBVIOUS
<1>2. xy = x \o y
  <2>1. xy = Append(x, b)
    OBVIOUS
  <2> HIDE DEF x, xy
  <2>2. Append(x, b) = x \o <<b>>
    BY <1>1, AppendIsConcat
  <2>3. QED  BY <2>1, <2>2
<1> HIDE DEF x, y, xy
<1>3. (x \o y) \o r = x \o (y \o r)
  BY <1>1, ConcatAssociative
<1>4. <<>> \o xy \o r = x \o (y \o r)
  <2>1. <<>> \o xy = xy
    BY <1>1, ConcatEmptySeq
  <2>2. QED  BY <2>1, <1>2, <1>3
<1>5. QED  BY <1>4 DEF x, y, xy

LEMMA ExtendsNothing ==
  /\ \A f, params : params # <<>> /\ f \in Names /\ PackFields(params) \in Seq(Solid) =>
       Extended(<<>>, f, PackFields(params)) = Request(f, params)
  /\ \A f \in Names : \A at : at.at = "length" /\ at.need = 4 =>
       HalfRead(at, Extended(<<>>, f, <<>>), 0) /\ Extended(<<>>, f, <<>>) \in Seq(Solid)
<1>1. Number(DataLength) \in Solid
  BY DataLengthAssumption, SolidNumbers
<1>2. ASSUME NEW f \in Names, NEW r \in Seq(Solid)
      PROVE  Extended(<<>>, f, r) = <<Number(DataLength)>> \o (<<Name(f)>> \o r)
  BY <1>1, <1>2, SolidName, OneByOne DEF Extended
<1>3. \A f, params : params # <<>> /\ f \in Names /\ PackFields(params) \in Seq(Solid) =>
       Extended(<<>>, f, PackFields(params)) = Request(f, params)
  BY <1>2 DEF Request, Named
<1>4. ASSUME NEW f \in Names, NEW at, at.at = "length", at.need = 4
      PROVE  HalfRead(at, Extended(<<>>, f, <<>>), 0) /\ Extended(<<>>, f, <<>>) \in Seq(Solid)
  <2> DEFINE a == Number(DataLength)  b == Name(f)  t == <<a, b>>
  <2>1. a \in Solid /\ b \in Solid /\ b.kind = "data" /\ b.len = DataLength
    BY <1>1, SolidName
  <2> HIDE DEF a, b
  <2>2. t \in Seq(Solid) /\ <<>> \o t \o <<>> = t
    BY <2>1
  <2>3. Extended(<<>>, f, <<>>) = t
    BY <2>2 DEF Extended, a, b
  <2>4. Len(t) = 2 /\ DOMAIN t = 1..2 /\ t[1] = a /\ t[2] = b
    OBVIOUS
  <2> HIDE DEF t
  <2>5. \A i \in DOMAIN t : /\ i + 0 \in {1, 3} => t[i] = Number(DataLength)
                            /\ i + 0 \in {2, 4} => t[i].kind = "data" /\ t[i].len = DataLength
    <3>1. ASSUME NEW i \in DOMAIN t
          PROVE  /\ i + 0 \in {1, 3} => t[i] = a
                 /\ i + 0 \in {2, 4} => t[i] = b
      BY <2>4
    <3>2. QED  BY <3>1, <2>1 DEF a
  <2>6. Len(t) + 0 = 2
    BY <2>4
  <2>7. HalfRead(at, t, 0)
    BY <1>4, <2>5, <2>6, Zenon DEF HalfRead
  <2>8. QED  BY <2>2, <2>3, <2>7
<1>5. QED  BY <1>3, <1>4

LEMMA HalfReadExtends ==
  ASSUME NEW s \in Seq(Solid), NEW at, NEW m \in 0..3, HalfRead(at, s, m),
         NEW f \in Names, NEW r \in Seq(Solid)
  PROVE  HalfRead(at, Extended(s, f, r), m) /\ Extended(s, f, r) \in Seq(Solid)
  BY HalfReadGrows DEF Extended

LEMMA NoneIsNoName == None \notin Names
  BY DEF None, Names, Registered, KeyStoreRegistered, DataStoreRegistered,
         CredentialStoreRegistered, ToSet

\* Where the connection is when the client may call.
LEMMA WhenIdle ==
  ASSUME IInv, client.at = "idle"
  PROVE  IF skewed THEN OutOfStep ELSE Waits
<1>1. ASSUME ~skewed PROVE Waits
  <2>1. Asked \/ Rejected \/ Refused \/ Done => client = At("status", 4)
    BY Zenon DEF Asked, Asking, Rejected, Refused, Done
  <2>2. Replies => \E n : client \in {At("status", 4), At("length", 4), At("pack", n)}
    BY DEF Replies
  <2>3. ~Asked /\ ~Rejected /\ ~Refused /\ ~Done /\ ~Replies
    BY <2>1, <2>2, Places4
  <2>4. QED  BY <1>1, <2>3 DEF IInv, InStep, Answered
<1>2. QED  BY <1>1 DEF IInv, InStep

LEMMA CallKeeps ==
  ASSUME IInv, NEW f \in Names, NEW params \in PacksFor(f), Call(f, params)
  PROVE  IInv'
<1>1. /\ client.at = "idle" /\ calls' = calls + 1
      /\ call' = [f |-> f, params |-> params, late |-> closed] /\ ran' = NotRun
      /\ UNCHANGED <<store, hash, table, closed, toClient, server>>
  BY DEF Call
<1>2. /\ ~Packs(params) \/ closed =>
           /\ client' = At("idle", 0) /\ returned' = [as |-> "failed", values |-> <<>>]
           /\ UNCHANGED <<toServer, skewed>>
      /\ Packs(params) /\ ~closed =>
           /\ toServer' = Extended(toServer, f, PackFields(params))
           /\ params = <<>> =>
                /\ client' = At("idle", 0) /\ returned' = [as |-> "failed", values |-> <<>>]
                /\ skewed' = TRUE
           /\ params # <<>> =>
                client' = At("status", 4) /\ returned' = NotReturned /\ UNCHANGED skewed
  BY DEF Call, Return, Extended
<1>3. /\ IF skewed THEN OutOfStep ELSE Waits
      /\ calls \in Nat /\ toServer \in Seq(Solid) /\ closed \in BOOLEAN /\ skewed \in BOOLEAN
  BY <1>1, WhenIdle DEF IInv, Types
<1>4. params \in Seq(Param) /\ Full(params) /\ ParamsOK(f, params, calls + 1)
  <2>1. ParamsOK(f, params, calls + 1)
    BY <1>3, CallPack
  <2>2. QED  BY <2>1 DEF ParamsOK
<1>5. call' # NoCall /\ call'.f = f /\ call'.params = params /\ call'.late = closed
  <2>1. call'.f = f /\ call'.params = params /\ call'.late = closed
    BY <1>1
  <2>2. f # None
    BY NoneIsNoName
  <2>3. QED  BY <2>1, <2>2 DEF NoCall
<1>6. CallOK'
  BY <1>1, <1>4, <1>5 DEF CallOK
<1>7. RanOK' /\ ArgumentsArrive' /\ ran' = NotRun
  BY <1>1 DEF RanOK, ArgumentsArrive, NotRun
<1>8. /\ Ended => Ended'
      /\ AtTop => AtTop'
  BY <1>1 DEF Ended, AtTop
<1>9. CASE ~Packs(params) \/ closed
  <2>1. /\ client' = At("idle", 0) /\ returned' = [as |-> "failed", values |-> <<>>]
        /\ toServer' = toServer /\ skewed' = skewed /\ returned'.as = "failed"
    BY <1>2, <1>9
  <2>2. Types'
    BY <1>1, <2>1 DEF IInv, Types
  <2>3. ResultsReturn'
    BY <2>1 DEF ResultsReturn
  <2>4. RefusalsExplained'
    <3>1. ~Packs(params) => ~FitsSignature'
      BY <1>5 DEF Packs, FitsSignature
    <3>2. closed => call'.late
      BY <1>5
    <3>3. QED  BY <3>1, <3>2, <1>9 DEF RefusalsExplained
  <2>5. skewed => OutOfStep'
    BY <1>1, <1>3, <1>7, <1>8, <2>1 DEF OutOfStep
  <2>6. ~skewed => Waits'
    BY <1>1, <1>3, <1>8, <2>1 DEF Waits
  <2>7. InStep'
    BY <2>1, <2>5, <2>6 DEF InStep
  <2>8. QED  BY <1>6, <1>7, <2>2, <2>3, <2>4, <2>7 DEF IInv
<1>10. CASE Packs(params) /\ ~closed /\ params = <<>>
  <2>1. /\ client' = At("idle", 0) /\ returned' = [as |-> "failed", values |-> <<>>]
        /\ returned'.as = "failed" /\ skewed' = TRUE /\ toServer' = Extended(toServer, f, <<>>)
    <3>1. PackFields(params) = <<>>
      BY <1>10 DEF PackFields
    <3>2. QED  BY <3>1, <1>2, <1>10
  <2>2. toClient = <<>> /\ \E m \in 0..3 : HalfRead(server, toServer', m) /\ toServer' \in Seq(Solid)
    <3>1. ~Ended
      BY <1>10 DEF Ended
    <3>2. ASSUME skewed
          PROVE  toClient = <<>> /\ \E m \in 0..3 : HalfRead(server, toServer', m) /\ toServer' \in Seq(Solid)
      <4>1. PICK m \in 0..3 : toClient = <<>> /\ HalfRead(server, toServer, m)
        BY <3>1, <3>2, <1>3, Zenon DEF OutOfStep
      <4>2. <<>> \in Seq(Solid)
        OBVIOUS
      <4>3. QED  BY <4>1, <4>2, <2>1, <1>3, HalfReadExtends
    <3>3. ASSUME ~skewed
          PROVE  toClient = <<>> /\ \E m \in 0..3 : HalfRead(server, toServer', m) /\ toServer' \in Seq(Solid)
      <4>1. AtTop /\ toServer = <<>> /\ toClient = <<>>
        BY <3>1, <3>3, <1>3, <1>10 DEF Waits
      <4>2. server.at = "length" /\ server.need = 4
        BY <4>1, Places4 DEF AtTop
      <4>3. 0 \in 0..3
        OBVIOUS
      <4>4. QED  BY <4>1, <4>2, <4>3, <2>1, ExtendsNothing
    <3>4. QED  BY <3>2, <3>3
  <2>3. Types'
    BY <1>1, <1>3, <2>1, <2>2 DEF IInv, Types
  <2>4. OutOfStep'
    <3>1. \E m \in 0..3 : HalfRead(server', toServer', m)
      BY <2>2, <1>1
    <3>2. toClient' = <<>>
      BY <2>2, <1>1
    <3>3. QED  BY <3>1, <3>2, <2>1, <1>7 DEF OutOfStep
  <2>5. InStep' /\ ResultsReturn' /\ RefusalsExplained'
    BY <2>1, <2>4 DEF InStep, ResultsReturn, RefusalsExplained
  <2>6. QED  BY <1>6, <1>7, <2>3, <2>5 DEF IInv
<1>11. CASE Packs(params) /\ ~closed /\ params # <<>>
  <2>1. /\ client' = At("status", 4) /\ returned' = NotReturned /\ skewed' = skewed
        /\ toServer' = Extended(toServer, f, PackFields(params))
    BY <1>2, <1>11
  <2>2. /\ Leads(Request(f, params), Number(DataLength), Named(f, params))
        /\ PackFields(params) \in Seq(Solid)
    <3>1. /\ Leads(Request(f, params), Number(DataLength), Named(f, params))
          /\ Leads(PackFields(params), Number(Lengths(Body(params))), Body(params))
      BY <1>4, <1>11, RequestIs
    <3>2. QED  BY <3>1, TakesLead
  <2>3. ~Ended
    BY <1>11 DEF Ended
  <2>4. ASSUME skewed PROVE OutOfStep' /\ toServer' \in Seq(Solid)
    <3>1. PICK m \in 0..3 : toClient = <<>> /\ HalfRead(server, toServer, m)
      BY <2>3, <2>4, <1>3, Zenon DEF OutOfStep
    <3>2. HalfRead(server, toServer', m) /\ toServer' \in Seq(Solid)
      BY <3>1, <2>1, <2>2, <1>3, HalfReadExtends
    <3>3. HalfRead(server', toServer', m) /\ toClient' = <<>>
      BY <3>1, <3>2, <1>1
    <3>4. returned'.as # "ok"
      BY <2>1 DEF NotReturned, None
    <3>5. QED  BY <3>2, <3>3, <3>4, <2>1, <1>7, Zenon DEF OutOfStep
  <2>5. ASSUME ~skewed PROVE Asked' /\ toServer' \in Seq(Solid)
    <3>1. AtTop /\ toServer = <<>> /\ toClient = <<>>
      BY <2>3, <2>5, <1>3, <1>11 DEF Waits
    <3>2. toServer' = Request(f, params)
      BY <3>1, <2>1, <2>2, <1>11, ExtendsNothing
    <3>3. toServer' \in Seq(Solid)
      BY <3>2, <2>2, TakesLead
    <3>4. /\ call' # NoCall /\ client' = At("status", 4) /\ toClient' = <<>> /\ ~closed'
          /\ ran' = NotRun /\ call'.params # <<>> /\ Packs(call'.params) /\ AtTop'
          /\ toServer' = Request(call'.f, call'.params)
      BY <3>1, <3>2, <2>1, <1>1, <1>5, <1>7, <1>8, <1>11
    <3>5. Asked'
      BY <3>4, Zenon DEF Asked, Asking, Arriving
    <3>6. QED  BY <3>3, <3>5
  <2>6. Types'
    BY <1>1, <1>3, <2>1, <2>4, <2>5 DEF IInv, Types
  <2>7. InStep'
    BY <2>1, <2>4, <2>5 DEF InStep
  <2>8. QED  BY <1>6, <1>7, <2>1, <2>6, <2>7, NothingReturned DEF IInv
<1>12. QED  BY <1>9, <1>10, <1>11

-----------------------------------------------------------------------------
\* The steps of the server.

LEMMA RestSolid ==
  ASSUME NEW s \in Seq(Solid), NEW k \in DOMAIN s
  PROVE  Rest(s, k) \in Seq(Solid)
<1>1. Len(s) \in Nat /\ k \in 1..Len(s) /\ \A i \in 1..Len(s) : s[i] \in Solid
  BY ElementOfSeq
<1>2. k + 1 \in Nat /\ \A i \in (k + 1)..Len(s) : s[i] \in Solid
  BY <1>1
<1>3. SubSeq(s, k + 1, Len(s)) \in Seq(Solid)
  <2> DEFINE i == k + 1
  <2>1. i \in 1..(Len(s) + 1) /\ \A j \in i..Len(s) : s[j] \in Solid
    BY <1>1, <1>2
  <2> HIDE DEF i
  <2>2. SubSeq(s, i, Len(s)) \in Seq(Solid)
    BY <2>1, <1>1, SubSeqProperties
  <2>3. QED  BY <2>2 DEF i
<1>4. QED  BY <1>3 DEF Rest

\* A server that is not at its end, and has something to read, reads a request, or is out
\* of step.
LEMMA ServerReads ==
  ASSUME IInv, toServer # <<>>, server.at # "ended"
  PROVE  /\ ~skewed => Asked /\ returned = NotReturned
         /\ skewed => /\ ran = NotRun /\ returned.as # "ok" /\ toClient = <<>>
                      /\ client \in {At("idle", 0), At("status", 4)}
                      /\ \E m \in 0..3 : HalfRead(server, toServer, m)
<1>1. ~Ended
  BY DEF Ended
<1>2. ASSUME ~skewed PROVE Asked /\ returned = NotReturned
  <2>1. Rejected => Ended
    BY Zenon DEF Rejected
  <2>2. Answered \/ Waits => toServer = <<>> \/ Ended
    BY Zenon DEF Answered, Waits
  <2>3. Asked
    BY <1>1, <1>2, <2>1, <2>2 DEF IInv, InStep
  <2>4. client = At("status", 4)
    BY <2>3, Zenon DEF Asked, Asking
  <2>5. client # At("idle", 0)
    BY <2>4, Places4
  <2>6. QED  BY <2>3, <2>5 DEF IInv, Types
<1>3. ASSUME skewed
      PROVE  /\ ran = NotRun /\ returned.as # "ok" /\ toClient = <<>>
             /\ client \in {At("idle", 0), At("status", 4)}
             /\ \E m \in 0..3 : HalfRead(server, toServer, m)
  <2>1. OutOfStep
    BY <1>3 DEF IInv, InStep
  <2>2. QED  BY <1>1, <2>1, Zenon DEF OutOfStep
<1>4. QED  BY <1>2, <1>3

\* What a receive of the server takes.
LEMMA ServerTakesSome ==
  ASSUME IInv, NEW place, place # "ended", NEW k \in DOMAIN toServer, ServerTakes(place, k)
  PROVE  /\ server.at = place /\ toServer # <<>> /\ toServer' = Rest(toServer, k)
         /\ UNCHANGED <<store, hash, table, calls, call, client, returned, skewed>>
         /\ toServer' \in Seq(Solid) /\ Takes(toServer, server.need, k)
         /\ closed' \in BOOLEAN => Types'
         /\ \A e, r : Leads(toServer, e, r) /\ server.need = e.len =>
              Head(toServer) = e /\ toServer' = r
         /\ skewed => /\ ran = NotRun /\ returned.as # "ok" /\ toClient = <<>>
                      /\ client \in {At("idle", 0), At("status", 4)}
                      /\ \E m \in 0..3 : HalfRead(server, toServer, m)
         /\ ~skewed => Asked /\ returned = NotReturned
<1>1. /\ server.at = place /\ toServer' = Rest(toServer, k) /\ Takes(toServer, server.need, k)
      /\ UNCHANGED <<store, hash, table, calls, call, client, returned, skewed>>
  BY DEF ServerTakes
<1>2. toServer # <<>>
  BY TakesNothing
<1>3. toServer' \in Seq(Solid)
  BY <1>1, RestSolid DEF IInv, Types
<1>4. closed' \in BOOLEAN => Types'
  BY <1>1, <1>3 DEF IInv, Types
<1>5. ASSUME NEW e, NEW r, Leads(toServer, e, r), server.need = e.len
      PROVE  Head(toServer) = e /\ toServer' = r
  <2>1. Takes(toServer, e.len, k)
    BY <1>1, <1>5
  <2>2. QED  BY <2>1, <1>1, <1>5, TakesLead
<1>6. server.at # "ended"
  BY <1>1
<1>7. QED  BY <1>1, <1>2, <1>3, <1>4, <1>5, <1>6, ServerReads

\* Nothing has come of the call, and an answer is not there.
LEMMA StillOutOfStep ==
  ASSUME skewed', ran' = NotRun, returned'.as # "ok", client' \in {At("idle", 0), At("status", 4)},
         \/ Ended' /\ toClient' \in {<<>>, <<Number("error")>>}
         \/ toClient' = <<>> /\ \E m \in 0..3 : HalfRead(server', toServer', m)
  PROVE  InStep' /\ RanOK' /\ ArgumentsArrive' /\ ResultsReturn' /\ RefusalsExplained'
<1>1. toClient' \in {<<>>, <<Number("error")>>}
  OBVIOUS
<1>2. OutOfStep'
  BY <1>1, Zenon DEF OutOfStep
<1>3. InStep'
  BY <1>2 DEF InStep
<1>4. RanOK' /\ ArgumentsArrive'
  BY DEF RanOK, ArgumentsArrive, NotRun
<1>5. ResultsReturn' /\ RefusalsExplained'
  BY DEF ResultsReturn, RefusalsExplained
<1>6. QED  BY <1>3, <1>4, <1>5

\* The server goes on, out of step.
LEMMA HalfReadGoesOn ==
  ASSUME NEW s \in Seq(Solid), NEW at, NEW m \in 0..3, HalfRead(at, s, m),
         NEW k \in DOMAIN s, Takes(s, at.need, k), NEW next
  PROVE  /\ at.at = "length" =>
              /\ Head(s).val = DataLength
              /\ next.at = "name" /\ next.need = DataLength =>
                   \E n \in 0..3 : HalfRead(next, Rest(s, k), n)
         /\ at.at = "name" /\ next.at = "pack length" /\ next.need = 4 =>
              \E n \in 0..3 : HalfRead(next, Rest(s, k), n)
         /\ at.at = "pack length" =>
              /\ Head(s).val = DataLength
              /\ next.at = "pack" /\ next.need = DataLength =>
                   \E n \in 0..3 : HalfRead(next, Rest(s, k), n)
         /\ at.at = "pack" => ~Readable(SubSeq(s, 1, k))
<1>1. \/ m = 0 /\ at.at = "length"
      \/ m = 1 /\ at.at = "name"
      \/ m = 2 /\ at.at = "pack length"
      \/ m = 3 /\ at.at = "pack"
  BY Zenon DEF HalfRead
<1>2. /\ m \in {0, 2} => Head(s).val = DataLength
      /\ m = 3 => ~Readable(SubSeq(s, 1, k))
  BY HalfReadTakes
<1> DEFINE n == m + 1
<1>3. m < 3 /\ next.need = (IF m = 1 THEN 4 ELSE DataLength)
            /\ (m = 0 => next.at = "name") /\ (m = 1 => next.at = "pack length")
            /\ (m = 2 => next.at = "pack")
      => HalfRead(next, Rest(s, k), n)
  BY HalfReadTakes
<1>4. m < 3 => n \in 0..3
  OBVIOUS
<1> HIDE DEF n
<1>5. CASE at.at = "length"
  <2>1. m = 0
    BY <1>1, <1>5
  <2>2. next.at = "name" /\ next.need = DataLength => HalfRead(next, Rest(s, k), n) /\ n \in 0..3
    BY <2>1, <1>3, <1>4
  <2>3. QED  BY <1>5, <2>1, <2>2, <1>2
<1>6. CASE at.at = "name"
  <2>1. m = 1
    BY <1>1, <1>6
  <2>2. next.at = "pack length" /\ next.need = 4 => HalfRead(next, Rest(s, k), n) /\ n \in 0..3
    <3>1. m < 3 /\ m # 0 /\ m # 2 /\ (IF m = 1 THEN 4 ELSE DataLength) = 4
      BY <2>1
    <3>2. QED  BY <3>1, <1>3, <1>4, Zenon
  <2>3. QED  BY <1>6, <2>2
<1>7. CASE at.at = "pack length"
  <2>1. m = 2
    BY <1>1, <1>7
  <2>2. next.at = "pack" /\ next.need = DataLength => HalfRead(next, Rest(s, k), n) /\ n \in 0..3
    BY <2>1, <1>3, <1>4
  <2>3. QED  BY <1>7, <2>1, <2>2, <1>2
<1>8. CASE at.at = "pack"
  BY <1>1, <1>2, <1>8
<1>9. QED  BY <1>1, <1>5, <1>6, <1>7, <1>8

\* A call that is still under way.
LEMMA StillAsked ==
  ASSUME CallOK, Asking, ~skewed, returned = NotReturned,
         UNCHANGED <<store, calls, call, client, returned, skewed>>, UNCHANGED <<closed, toClient, ran>>,
         Arriving'
  PROVE  InStep' /\ CallOK' /\ RanOK' /\ ArgumentsArrive' /\ ResultsReturn' /\ RefusalsExplained'
<1>1. Asking'
  BY DEF Asking
<1>2. Asked'
  BY <1>1 DEF Asked
<1>3. InStep'
  BY <1>2 DEF InStep
<1>4. ran' = NotRun
  <2>1. ran = NotRun
    BY Zenon DEF Asking
  <2>2. QED  BY <2>1
<1>5. RanOK' /\ ArgumentsArrive'
  BY <1>4 DEF RanOK, ArgumentsArrive, NotRun
<1>6. CallOK'
  BY DEF CallOK
<1>7. QED  BY <1>3, <1>5, <1>6, NothingReturned

\* The fields of the request under way.
LEMMA AskedIs ==
  ASSUME IInv, Asked
  PROVE  /\ call.f \in Names /\ call.params \in Seq(Param) /\ Full(call.params)
         /\ ParamsOK(call.f, call.params, calls)
         /\ Leads(Request(call.f, call.params), Number(DataLength), Named(call.f, call.params))
         /\ Leads(Named(call.f, call.params), Name(call.f), PackFields(call.params))
         /\ Leads(PackFields(call.params), Number(Lengths(Body(call.params))), Body(call.params))
         /\ Asking
<1>1. Asking
  BY Zenon DEF Asked
<1>2. call # NoCall /\ call.params # <<>>
  BY <1>1 DEF Asking
<1>3. call.f \in Names /\ ParamsOK(call.f, call.params, calls)
  BY <1>2 DEF IInv, CallOK
<1>4. call.params \in Seq(Param) /\ Full(call.params)
  BY <1>3 DEF ParamsOK
<1>5. /\ Leads(Request(call.f, call.params), Number(DataLength), Named(call.f, call.params))
      /\ Leads(Named(call.f, call.params), Name(call.f), PackFields(call.params))
      /\ Leads(PackFields(call.params), Number(Lengths(Body(call.params))), Body(call.params))
  BY <1>2, <1>3, <1>4, RequestIs
<1>6. QED  BY <1>1, <1>3, <1>4, <1>5

LEMMA PackLengthPlace ==
  ASSUME NEW f, NEW at, at = Doing("pack length", 4, f)
  PROVE  at.at = "pack length" /\ at.need = 4 /\ at.func = f
  BY DEF Doing

LEMMA AskedAt ==
  ASSUME Asked
  PROVE  /\ server.at = "length" =>
              server.need = 4 /\ toServer = Request(call.f, call.params)
         /\ server.at = "name" =>
              server.need = DataLength /\ toServer = Named(call.f, call.params)
         /\ server.at = "pack length" =>
              /\ server.need = 4 /\ toServer = PackFields(call.params)
              /\ server.func = call.f /\ call.f \in ToSet(Registered[store])
         /\ server.at = "pack" =>
              /\ server.need = Lengths(Body(call.params)) /\ toServer = Body(call.params)
              /\ server.func = call.f /\ call.f \in ToSet(Registered[store])
         /\ server.at \in {"length", "name", "pack length", "pack"}
<1>1. \/ AtTop /\ toServer = Request(call.f, call.params)
      \/ server = Doing("name", DataLength, NoEntry) /\ toServer = Named(call.f, call.params)
      \/ /\ call.f \in ToSet(Registered[store])
         /\ server = Doing("pack length", 4, call.f) /\ toServer = PackFields(call.params)
      \/ /\ call.f \in ToSet(Registered[store])
         /\ server = Doing("pack", Lengths(Body(call.params)), call.f) /\ toServer = Body(call.params)
  BY Zenon DEF Asked, Arriving
<1>2. CASE AtTop /\ toServer = Request(call.f, call.params)
  <2>1. server.at = "length" /\ server.need = 4
    BY <1>2, Places4 DEF AtTop
  <2>2. QED  BY <2>1, <1>2
<1>3. CASE server = Doing("name", DataLength, NoEntry) /\ toServer = Named(call.f, call.params)
  <2>1. server.at = "name" /\ server.need = DataLength
    BY <1>3, Places4
  <2>2. QED  BY <2>1, <1>3
<1>4. CASE /\ call.f \in ToSet(Registered[store])
           /\ server = Doing("pack length", 4, call.f) /\ toServer = PackFields(call.params)
  <2>1. server.at = "pack length" /\ server.need = 4 /\ server.func = call.f
    BY <1>4, PackLengthPlace
  <2>2. QED  BY <2>1, <1>4
<1>5. CASE /\ call.f \in ToSet(Registered[store])
           /\ server = Doing("pack", Lengths(Body(call.params)), call.f)
           /\ toServer = Body(call.params)
  <2>1. server.at = "pack" /\ server.need = Lengths(Body(call.params)) /\ server.func = call.f
    BY <1>5, Places4
  <2>2. QED  BY <2>1, <1>5
<1>6. QED  BY <1>1, <1>2, <1>3, <1>4, <1>5

\* The service ends, and closes the connection.
LEMMA ServiceEnds ==
  ASSUME toClient = <<>>, closed \in BOOLEAN, NEW fields, EndsWith(fields)
  PROVE  /\ Ended' /\ closed' = TRUE
         /\ fields = <<>> => toClient' = <<>>
         /\ fields = <<Number("error")>> => toClient' \in {<<>>, <<Number("error")>>}
         /\ ~closed /\ toServer' = <<>> /\ fields \in Seq(Solid) => toClient' = fields
<1> DEFINE all == toClient \o (IF closed THEN <<>> ELSE fields)
<1>1. /\ server' = Doing("ended", 0, NoEntry) /\ closed' = TRUE
      /\ \E k \in (IF toServer' = <<>> THEN {} ELSE 0..Len(all)) \cup {Len(all)} :
           toClient' = SubSeq(all, 1, k)
  BY DEF EndsWith
<1>2. Ended'
  BY <1>1, Places4 DEF Ended
<1>3. ASSUME fields \in Seq(Solid)
      PROVE  all = (IF closed THEN <<>> ELSE fields) /\ all \in Seq(Solid)
  <2> DEFINE sent == IF closed THEN <<>> ELSE fields
  <2>1. sent \in Seq(Solid)
    BY <1>3
  <2> HIDE DEF sent
  <2>2. <<>> \o sent = sent
    BY <2>1, ConcatEmptySeq
  <2>3. all = sent /\ all \in Seq(Solid)
    BY <2>1, <2>2 DEF sent
  <2>4. QED  BY <2>3 DEF sent
<1> HIDE DEF all
<1>4. SubSeq(<<>>, 1, 0) = <<>> /\ Len(<<>>) = 0 /\ 0..0 = {0} /\ <<>> \in Seq(Solid)
  OBVIOUS
<1>5. fields = <<>> => toClient' = <<>>
  <2>1. fields = <<>> => all = <<>>
    BY <1>3, <1>4
  <2>2. fields = <<>> => \E k \in {0} : toClient' = SubSeq(<<>>, 1, k)
    BY <2>1, <1>1, <1>4
  <2>3. QED  BY <2>2, <1>4
<1>6. ASSUME fields = <<Number("error")>> PROVE toClient' \in {<<>>, <<Number("error")>>}
  <2> DEFINE e == Number("error")  one == <<e>>
  <2>1. e \in Solid
    BY LeadsAlone
  <2> HIDE DEF e
  <2>2. one \in Seq(Solid) /\ Len(one) = 1 /\ SubSeq(one, 1, 0) = <<>> /\ SubSeq(one, 1, 1) = one
    <3>1. one \in Seq(Solid) /\ Len(one) = 1
      BY <2>1
    <3> HIDE DEF one
    <3>2. SubSeq(one, 1, Len(one)) = one
      BY <3>1, Whole
    <3>3. SubSeq(one, 1, 0) = <<>>
      BY <3>1, SubSeqEmpty
    <3>4. QED  BY <3>1, <3>2, <3>3
  <2>3. fields = one
    BY <1>6 DEF e
  <2> HIDE DEF one
  <2>4. all \in {<<>>, one}
    BY <2>2, <2>3, <1>3
  <2>5. PICK k : k \in 0..Len(all) \cup {Len(all)} /\ toClient' = SubSeq(all, 1, k)
    BY <1>1
  <2>6. k \in 0..Len(all)
    BY <2>4, <2>5, <2>2, <1>4
  <2>7. CASE all = <<>>
    BY <2>5, <2>6, <2>7, <1>4
  <2>8. CASE all = one
    <3>1. k \in {0, 1}
      BY <2>6, <2>8, <2>2
    <3>2. toClient' = SubSeq(one, 1, k)
      BY <2>5, <2>8
    <3>3. toClient' \in {<<>>, one}
      BY <3>1, <3>2, <2>2
    <3>4. QED  BY <3>3 DEF one, e
  <2>9. QED  BY <2>4, <2>7, <2>8
<1>7. ASSUME ~closed, toServer' = <<>>, fields \in Seq(Solid) PROVE toClient' = fields
  <2>1. all = fields /\ SubSeq(fields, 1, Len(fields)) = fields
    BY <1>3, <1>7, Whole
  <2>2. toClient' = SubSeq(all, 1, Len(all))
    BY <1>1, <1>7
  <2>3. QED  BY <2>1, <2>2
<1>8. QED  BY <1>1, <1>2, <1>5, <1>6, <1>7

\* The server answers, and the service goes on.
LEMMA ServiceGoesOn ==
  ASSUME toClient = <<>>, ~closed, NEW fields \in Seq(Solid), Answers(fields)
  PROVE  AtTop' /\ ~closed' /\ toClient' = fields /\ UNCHANGED closed
<1>1. server' = Doing("length", 4, NoEntry) /\ closed' = closed /\ toClient' = toClient \o fields
  BY DEF Answers
<1>2. <<>> \o fields = fields
  BY ConcatEmptySeq
<1>3. QED  BY <1>1, <1>2 DEF AtTop

LEMMA ReadNameLengthKeeps == ASSUME IInv, ReadNameLength PROVE IInv'
<1>1. PICK k \in DOMAIN toServer : ServerTakes("length", k)
  BY DEF ReadNameLength
<1>2. /\ server' = Doing("name", Head(toServer).val, NoEntry)
      /\ UNCHANGED <<closed, toClient, ran>>
  BY DEF ReadNameLength
<1>3. /\ server.at = "length" /\ toServer # <<>> /\ toServer' = Rest(toServer, k)
      /\ UNCHANGED <<store, hash, table, calls, call, client, returned, skewed>>
      /\ toServer' \in Seq(Solid) /\ Takes(toServer, server.need, k)
      /\ closed' \in BOOLEAN => Types'
      /\ \A e, r : Leads(toServer, e, r) /\ server.need = e.len =>
           Head(toServer) = e /\ toServer' = r
      /\ skewed => /\ ran = NotRun /\ returned.as # "ok" /\ toClient = <<>>
                   /\ client \in {At("idle", 0), At("status", 4)}
                   /\ \E m \in 0..3 : HalfRead(server, toServer, m)
      /\ ~skewed => Asked /\ returned = NotReturned
  BY <1>1, ServerTakesSome
<1>4. Types' /\ CallOK'
  BY <1>2, <1>3 DEF IInv, Types, CallOK
<1>5. ASSUME ~skewed
      PROVE  InStep' /\ CallOK' /\ RanOK' /\ ArgumentsArrive' /\ ResultsReturn' /\ RefusalsExplained'
  <2>1. Asked /\ returned = NotReturned
    BY <1>3, <1>5
  <2>2. /\ Leads(Request(call.f, call.params), Number(DataLength), Named(call.f, call.params))
        /\ Asking
    BY <2>1, AskedIs
  <2>3. server.need = 4 /\ toServer = Request(call.f, call.params)
    BY <2>1, <1>3, AskedAt
  <2>4. Head(toServer) = Number(DataLength) /\ toServer' = Named(call.f, call.params)
    BY <2>2, <2>3, <1>3, SolidNumbers
  <2>5. server' = Doing("name", DataLength, NoEntry)
    BY <2>4, <1>2, SolidNumbers
  <2>6. Arriving'
    BY <2>4, <2>5, <1>3, Zenon DEF Arriving
  <2>7. QED  BY <2>1, <2>2, <2>6, <1>2, <1>3, <1>5, StillAsked DEF IInv
<1>6. ASSUME skewed
      PROVE  InStep' /\ RanOK' /\ ArgumentsArrive' /\ ResultsReturn' /\ RefusalsExplained'
  <2>1. PICK m \in 0..3 : HalfRead(server, toServer, m)
    BY <1>3, <1>6
  <2>2. toServer \in Seq(Solid)
    BY DEF IInv, Types
  <2>3. Head(toServer).val = DataLength
    BY <2>1, <2>2, <1>3, HalfReadGoesOn
  <2>4. server'.at = "name" /\ server'.need = DataLength
    BY <2>3, <1>2, Places4
  <2>5. \E n \in 0..3 : HalfRead(server', Rest(toServer, k), n)
    BY <2>1, <2>2, <2>4, <1>3, HalfReadGoesOn
  <2>6. /\ toClient' = <<>> /\ ran' = NotRun /\ returned'.as # "ok" /\ skewed'
        /\ client' \in {At("idle", 0), At("status", 4)}
    BY <1>2, <1>3, <1>6
  <2>7. QED  BY <2>5, <2>6, <1>3, StillOutOfStep
<1>7. QED  BY <1>4, <1>5, <1>6 DEF IInv

LEMMA ReadNameKeeps == ASSUME IInv, ReadName PROVE IInv'
<1> DEFINE g == TableGet(table, hash, Head(toServer).val)
<1>1. PICK k \in DOMAIN toServer : ServerTakes("name", k)
  BY DEF ReadName
<1>2. /\ ran' = ran
      /\ g = NoEntry => EndsWith(<<Number("error")>>)
      /\ g # NoEntry => server' = Doing("pack length", 4, g) /\ UNCHANGED <<closed, toClient>>
  BY DEF ReadName
<1>3. /\ server.at = "name" /\ toServer # <<>> /\ toServer' = Rest(toServer, k)
      /\ UNCHANGED <<store, hash, table, calls, call, client, returned, skewed>>
      /\ toServer' \in Seq(Solid) /\ Takes(toServer, server.need, k)
      /\ closed' \in BOOLEAN => Types'
      /\ \A e, r : Leads(toServer, e, r) /\ server.need = e.len =>
           Head(toServer) = e /\ toServer' = r
      /\ skewed => /\ ran = NotRun /\ returned.as # "ok" /\ toClient = <<>>
                   /\ client \in {At("idle", 0), At("status", 4)}
                   /\ \E m \in 0..3 : HalfRead(server, toServer, m)
      /\ ~skewed => Asked /\ returned = NotReturned
  BY <1>1, ServerTakesSome
<1> HIDE DEF g
<1>4. toClient = <<>> /\ closed \in BOOLEAN
  <2>1. Asked => toClient = <<>>
    BY Zenon DEF Asked, Asking
  <2>2. QED  BY <2>1, <1>3 DEF IInv, Types
<1>5. g = NoEntry => Ended' /\ closed' = TRUE /\ toClient' \in {<<>>, <<Number("error")>>}
  BY <1>2, <1>4, ServiceEnds
<1>6. Types' /\ CallOK'
  <2>1. closed' \in BOOLEAN
    BY <1>2, <1>4, <1>5
  <2>2. QED  BY <2>1, <1>3 DEF IInv, CallOK
<1>7. ASSUME ~skewed
      PROVE  InStep' /\ CallOK' /\ RanOK' /\ ArgumentsArrive' /\ ResultsReturn' /\ RefusalsExplained'
  <2>1. Asked /\ returned = NotReturned
    BY <1>3, <1>7
  <2>2. /\ Leads(Named(call.f, call.params), Name(call.f), PackFields(call.params))
        /\ Asking /\ call.f \in Names
    BY <2>1, AskedIs
  <2>3. server.need = DataLength /\ toServer = Named(call.f, call.params)
    BY <2>1, <1>3, AskedAt
  <2>4. Head(toServer) = Name(call.f) /\ toServer' = PackFields(call.params)
    BY <2>2, <2>3, <1>3, SolidName
  <2>5. g = IF call.f \in ToSet(Registered[store]) THEN call.f ELSE NoEntry
    <3>1. store \in DOMAIN Registered /\ table = FuncTable(store, hash)
      BY DEF IInv, Types
    <3>2. Good(table, hash, ToSet(Registered[store]))
      BY <3>1, FuncTableIs
    <3>3. g = TableGet(table, hash, call.f)
      BY <2>2, <2>4, SolidName DEF g
    <3>4. QED  BY <2>2, <3>2, <3>3, TableGetIs
  <2>6. CASE call.f \in ToSet(Registered[store])
    <3>1. g = call.f /\ g # NoEntry
      BY <2>2, <2>5, <2>6, NamesDiffer
    <3>2. server' = Doing("pack length", 4, call.f) /\ UNCHANGED <<closed, toClient>>
      BY <3>1, <1>2
    <3>3. call'.f \in ToSet(Registered[store']) /\ call' = call
      BY <2>6, <1>3
    <3>4. Arriving'
      BY <2>4, <3>2, <3>3, Zenon DEF Arriving
    <3>5. QED  BY <2>1, <2>2, <3>2, <3>4, <1>2, <1>3, <1>7, StillAsked DEF IInv
  <2>7. CASE call.f \notin ToSet(Registered[store])
    <3>1. Ended' /\ toClient' \in {<<>>, <<Number("error")>>}
      BY <2>5, <2>7, <1>5
    <3>2. call # NoCall /\ client = At("status", 4) /\ ran = NotRun
      BY <2>2, Zenon DEF Asking
    <3>3. call'.f \notin ToSet(Registered[store'])
      BY <2>7, <1>3
    <3>4. Rejected'
      BY <3>1, <3>2, <3>3, <1>2, <1>3 DEF Rejected
    <3>5. InStep'
      BY <3>4, <1>3, <1>7 DEF InStep
    <3>6. returned' = NotReturned
      BY <2>1, <1>3
    <3>7. QED  BY <3>5, <3>6, <1>2, <1>3, NothingReturned, SameCall DEF IInv
  <2>8. QED  BY <2>6, <2>7
<1>8. ASSUME skewed
      PROVE  InStep' /\ RanOK' /\ ArgumentsArrive' /\ ResultsReturn' /\ RefusalsExplained'
  <2>1. PICK m \in 0..3 : HalfRead(server, toServer, m)
    BY <1>3, <1>8
  <2>2. toServer \in Seq(Solid)
    BY DEF IInv, Types
  <2>3. /\ ran' = NotRun /\ returned'.as # "ok" /\ skewed'
        /\ client' \in {At("idle", 0), At("status", 4)}
    BY <1>2, <1>3, <1>8
  <2>4. CASE g = NoEntry
    BY <2>3, <2>4, <1>5, StillOutOfStep
  <2>5. CASE g # NoEntry
    <3>1. server'.at = "pack length" /\ server'.need = 4 /\ toClient' = <<>>
      BY <2>5, <1>2, <1>4, PackLengthPlace
    <3>2. \E n \in 0..3 : HalfRead(server', Rest(toServer, k), n)
      BY <2>1, <2>2, <3>1, <1>3, HalfReadGoesOn
    <3>3. QED  BY <2>3, <3>1, <3>2, <1>3, StillOutOfStep
  <2>6. QED  BY <2>4, <2>5
<1>9. QED  BY <1>6, <1>7, <1>8 DEF IInv

LEMMA ReadPackLengthKeeps == ASSUME IInv, ReadPackLength PROVE IInv'
<1>1. PICK k \in DOMAIN toServer : ServerTakes("pack length", k)
  BY DEF ReadPackLength
<1>2. /\ server' = Doing("pack", Head(toServer).val, server.func)
      /\ UNCHANGED <<closed, toClient, ran>>
  BY DEF ReadPackLength
<1>3. /\ server.at = "pack length" /\ toServer # <<>> /\ toServer' = Rest(toServer, k)
      /\ UNCHANGED <<store, hash, table, calls, call, client, returned, skewed>>
      /\ toServer' \in Seq(Solid) /\ Takes(toServer, server.need, k)
      /\ closed' \in BOOLEAN => Types'
      /\ \A e, r : Leads(toServer, e, r) /\ server.need = e.len =>
           Head(toServer) = e /\ toServer' = r
      /\ skewed => /\ ran = NotRun /\ returned.as # "ok" /\ toClient = <<>>
                   /\ client \in {At("idle", 0), At("status", 4)}
                   /\ \E m \in 0..3 : HalfRead(server, toServer, m)
      /\ ~skewed => Asked /\ returned = NotReturned
  BY <1>1, ServerTakesSome
<1>4. Types' /\ CallOK'
  BY <1>2, <1>3 DEF IInv, Types, CallOK
<1>5. ASSUME ~skewed
      PROVE  InStep' /\ CallOK' /\ RanOK' /\ ArgumentsArrive' /\ ResultsReturn' /\ RefusalsExplained'
  <2>1. Asked /\ returned = NotReturned
    BY <1>3, <1>5
  <2>2. /\ Leads(PackFields(call.params), Number(Lengths(Body(call.params))), Body(call.params))
        /\ Asking
    BY <2>1, AskedIs
  <2>3. /\ server.need = 4 /\ toServer = PackFields(call.params)
        /\ server.func = call.f /\ call.f \in ToSet(Registered[store])
    BY <2>1, <1>3, AskedAt
  <2>4. /\ Head(toServer) = Number(Lengths(Body(call.params)))
        /\ toServer' = Body(call.params)
    BY <2>2, <2>3, <1>3, SolidNumbers
  <2>5. server' = Doing("pack", Lengths(Body(call.params)), call.f)
    BY <2>3, <2>4, <1>2, SolidNumbers
  <2>6. Arriving'
    <3>1. call' = call /\ call'.f \in ToSet(Registered[store'])
      BY <2>3, <1>3
    <3>2. QED  BY <2>4, <2>5, <3>1, Zenon DEF Arriving
  <2>7. QED  BY <2>1, <2>2, <2>6, <1>2, <1>3, <1>5, StillAsked DEF IInv
<1>6. ASSUME skewed
      PROVE  InStep' /\ RanOK' /\ ArgumentsArrive' /\ ResultsReturn' /\ RefusalsExplained'
  <2>1. PICK m \in 0..3 : HalfRead(server, toServer, m)
    BY <1>3, <1>6
  <2>2. toServer \in Seq(Solid)
    BY DEF IInv, Types
  <2>3. Head(toServer).val = DataLength
    BY <2>1, <2>2, <1>3, HalfReadGoesOn
  <2>4. server'.at = "pack" /\ server'.need = DataLength
    BY <2>3, <1>2, Places4
  <2>5. \E n \in 0..3 : HalfRead(server', Rest(toServer, k), n)
    BY <2>1, <2>2, <2>4, <1>3, HalfReadGoesOn
  <2>6. /\ toClient' = <<>> /\ ran' = NotRun /\ returned'.as # "ok" /\ skewed'
        /\ client' \in {At("idle", 0), At("status", 4)}
    BY <1>2, <1>3, <1>6
  <2>7. QED  BY <2>5, <2>6, <1>3, StillOutOfStep
<1>7. QED  BY <1>4, <1>5, <1>6 DEF IInv

LEMMA ServerFailsKeeps == ASSUME IInv, ServerFails PROVE IInv'
<1>1. /\ server.at # "ended" /\ Fails(toServer, server.need)
      /\ UNCHANGED <<store, hash, table, toServer, calls, call, client, returned, ran, skewed>>
      /\ EndsWith(<<>>) \/ EndsWith(<<Number("error")>>)
  BY DEF ServerFails
<1>2. server' = Doing("ended", 0, NoEntry) /\ closed' = TRUE
  BY <1>1 DEF EndsWith
<1>3. Ended'
  BY <1>2, Places4 DEF Ended
<1>4. Types' /\ CallOK' /\ RanOK' /\ ArgumentsArrive' /\ (FitsSignature' <=> FitsSignature)
  <2>1. Types'
    BY <1>1, <1>2 DEF IInv, Types
  <2>2. QED  BY <2>1, <1>1, SameCall DEF IInv
<1>5. ResultsReturn'
  BY <1>1 DEF IInv, ResultsReturn
<1>6. RefusalsExplained'
  BY <1>1, <1>4 DEF IInv, RefusalsExplained
<1>7. ASSUME skewed PROVE OutOfStep'
  <2>1. OutOfStep
    BY <1>7 DEF IInv, InStep
  <2>2. toClient = <<>> /\ ran = NotRun /\ returned.as # "ok" /\ client \in {At("idle", 0), At("status", 4)}
    <3>1. ~Ended
      BY <1>1 DEF Ended
    <3>2. QED  BY <2>1, <3>1, Zenon DEF OutOfStep
  <2>3. toClient' \in {<<>>, <<Number("error")>>}
    <3>1. toClient = <<>> /\ closed \in BOOLEAN
      BY <2>2 DEF IInv, Types
    <3>2. CASE EndsWith(<<>>)
      BY <3>1, <3>2, ServiceEnds
    <3>3. CASE EndsWith(<<Number("error")>>)
      BY <3>1, <3>3, ServiceEnds
    <3>4. QED  BY <1>1, <3>2, <3>3
  <2>4. QED  BY <2>2, <2>3, <1>1, <1>3, Zenon DEF OutOfStep
<1>8. ASSUME ~skewed PROVE Waits'
  <2>1. ~Rejected
    BY <1>1 DEF Rejected, Ended
  <2>2. ASSUME toServer = <<>>, server.need = 4 PROVE closed
    <3>1. Fails(<<>>, 4)
      BY <2>2, <1>1
    <3>2. QED  BY <3>1, TakesNothing DEF Fails
  <2>3. ~Answered
    <3>1. Answered => toServer = <<>> /\ AtTop /\ ~closed
      BY <1>1 DEF Answered, Ended
    <3>2. AtTop => server.need = 4
      BY Places4 DEF AtTop
    <3>3. QED  BY <2>2, <3>1, <3>2
  <2>4. ~Asked
    <3>1. ASSUME Asked PROVE Receives(toServer, server.need)
      <4>1. /\ call.params \in Seq(Param) /\ Full(call.params)
            /\ Leads(Request(call.f, call.params), Number(DataLength), Named(call.f, call.params))
            /\ Leads(Named(call.f, call.params), Name(call.f), PackFields(call.params))
            /\ Leads(PackFields(call.params), Number(Lengths(Body(call.params))), Body(call.params))
            /\ call.f \in Names /\ call.params # <<>> /\ Packs(call.params)
        BY <3>1, AskedIs DEF Asking
      <4>2. \/ server.at = "length" \/ server.at = "name" \/ server.at = "pack length"
            \/ server.at = "pack"
        BY <3>1, AskedAt
      <4>3. CASE server.at = "length"
        BY <4>1, <4>3, <3>1, AskedAt, TakesLead, SolidNumbers
      <4>4. CASE server.at = "name"
        <5>1. server.need = Name(call.f).len /\ toServer = Named(call.f, call.params)
          BY <4>1, <4>4, <3>1, AskedAt, SolidName
        <5>2. QED  BY <4>1, <5>1, TakesLead
      <4>5. CASE server.at = "pack length"
        <5>1. server.need = 4 /\ toServer = PackFields(call.params)
          BY <4>5, <3>1, AskedAt
        <5>2. Receives(PackFields(call.params), 4)
          BY <4>1, TakesLead, SolidNumbers
        <5>3. QED  BY <5>1, <5>2
      <4>6. CASE server.at = "pack"
        BY <4>1, <4>6, <3>1, AskedAt, RequestRead
      <4>7. QED  BY <4>2, <4>3, <4>4, <4>5, <4>6
    <3>2. QED  BY <3>1, <1>1, ReceivesNotFails
  <2>5. Waits
    BY <2>1, <2>3, <2>4, <1>8 DEF IInv, InStep
  <2>6. QED  BY <2>5, <1>1, <1>3 DEF Waits
<1>9. InStep'
  BY <1>1, <1>7, <1>8 DEF InStep
<1>10. QED  BY <1>4, <1>5, <1>6, <1>9 DEF IInv

\* The parameters of a call, where the stub takes them.
LEMMA ArgumentsAre ==
  ASSUME NEW f \in Names, NEW params, NEW n, ParamsOK(f, params, n), Packs(params)
  PROVE  LET names == StubExtracts[f] IN
         /\ Extracts(params, TypesOf(names)) =>
              \A p \in ToSet(names) : ByName(names, params, p) = <<"arg", n, p>>
         /\ ~Extracts(params, TypesOf(names)) =>
              ~(/\ Len(params) >= Len(names) /\ Len(params) <= MaxParams
                /\ \A k \in DOMAIN names : params[k].type = TypeOf(names[k]))
<1> DEFINE names == StubExtracts[f]
<1>1. names = ProxyPacks[f] /\ Listed(names)
  BY SignaturesAgree, PacksListed
<1>2. /\ params \in Seq(Param)
      /\ Len(params) >= Len(names) => \A k \in DOMAIN names : params[k].val = <<"arg", n, names[k]>>
  BY <1>1 DEF ParamsOK
<1> HIDE DEF names
<1>3. /\ Len(names) \in 1..5 /\ DOMAIN names = 1..Len(names)
      /\ Len(TypesOf(names)) = Len(names) /\ DOMAIN TypesOf(names) = 1..Len(names)
      /\ \A k \in 1..Len(names) : TypesOf(names)[k] = TypeOf(names[k])
  BY <1>1, ListedIs, TypesListed
<1>4. Len(params) \in Nat
  BY <1>2
<1>5. ASSUME Extracts(params, TypesOf(names)), NEW p \in ToSet(names)
      PROVE  ByName(names, params, p) = <<"arg", n, p>>
  <2>1. PICK k \in DOMAIN names : names[k] = p /\ ByName(names, params, p) = params[k].val
    BY ByNameIs
  <2>2. Len(params) >= Len(names)
    BY <1>3, <1>4, <1>5 DEF Extracts
  <2>3. params[k].val = <<"arg", n, names[k]>>
    BY <1>2, <2>2
  <2>4. QED  BY <2>1, <2>3
<1>6. ASSUME Len(params) >= Len(names),
             \A k \in DOMAIN names : params[k].type = TypeOf(names[k])
      PROVE  Extracts(params, TypesOf(names))
  BY <1>3, <1>4, <1>6 DEF Extracts
<1>7. QED  BY <1>5, <1>6 DEF names

\* The server answers the call it has just read.
LEMMA NowAnswered ==
  ASSUME CallOK, Asking, ~skewed, returned = NotReturned, RanOK', ArgumentsArrive',
         UNCHANGED <<store, calls, call, client, returned, skewed>>, toServer' = <<>>,
         (AtTop /\ ~closed)' \/ Ended', (Refused \/ Done \/ Replies)'
  PROVE  InStep' /\ CallOK' /\ ResultsReturn' /\ RefusalsExplained'
<1>1. call # NoCall
  BY DEF Asking
<1>2. Answered'
  BY <1>1 DEF Answered
<1>3. InStep'
  BY <1>2 DEF InStep
<1>4. CallOK'
  BY DEF CallOK
<1>5. QED  BY <1>3, <1>4, NothingReturned

LEMMA RunsKeeps ==
  ASSUME IInv, Asked, ~skewed, returned = NotReturned,
         UNCHANGED <<store, calls, call, client, returned, skewed>>, toServer' = <<>>,
         Extracts(call.params, TypesOf(StubExtracts[call.f])), Runs(call.f, call.params)
  PROVE  /\ closed' \in BOOLEAN /\ InStep' /\ CallOK' /\ RanOK' /\ ArgumentsArrive'
         /\ ResultsReturn' /\ RefusalsExplained'
<1> DEFINE f == call.f
           names == StubExtracts[f]
           args == [p \in ToSet(names) |-> ByName(names, call.params, p)]
           results == IF f \in DOMAIN StubReplies THEN StubReplies[f] ELSE <<>>
           Fields(empty) == PackFields([k \in DOMAIN results |-> Result(results[k], empty)])
<1>1. \/ /\ ran' = [f |-> f, args |-> args, as |-> "error", empty |-> None]
         /\ Answers(<<Number("error")>>)
      \/ \E empty \in (ToSet(results) \cap Contents) \cup {None} :
           /\ ran' = [f |-> f, args |-> args, as |-> "ok", empty |-> empty]
           /\ IF Sent(Fields(empty)) = Fields(empty)
              THEN Answers(<<Number("ok")>> \o Fields(empty))
              ELSE ServiceReturns(<<Number("ok")>> \o Sent(Fields(empty)))
  BY Zenon DEF Runs
<1>2. f \in Names /\ ParamsOK(f, call.params, calls) /\ Asking /\ CallOK
  BY AskedIs DEF IInv
<1>3. /\ toClient = <<>> /\ ~closed /\ closed \in BOOLEAN /\ client = At("status", 4)
      /\ Packs(call.params) /\ calls \in Nat /\ f = call.f
  BY <1>2 DEF Asking, IInv, Types
<1>4. \A p \in ToSet(names) : ByName(names, call.params, p) = <<"arg", calls, p>>
  BY <1>2, <1>3, ArgumentsAre
<1>5. /\ DOMAIN args = ToSet(names)
      /\ \A p \in DOMAIN args : args[p] = <<"arg", calls, p>>
  BY <1>4
<1> HIDE DEF args
<1>6. ASSUME NEW as, NEW empty, ran' = [f |-> f, args |-> args, as |-> as, empty |-> empty]
      PROVE  ran'.as = as /\ ran'.empty = empty /\ ArgumentsArrive'
  <2>1. ran'.as = as /\ ran'.empty = empty /\ ran'.f = f /\ ran'.args = args
    BY <1>6
  <2>2. ran'.f = call'.f /\ \A p \in DOMAIN ran'.args : ran'.args[p] = <<"arg", calls', p>>
    BY <2>1, <1>5
  <2>3. QED  BY <2>1, <2>2 DEF ArgumentsArrive
<1> HIDE DEF f, names
<1>7. CASE /\ ran' = [f |-> f, args |-> args, as |-> "error", empty |-> None]
           /\ Answers(<<Number("error")>>)
  <2>1. ran'.as = "error" /\ ArgumentsArrive'
    BY <1>6, <1>7
  <2>2. RanOK'
    BY <2>1 DEF RanOK
  <2>3. <<Number("error")>> \in Seq(Solid)
    BY LeadsAlone, TakesLead
  <2>4. AtTop' /\ ~closed' /\ toClient' = <<Number("error")>> /\ UNCHANGED closed
    BY <1>3, <1>7, <2>3, ServiceGoesOn
  <2>5. Refused'
    BY <2>1, <2>4, <1>3 DEF Refused
  <2>6. InStep' /\ CallOK' /\ ResultsReturn' /\ RefusalsExplained'
    BY <1>2, <2>1, <2>2, <2>4, <2>5, NowAnswered
  <2>7. QED  BY <1>3, <2>1, <2>2, <2>4, <2>6
<1>8. ASSUME NEW empty \in (ToSet(results) \cap Contents) \cup {None},
             ran' = [f |-> f, args |-> args, as |-> "ok", empty |-> empty],
             IF Sent(Fields(empty)) = Fields(empty)
             THEN Answers(<<Number("ok")>> \o Fields(empty))
             ELSE ServiceReturns(<<Number("ok")>> \o Sent(Fields(empty)))
      PROVE  /\ closed' \in BOOLEAN /\ InStep' /\ CallOK' /\ RanOK' /\ ArgumentsArrive'
             /\ ResultsReturn' /\ RefusalsExplained'
  <2>1. ran'.as = "ok" /\ ran'.empty = empty /\ ArgumentsArrive'
    BY <1>6, <1>8
  <2>2. CASE f \notin DOMAIN StubReplies
    <3>1. results = <<>>
      BY <2>2
    <3>2. Fields(empty) = <<>> /\ empty = None
      <4>1. [k \in DOMAIN <<>> |-> Result(<<>>[k], empty)] = <<>>
        OBVIOUS
      <4>2. PackFields(<<>>) = <<>> /\ ToSet(<<>>) = {}
        BY DEF PackFields, ToSet
      <4>3. QED  BY <3>1, <4>1, <4>2, <1>8
    <3>3. Sent(<<>>) = <<>>
      <4>1. <<>> \in Seq(Solid) /\ <<>> \in Seq(Field)
        OBVIOUS
      <4>2. QED  BY <4>1, SentBegins
    <3>4. Answers(<<Number("ok")>> \o <<>>)
      BY <3>2, <3>3, <1>8
    <3>5. <<Number("ok")>> \o <<>> = <<Number("ok")>> /\ <<Number("ok")>> \in Seq(Solid)
      BY LeadsAlone, TakesLead DEF Leads
    <3>6. AtTop' /\ ~closed' /\ toClient' = <<Number("ok")>> /\ UNCHANGED closed
      BY <1>3, <3>4, <3>5, ServiceGoesOn
    <3>7. RanOK'
      BY <2>1, <3>2 DEF RanOK
    <3>8. Done'
      BY <2>1, <2>2, <3>6, <1>3 DEF Done
    <3>9. InStep' /\ CallOK' /\ ResultsReturn' /\ RefusalsExplained'
      BY <1>2, <2>1, <3>6, <3>7, <3>8, NowAnswered
    <3>10. QED  BY <1>3, <2>1, <3>6, <3>7, <3>9
  <2>3. CASE f \in DOMAIN StubReplies
    <3> DEFINE pack == ResultsOf(f, calls, empty)
    <3>1. results = StubReplies[f]
      BY <2>3
    <3>2. Fields(empty) = PackFields(pack)
      BY <3>1 DEF ResultsOf, Result
    <3> HIDE DEF results
    <3>3. pack \in Seq(Param) /\ pack # <<>>
      BY <2>3, <1>3, ResultsPack
    <3>4. pack = ResultsOf(call'.f, calls', ran'.empty)
      BY <2>1, <1>3
    <3> HIDE DEF pack, Fields
    <3>5. /\ Leads(Reply(pack), Number("ok"), Replied(pack))
          /\ Sent(PackFields(pack)) = Replied(pack)
      BY <3>3, ReplyIs
    <3>6. Reply(pack) = <<Number("ok")>> \o Replied(pack) /\ Reply(pack) \in Seq(Solid)
      BY <3>5, TakesLead DEF Reply
    <3>7. (AtTop /\ ~closed)' \/ Ended'
      <4>1. CASE Sent(Fields(empty)) = Fields(empty)
        BY <4>1, <1>3, <1>8, <3>2, <3>5, <3>6, ServiceGoesOn
      <4>2. CASE Sent(Fields(empty)) # Fields(empty)
        BY <4>2, <1>3, <1>8, <3>2, <3>5, <3>6, ServiceEnds DEF ServiceReturns
      <4>3. QED  BY <4>1, <4>2
    <3>8. toClient' = Reply(pack) /\ closed' \in BOOLEAN
      <4>1. CASE Sent(Fields(empty)) = Fields(empty)
        BY <4>1, <1>3, <1>8, <3>2, <3>5, <3>6, ServiceGoesOn
      <4>2. CASE Sent(Fields(empty)) # Fields(empty)
        BY <4>2, <1>3, <1>8, <3>2, <3>5, <3>6, ServiceEnds DEF ServiceReturns
      <4>3. QED  BY <4>1, <4>2
    <3>9. RanOK'
      <4>1. empty = None \/ empty \in ToSet(StubReplies[call'.f])
        BY <3>1, <1>3
      <4>2. call'.f \in DOMAIN StubReplies
        BY <2>3, <1>3
      <4>3. QED  BY <2>1, <4>1, <4>2 DEF RanOK
    <3>10. Replies'
      <4>1. client' = At("status", 4) /\ call'.f \in DOMAIN StubReplies
        BY <2>3, <1>3
      <4>2. QED  BY <2>1, <3>4, <3>8, <4>1, Zenon DEF Replies
    <3>11. InStep' /\ CallOK' /\ ResultsReturn' /\ RefusalsExplained'
      BY <1>2, <2>1, <3>7, <3>9, <3>10, NowAnswered
    <3>12. QED  BY <2>1, <3>8, <3>9, <3>11
  <2>4. QED  BY <2>2, <2>3
<1>9. QED  BY <1>1, <1>7, <1>8

LEMMA ReadPackKeeps == ASSUME IInv, ReadPack PROVE IInv'
<1> DEFINE got(k) == SubSeq(toServer, 1, k)
           types == TypesOf(StubExtracts[server.func])
<1>1. PICK k \in DOMAIN toServer :
        /\ ServerTakes("pack", k)
        /\ ~Readable(got(k)) => EndsWith(<<Number("error")>>) /\ ran' = ran
        /\ Readable(got(k)) /\ ~Extracts(Unpack(got(k)), types) =>
             Answers(<<Number("error")>>) /\ ran' = ran
        /\ Readable(got(k)) /\ Extracts(Unpack(got(k)), types) =>
             Runs(server.func, Unpack(got(k)))
  BY DEF ReadPack
<1>2. /\ server.at = "pack" /\ toServer # <<>> /\ toServer' = Rest(toServer, k)
      /\ UNCHANGED <<store, hash, table, calls, call, client, returned, skewed>>
      /\ toServer' \in Seq(Solid) /\ Takes(toServer, server.need, k)
      /\ closed' \in BOOLEAN => Types'
      /\ skewed => /\ ran = NotRun /\ returned.as # "ok" /\ toClient = <<>>
                   /\ client \in {At("idle", 0), At("status", 4)}
                   /\ \E m \in 0..3 : HalfRead(server, toServer, m)
      /\ ~skewed => Asked /\ returned = NotReturned
  BY <1>1, ServerTakesSome
<1>3. CASE skewed
  <2>1. PICK m \in 0..3 : HalfRead(server, toServer, m)
    BY <1>2, <1>3
  <2>2. toServer \in Seq(Solid) /\ closed \in BOOLEAN /\ CallOK
    BY DEF IInv, Types
  <2>3. ~Readable(got(k))
    BY <2>1, <2>2, <1>2, HalfReadGoesOn
  <2>4. Ended' /\ closed' = TRUE /\ toClient' \in {<<>>, <<Number("error")>>}
    BY <2>2, <2>3, <1>1, <1>2, <1>3, ServiceEnds
  <2>5. /\ ran' = NotRun /\ returned'.as # "ok" /\ skewed'
        /\ client' \in {At("idle", 0), At("status", 4)}
    BY <2>3, <1>1, <1>2, <1>3
  <2>6. CallOK' /\ Types'
    BY <2>2, <2>4, <1>2 DEF CallOK
  <2>7. QED  BY <2>4, <2>5, <2>6, StillOutOfStep DEF IInv
<1>4. CASE ~skewed
  <2> DEFINE params == call.params
  <2>1. Asked /\ returned = NotReturned
    BY <1>2, <1>4
  <2>2. /\ call.f \in Names /\ params \in Seq(Param) /\ Full(params)
        /\ ParamsOK(call.f, params, calls) /\ Asking /\ params # <<>> /\ Packs(params)
        /\ client = At("status", 4) /\ toClient = <<>> /\ ~closed /\ ran = NotRun
    BY <2>1, AskedIs DEF Asking
  <2>3. /\ server.need = Lengths(Body(params)) /\ toServer = Body(params)
        /\ server.func = call.f
    BY <2>1, <1>2, AskedAt
  <2>4. toServer' = <<>> /\ got(k) = Body(params) /\ Readable(got(k)) /\ Unpack(got(k)) = params
    BY <2>2, <2>3, <1>1, <1>2, RequestRead
  <2>5. types = TypesOf(StubExtracts[call.f])
    BY <2>3
  <2> HIDE DEF types, got
  <2>6. CASE Extracts(params, types)
    <3>1. Runs(call.f, params)
      BY <2>3, <2>4, <2>6, <1>1
    <3>2. /\ closed' \in BOOLEAN /\ InStep' /\ CallOK' /\ RanOK' /\ ArgumentsArrive'
          /\ ResultsReturn' /\ RefusalsExplained'
      BY <2>1, <2>4, <2>5, <2>6, <3>1, <1>2, <1>4, RunsKeeps
    <3>3. QED  BY <3>2, <1>2 DEF IInv
  <2>7. CASE ~Extracts(params, types)
    <3>1. Answers(<<Number("error")>>) /\ ran' = NotRun
      BY <2>2, <2>4, <2>7, <1>1
    <3>2. <<Number("error")>> \in Seq(Solid)
      BY LeadsAlone, TakesLead
    <3>3. AtTop' /\ ~closed' /\ toClient' = <<Number("error")>> /\ closed' = closed
      BY <2>2, <3>1, <3>2, ServiceGoesOn
    <3>4. ~FitsSignature'
      <4>1. ~(/\ Len(params) >= Len(StubExtracts[call.f]) /\ Len(params) <= MaxParams
              /\ \A j \in DOMAIN StubExtracts[call.f] :
                   params[j].type = TypeOf(StubExtracts[call.f][j]))
        BY <2>2, <2>5, <2>7, ArgumentsAre
      <4>2. call' = call /\ StubExtracts[call.f] = ProxyPacks[call.f]
        BY <1>2, SignaturesAgree
      <4>3. QED  BY <4>1, <4>2 DEF FitsSignature
    <3>5. RanOK' /\ ArgumentsArrive'
      BY <3>1 DEF RanOK, ArgumentsArrive, NotRun
    <3>6. Refused'
      BY <2>2, <3>1, <3>3, <3>4, <1>2 DEF Refused
    <3>7. InStep' /\ CallOK' /\ ResultsReturn' /\ RefusalsExplained'
      BY <2>1, <2>2, <2>4, <3>3, <3>5, <3>6, <1>2, <1>4, NowAnswered DEF IInv
    <3>8. Types'
      BY <3>3, <1>2 DEF IInv, Types
    <3>9. QED  BY <3>5, <3>7, <3>8 DEF IInv
  <2>8. QED  BY <2>6, <2>7
<1>5. QED  BY <1>3, <1>4

-----------------------------------------------------------------------------
\* The theorems

LEMMA InitOK == Init => IInv
<1>1. SUFFICES ASSUME Init PROVE IInv
  OBVIOUS
<1>2. /\ store \in DOMAIN Registered /\ hash \in Hashes /\ table = FuncTable(store, hash)
      /\ closed = FALSE /\ toServer = <<>> /\ toClient = <<>> /\ calls = 0 /\ call = NoCall
      /\ client = At("idle", 0) /\ server = Doing("length", 4, NoEntry)
      /\ returned = NotReturned /\ ran = NotRun /\ skewed = FALSE
  <2>1. /\ store \in DOMAIN Registered /\ hash \in Hashes /\ table = FuncTable(store, hash)
        /\ toServer = <<>> /\ toClient = <<>> /\ calls = 0 /\ call = NoCall
        /\ client = At("idle", 0) /\ server = Doing("length", 4, NoEntry)
        /\ returned = NotReturned /\ ran = NotRun
    BY <1>1 DEF Init
  <2>2. closed = FALSE
    BY <1>1, Zenon DEF Init
  <2>3. skewed = FALSE
    BY <1>1, Zenon DEF Init
  <2>4. QED  BY <2>1, <2>2, <2>3, Zenon
<1>3. Types
  <2>1. calls \in Nat /\ toServer \in Seq(Solid) /\ store \in DOMAIN Registered /\ hash \in Hashes
        /\ table = FuncTable(store, hash)
    BY <1>2
  <2>2. closed \in BOOLEAN /\ skewed \in BOOLEAN
    BY <1>2, Zenon
  <2>3. client # At("idle", 0) => returned = NotReturned
    BY <1>2
  <2>4. QED  BY <2>1, <2>2, <2>3, Zenon DEF Types
<1>4. CallOK /\ RanOK
  BY <1>2 DEF CallOK, RanOK
<1>5. Waits
  BY <1>2 DEF Waits, AtTop
<1>6. InStep
  BY <1>2, <1>5 DEF InStep
<1>7. ArgumentsArrive /\ ResultsReturn /\ RefusalsExplained
  BY <1>2 DEF ArgumentsArrive, ResultsReturn, RefusalsExplained, NotRun, NotReturned, None
<1>8. QED  BY <1>3, <1>4, <1>6, <1>7 DEF IInv

LEMMA StepOK == IInv /\ [Next]_vars => IInv'
<1>1. SUFFICES ASSUME IInv, [Next]_vars PROVE IInv'
  OBVIOUS
<1>2. CASE \E f \in Names : \E params \in PacksFor(f) : Call(f, params)
  BY <1>1, <1>2, CallKeeps
<1>3. CASE Leave
  BY <1>1, <1>3, LeaveKeeps
<1>4. CASE Client
  BY <1>1, <1>4, ReadStatusKeeps, ReadReplyLengthKeeps, ReadReplyKeeps, ClientFailsKeeps DEF Client
<1>5. CASE Server
  BY <1>1, <1>5, ReadNameLengthKeeps, ReadNameKeeps, ReadPackLengthKeeps, ReadPackKeeps,
     ServerFailsKeeps DEF Server
<1>6. CASE UNCHANGED vars
  <2>1. /\ UNCHANGED <<store, hash, table, closed, toServer, toClient, calls, call, client>>
        /\ UNCHANGED <<server, returned, ran, skewed>>
    BY <1>6 DEF vars
  <2>2. CallOK' /\ RanOK' /\ ArgumentsArrive' /\ (FitsSignature' <=> FitsSignature)
    BY <1>1, <2>1, SameCall DEF IInv
  <2>3. Types' /\ ResultsReturn'
    BY <1>1, <2>1 DEF IInv, Types, ResultsReturn
  <2>4. RefusalsExplained'
    BY <1>1, <2>1, <2>2 DEF IInv, RefusalsExplained
  <2>5. InStep'
    <3>1. (AtTop => AtTop') /\ (Ended => Ended')
      BY <2>1 DEF AtTop, Ended
    <3>2. OutOfStep => OutOfStep'
      BY <2>1, <3>1 DEF OutOfStep
    <3>3. Asked => Asked'
      <4>1. Asking => Asking'
        BY <2>1 DEF Asking
      <4>2. Arriving => Arriving'
        BY <2>1, <3>1 DEF Arriving
      <4>3. QED  BY <4>1, <4>2 DEF Asked
    <3>4. Rejected => Rejected'
      BY <2>1, <3>1 DEF Rejected
    <3>5. Answered => Answered'
      <4>1. (Refused => Refused') /\ (Done => Done')
        BY <2>1, <2>2 DEF Refused, Done
      <4>2. Replies => Replies'
        BY <2>1 DEF Replies
      <4>3. QED  BY <4>1, <4>2, <2>1, <3>1 DEF Answered
    <3>6. Waits => Waits'
      BY <2>1, <3>1 DEF Waits
    <3>7. QED  BY <1>1, <2>1, <3>2, <3>3, <3>4, <3>5, <3>6 DEF IInv, InStep
  <2>6. QED  BY <2>2, <2>3, <2>4, <2>5 DEF IInv
<1>7. QED  BY <1>1, <1>2, <1>3, <1>4, <1>5, <1>6 DEF Next

LEMMA AlwaysIInv == Spec => []IInv
  BY InitOK, StepOK, PTL DEF Spec

\* A store is never run with anything but what the client passed in this very call, each
\* value under its own name: for the signatures of all thirteen functions, whatever the
\* hash function and the order of the chains, and also after half a request.
THEOREM ArgumentsAlwaysArrive == Spec => []ArgumentsArrive
<1>1. IInv => ArgumentsArrive
  BY DEF IInv
<1>2. QED  BY <1>1, AlwaysIInv, PTL

\* A call that succeeds returns what this call's run of the function had for it.
THEOREM ResultsAlwaysReturn == Spec => []ResultsReturn
<1>1. IInv => ResultsReturn
  BY DEF IInv
<1>2. QED  BY <1>1, AlwaysIInv, PTL

\* No call is refused without a reason: what is packed can be read and extracted, a receive
\* never stops between two fields, and a registered function is found in its chain.
THEOREM RefusalsAlwaysExplained == Spec => []RefusalsExplained
<1>1. IInv => RefusalsExplained
  BY DEF IInv
<1>2. QED  BY <1>1, AlwaysIInv, PTL
=============================================================================
