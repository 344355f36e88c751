------------------------ MODULE SecureTransportProofs ------------------------
(***************************************************************************)
(* SecureTransport implements Channel: proofs for messages of any lengths, *)
(* any number of them, and any number in place of a size that was not read.*)
(***************************************************************************)
EXTENDS SecureTransport, SequenceTheorems, TLAPS

-----------------------------------------------------------------------------
\* The inductive invariant: the units to be read are those of whole frames in the
\* order in which they were sent, and the receiver knows where in them it is, unless
\* a receive has failed.

Units == (1..Len(sent)) \X Nat

TypeOK ==
    /\ sent \in Seq(Nat)
    /\ \A i \in DOMAIN sent : Length(i) \in Lengths
    /\ wire \in Seq(Units)
    /\ closed \in BOOLEAN /\ lossy \in BOOLEAN
    /\ rpc \in {"idle", "size", "body"}
    /\ status \in {"idle", "pending", "ok", "failed"}
    /\ asked \in Nat /\ total \in Nat /\ size \in Nat
    /\ got \in Seq(DOMAIN sent)
    /\ next \in 1..Len(sent) + 1

\* The frame that the sender has begun.
Sending ==
    LET n == Len(sent) IN
    /\ closed => out = <<>>
    /\ out # <<>> =>
        /\ n > 0
        /\ out \in {<<SizeUnits(n), BodyUnits(n, Length(n))>>, <<BodyUnits(n, Length(n))>>}

\* What is to be read: the units in flight, and the next one that the sender writes.
Written ==
    IF out = <<>> THEN <<Len(sent) + 1, 1>>
    ELSE IF Len(out) = 2 THEN <<Len(sent), 1>> ELSE <<Len(sent), 3>>
Stream == IF closed THEN wire ELSE Append(wire, Written)

\* The unit that is sent after unit u.
After(u) ==
    IF u[2] < 2 + SizeOfBody(Length(u[1])) THEN <<u[1], u[2] + 1>> ELSE <<u[1] + 1, 1>>

Framed ==
    /\ \A m \in 1..Len(Stream) - 1 : Stream[m + 1] = After(Stream[m])
    /\ \A m \in 1..Len(Stream), n \in 1..Len(Stream) : m <= n => Stream[m][1] <= Stream[n][1]
    /\ \A m \in 1..Len(Stream) : Stream[m][1] >= next

\* The messages in the buffer follow each other, and total_read is their length.
Received ==
    /\ status = "pending" <=> rpc # "idle"
    /\ got = <<>> => total = 0
    /\ got # <<>> =>
        /\ \A m \in 1..Len(got) : got[m] = got[1] + m - 1
        /\ status = "pending" => got[1] = next \/ (lossy /\ got[1] > next)
        /\ total = End(got[Len(got)]) - End(got[1] - 1)

\* The receiver knows the frame it reads next.
Knows == ~lossy \/ (rpc # "idle" /\ got # <<>>)
Expected == IF rpc = "idle" \/ got = <<>> THEN next ELSE got[Len(got)] + 1

InStep ==
    Knows /\ Stream # <<>> =>
        /\ rpc # "body" => Stream[1] = <<Expected, 1>>
        /\ rpc = "body" => Stream[1] \in {<<Expected, 2>>, <<Expected, 3>>}

IInv == TypeOK /\ Sending /\ Framed /\ Received /\ InStep

-----------------------------------------------------------------------------
\* Lengths, and what is to be read.

LEMMA LengthFacts ==
  ASSUME TypeOK
  PROVE  /\ Len(sent) \in Nat /\ DOMAIN sent = 1..Len(sent)
         /\ \A i \in 0..Len(sent) : End(i) \in Nat
         /\ \A i \in DOMAIN sent : Length(i) \in Nat \ {0} /\ End(i) = End(i - 1) + Length(i)
<1>1. Len(sent) \in Nat /\ DOMAIN sent = 1..Len(sent)
  BY DEF TypeOK
<1>2. \A i \in 0..Len(sent) : End(i) \in Nat
  BY <1>1 DEF TypeOK, End
<1>3. ASSUME NEW i \in DOMAIN sent
      PROVE  Length(i) \in Nat \ {0} /\ End(i) = End(i - 1) + Length(i)
  <2>1. Length(i) \in Nat \ {0}
    BY SecureTransportAssumption DEF TypeOK
  <2>2. End(i) \in Nat /\ End(i - 1) \in Nat
    BY <1>1, <1>2
  <2>3. QED
    BY <2>1, <2>2 DEF Length
<1>4. QED
  BY <1>1, <1>2, <1>3

LEMMA SentSame ==
  ASSUME UNCHANGED sent
  PROVE  /\ \A i : End(i)' = End(i) /\ Length(i)' = Length(i)
         /\ \A u : After(u)' = After(u)
  BY DEF End, Length, After

LEMMA AppendAny ==
  ASSUME NEW S, NEW w \in Seq(S), NEW x
  PROVE  /\ Len(Append(w, x)) = Len(w) + 1 /\ Append(w, x) # <<>>
         /\ \A m \in 1..Len(w) : Append(w, x)[m] = w[m]
         /\ Append(w, x)[Len(w) + 1] = x
<1>1. w \in Seq(S \cup {x}) /\ x \in S \cup {x}
  OBVIOUS
<1>2. QED
  BY <1>1, AppendProperties

LEMMA AfterIs ==
  ASSUME TypeOK, NEW i \in DOMAIN sent, NEW k \in Nat
  PROVE  After(<<i, k>>) = IF k < 3 + Length(i) THEN <<i, k + 1>> ELSE <<i + 1, 1>>
<1>1. Length(i) \in Nat
  BY LengthFacts
<1>2. <<i, k>>[1] = i /\ <<i, k>>[2] = k
  OBVIOUS
<1>3. PICK u : u = <<i, k>>
  OBVIOUS
<1>4. After(u) = IF k < 2 + (Length(i) + 1) THEN <<i, k + 1>> ELSE <<i + 1, 1>>
  BY <1>2, <1>3 DEF After, SizeOfBody
<1>5. QED
  BY <1>1, <1>3, <1>4

\* The definition of Stream, unit by unit.
StreamShape ==
    /\ Len(wire) \in Nat /\ Len(Stream) \in Nat
    /\ Len(Stream) = IF closed THEN Len(wire) ELSE Len(wire) + 1
    /\ \A m \in 1..Len(wire) : Stream[m] = wire[m]
    /\ ~closed => Stream[Len(wire) + 1] = Written
    /\ Stream = <<>> <=> Len(Stream) = 0
Wired == wire \in Seq(Units) /\ closed \in BOOLEAN

LEMMA WireFacts ==
  ASSUME TypeOK, NEW m \in 1..Len(wire)
  PROVE  wire[m] \in Units /\ wire[m][1] \in DOMAIN sent
<1>1. wire[m] \in Units
  BY DEF TypeOK
<1>2. wire[m][1] \in 1..Len(sent)
  BY <1>1 DEF Units
<1>3. QED
  BY <1>1, <1>2 DEF TypeOK

LEMMA StreamFacts == Wired => StreamShape
<1> SUFFICES ASSUME Wired
             PROVE  StreamShape
  OBVIOUS
<1>1. wire \in Seq(Units) /\ Len(wire) \in Nat /\ (wire = <<>> <=> Len(wire) = 0)
  BY EmptySeq DEF Wired
<1>2. CASE closed
  BY <1>1, <1>2 DEF Stream, StreamShape
<1>3. CASE ~closed
  <2>1. Stream = Append(wire, Written)
    BY <1>3 DEF Stream
  <2>2. /\ Len(Stream) = Len(wire) + 1 /\ Stream # <<>>
        /\ \A m \in 1..Len(wire) : Stream[m] = wire[m]
        /\ Stream[Len(wire) + 1] = Written
    BY <1>1, <2>1, AppendAny
  <2>3. QED
    BY <1>1, <1>3, <2>2 DEF StreamShape
<1>4. QED
  BY <1>2, <1>3 DEF Wired

LEMMA StreamFactsNext == Wired' => StreamShape'
  BY StreamFacts, PTL

\* A read takes the first k units.
LEMMA ReadTakes ==
  ASSUME TypeOK, NEW k \in 0..Len(wire), wire' = SubSeq(wire, k + 1, Len(wire)),
         UNCHANGED <<sent, out, closed>>
  PROVE  /\ wire' \in Seq(Units) /\ Wired'
         /\ Len(Stream') = Len(Stream) - k
         /\ \A m \in 1..Len(Stream') : m + k \in 1..Len(Stream) /\ Stream'[m] = Stream[m + k]
         /\ Stream' = <<>> <=> Len(Stream') = 0
<1>1. wire \in Seq(Units) /\ Len(wire) \in Nat /\ closed \in BOOLEAN
  BY DEF TypeOK
<1>2. /\ wire' \in Seq(Units) /\ Len(wire') = Len(wire) - k
      /\ \A m \in 1..Len(wire') : wire'[m] = wire[m + k]
  <2>1. \A m \in k + 1..Len(wire) : wire[m] \in Units
    BY <1>1
  <2>2. QED
    BY <1>1, <2>1, SubSeqProperties
<1>3. Written' = Written
  BY DEF Written
<1>4. Wired'
  BY <1>1, <1>2 DEF Wired, Units
<1>5. StreamShape /\ StreamShape'
  BY <1>1, <1>4, StreamFacts, StreamFactsNext DEF Wired
<1>6. Len(Stream') = Len(Stream) - k
  BY <1>1, <1>2, <1>5 DEF StreamShape
<1>7. ASSUME NEW m \in 1..Len(Stream')
      PROVE  m + k \in 1..Len(Stream) /\ Stream'[m] = Stream[m + k]
  BY <1>1, <1>2, <1>3, <1>5, <1>6 DEF StreamShape
<1>8. QED
  BY <1>2, <1>4, <1>5, <1>6, <1>7 DEF StreamShape

\* What remains is framed as before, and begins after the unit read last.
LEMMA ReadKeepsFraming ==
  ASSUME IInv, NEW k \in 0..Len(wire), wire' = SubSeq(wire, k + 1, Len(wire)),
         UNCHANGED <<sent, out, closed>>
  PROVE  /\ Wired' /\ Sending'
         /\ \A m \in 1..Len(Stream') - 1 : Stream'[m + 1] = After(Stream'[m])
         /\ \A m \in 1..Len(Stream'), n \in 1..Len(Stream') :
                m <= n => Stream'[m][1] <= Stream'[n][1]
         /\ \A m \in 1..Len(Stream') : Stream'[m][1] >= next
         /\ Stream' # <<>> => Stream # <<>>
         /\ Stream' # <<>> /\ k > 0 => Stream'[1] = After(wire[k])
         /\ k = 0 => Stream' = <<>> \/ (Stream # <<>> /\ Stream'[1] = Stream[1])
<1>1. /\ wire' \in Seq(Units) /\ Wired'
      /\ Len(Stream') = Len(Stream) - k
      /\ \A m \in 1..Len(Stream') : m + k \in 1..Len(Stream) /\ Stream'[m] = Stream[m + k]
      /\ Stream' = <<>> <=> Len(Stream') = 0
  BY ReadTakes DEF IInv
<1>2. StreamShape /\ k \in Nat
  BY StreamFacts DEF IInv, TypeOK, Wired
<1>3. Wired'
  BY <1>1
<1>4. Sending'
  BY SentSame DEF IInv, Sending, SizeUnits, BodyUnits
<1>5. Len(Stream) \in Nat /\ Len(Stream') \in Nat
  BY <1>1, <1>2, <1>3, StreamFactsNext DEF StreamShape
<1>6. ASSUME NEW m \in 1..Len(Stream') - 1
      PROVE  Stream'[m + 1] = After(Stream'[m])
  <2>1. m + k \in 1..Len(Stream) - 1 /\ (m + k) + 1 = (m + 1) + k
    BY <1>1, <1>2, <1>5
  <2>2. Stream[(m + k) + 1] = After(Stream[m + k])
    BY <2>1 DEF IInv, Framed
  <2>3. m \in 1..Len(Stream') /\ m + 1 \in 1..Len(Stream')
    BY <1>5
  <2>4. QED
    BY <1>1, <2>1, <2>2, <2>3
<1>7. ASSUME NEW m \in 1..Len(Stream')
      PROVE  Stream'[m][1] >= next
  BY <1>1 DEF IInv, Framed
<1>8. ASSUME NEW m \in 1..Len(Stream'), NEW n \in 1..Len(Stream'), m <= n
      PROVE  Stream'[m][1] <= Stream'[n][1]
  <2>1. m + k \in 1..Len(Stream) /\ n + k \in 1..Len(Stream) /\ m + k <= n + k
    BY <1>1, <1>2, <1>8
  <2>2. QED
    BY <1>1, <2>1 DEF IInv, Framed
<1>9. ASSUME Stream' # <<>>, k > 0
      PROVE  Stream'[1] = After(wire[k])
  <2>1. 1 \in 1..Len(Stream') /\ k \in 1..Len(Stream) - 1 /\ k \in 1..Len(wire)
    BY <1>1, <1>2, <1>5, <1>9
  <2>2. Stream'[1] = Stream[1 + k] /\ 1 + k = k + 1
    BY <1>1, <1>2, <2>1
  <2>3. Stream[k + 1] = After(Stream[k]) /\ Stream[k] = wire[k]
    BY <1>2, <2>1 DEF IInv, Framed, StreamShape
  <2>4. QED
    BY <2>2, <2>3
<1>10. ASSUME Stream' # <<>>
       PROVE  Stream # <<>> /\ (k = 0 => Stream'[1] = Stream[1])
  <2>1. 1 \in 1..Len(Stream') /\ Len(Stream) # 0
    BY <1>1, <1>2, <1>5, <1>10
  <2>2. k = 0 => Stream'[1] = Stream[1]
    BY <1>1, <2>1
  <2>3. QED
    BY <1>2, <2>1, <2>2 DEF StreamShape
<1>11. QED
  BY <1>3, <1>4, <1>6, <1>7, <1>8, <1>9, <1>10

\* A receive that fails leaves its place in the stream unknown.
LEMMA FailsKeeps ==
  ASSUME IInv, NEW k \in 0..Len(wire), wire' = SubSeq(wire, k + 1, Len(wire)),
         UNCHANGED <<sent, out, closed, asked>>, Fails
  PROVE  IInv'
<1>1. /\ rpc' = "idle" /\ size' = 0 /\ status' = "failed" /\ lossy' = TRUE
      /\ got' = <<>> /\ total' = 0 /\ next' = next
  BY DEF Fails, Returns
<1>2. TypeOK'
  BY <1>1, ReadKeepsFraming, SentSame, EmptySeq DEF IInv, TypeOK, Wired
<1>3. Framed'
  BY <1>1, ReadKeepsFraming, SentSame DEF Framed
<1>4. Sending' /\ Received' /\ InStep'
  BY <1>1, ReadKeepsFraming DEF Received, InStep, Knows
<1>5. QED
  BY <1>2, <1>3, <1>4 DEF IInv

\* So does one that fails with nothing read.
LEMMA FailsAtOnceKeeps ==
  ASSUME IInv, UNCHANGED <<sent, out, closed, asked, wire>>, Fails
  PROVE  IInv'
<1>1. wire \in Seq(Units) /\ Len(wire) \in Nat
  BY DEF IInv, TypeOK
<1>2. wire' = SubSeq(wire, 0 + 1, Len(wire))
  BY <1>1, SubSeqFull
<1>3. QED
  BY <1>1, <1>2, FailsKeeps

\* The units that a read takes.
LEMMA ChunkFacts ==
  ASSUME Wired, NEW k \in 0..Len(wire)
  PROVE  /\ Len(SubSeq(wire, 1, k)) = k
         /\ \A m \in 1..k : SubSeq(wire, 1, k)[m] = wire[m]
<1>1. k \in Nat /\ \A m \in 1..k : wire[m] \in Units
  BY DEF Wired
<1>2. QED
  BY <1>1, SubSeqProperties

LEMMA ReadableFacts ==
  ASSUME Wired, NEW n \in Nat, NEW k \in Readable(n)
  PROVE  /\ k \in 0..Len(wire) /\ k <= n
         /\ k = 0 => closed /\ wire = <<>>
  BY EmptySeq DEF Wired, Readable

\* A size, or a part of one, has been read.
LEMMA ReadSizeKeeps ==
  ASSUME IInv, ReadSize
  PROVE  IInv'
<1>1. rpc = "size" /\ UNCHANGED <<sent, out, closed, asked>> /\ Wired /\ 2 \in Nat
  BY DEF ReadSize, IInv, TypeOK, Wired
<1>2. CASE closed /\ wire = <<>> /\ Fails /\ UNCHANGED wire
  BY <1>1, <1>2, FailsAtOnceKeeps
<1>3. ASSUME NEW k \in Readable(2), wire' = SubSeq(wire, k + 1, Len(wire)), NEW n \in Nat,
             Fails
      PROVE  IInv'
  BY <1>1, <1>3, ReadableFacts, FailsKeeps
<1>4. ASSUME NEW k \in Readable(2), wire' = SubSeq(wire, k + 1, Len(wire)), NEW n \in Nat,
             rpc' = "body", size' = n, UNCHANGED <<got, total, status, next, lossy>>
      PROVE  IInv'
  <2>1. k \in 0..Len(wire) /\ k \in {0, 1, 2} /\ (k = 0 => Stream = <<>>)
    BY <1>1, ReadableFacts DEF Stream
  <2>2. TypeOK'
    BY <1>1, <1>4, <2>1, ReadKeepsFraming, SentSame DEF IInv, TypeOK, Wired
  <2>3. Framed' /\ Sending'
    BY <1>1, <1>4, <2>1, ReadKeepsFraming, SentSame DEF Framed
  <2>4. Received'
    BY <1>1, <1>4, SentSame DEF IInv, Received
  <2>5. InStep'
    <3>1. SUFFICES ASSUME Knows, Stream' # <<>>
                   PROVE  Stream'[1] \in {<<Expected, 2>>, <<Expected, 3>>}
      BY <1>1, <1>4 DEF InStep, Knows, Expected
    <3>2. PICK e : e = Expected
      OBVIOUS
    <3>3. Stream # <<>> /\ Stream[1] = <<e, 1>> /\ k \in {1, 2}
      BY <1>1, <1>4, <2>1, <3>1, <3>2, ReadKeepsFraming DEF IInv, InStep
    <3>4. wire[1] = <<e, 1>> /\ e \in DOMAIN sent
      <4>1. 1 \in 1..Len(wire) /\ wire[1] = Stream[1]
        BY <2>1, <3>3, <1>1, StreamFacts DEF StreamShape
      <4>2. wire[1][1] \in DOMAIN sent
        BY <4>1, WireFacts DEF IInv
      <4>3. wire[1] = <<e, 1>> /\ wire[1][1] = e
        BY <3>3, <4>1
      <4>4. QED
        BY <4>2, <4>3
    <3>5. After(<<e, 1>>) = <<e, 2>> /\ After(<<e, 2>>) = <<e, 3>>
      <4>1. Length(e) \in Nat \ {0}
        BY <3>4, LengthFacts DEF IInv
      <4>2. /\ After(<<e, 1>>) = IF 1 < 3 + Length(e) THEN <<e, 1 + 1>> ELSE <<e + 1, 1>>
            /\ After(<<e, 2>>) = IF 2 < 3 + Length(e) THEN <<e, 2 + 1>> ELSE <<e + 1, 1>>
        BY <3>4, AfterIs DEF IInv
      <4>3. QED
        BY <4>1, <4>2
    <3>6. CASE k = 1
      <4>1. Stream'[1] = After(wire[1])
        BY <1>1, <1>4, <2>1, <3>1, <3>6, ReadKeepsFraming
      <4>2. QED
        BY <3>2, <3>4, <3>5, <4>1
    <3>7. CASE k = 2
      <4>1. 1 \in 1..Len(Stream) - 1 /\ Stream[2] = wire[2] /\ Stream[1] = wire[1]
        BY <1>1, <2>1, <3>7, StreamFacts DEF StreamShape
      <4>2. wire[2] = <<e, 2>>
        BY <3>4, <3>5, <4>1 DEF IInv, Framed
      <4>3. Stream'[1] = After(wire[2])
        BY <1>1, <1>4, <2>1, <3>1, <3>7, ReadKeepsFraming
      <4>4. QED
        BY <3>2, <3>5, <4>2, <4>3
    <3>8. QED
      BY <3>3, <3>6, <3>7
  <2>6. QED
    BY <2>2, <2>3, <2>4, <2>5 DEF IInv
<1>5. \A i \in DOMAIN sent : SizeOfBody(Length(i)) \in Nat
  BY LengthFacts DEF IInv, SizeOfBody
<1>6. QED
  BY <1>1, <1>2, <1>3, <1>4, <1>5, SecureTransportAssumption DEF ReadSize

\* A whole frame, opened and kept: it is the one that the receiver expects, where it
\* knows which that is, and none that it has passed over otherwise.
LEMMA WholeFrame ==
  ASSUME IInv, rpc = "body", NEW k \in 0..Len(wire), NEW i \in DOMAIN sent,
         SubSeq(wire, 1, k) = BodyUnits(i, Length(i))
  PROVE  /\ k > 0 /\ wire[k] = <<i, 2 + SizeOfBody(Length(i))>>
         /\ After(wire[k]) = <<i + 1, 1>>
         /\ Knows => i = Expected
         /\ i >= next
<1>1. Wired /\ StreamShape /\ k \in Nat
  BY StreamFacts DEF IInv, TypeOK, Wired
<1>2. Length(i) \in Nat \ {0} /\ SizeOfBody(Length(i)) = Length(i) + 1
  BY LengthFacts DEF IInv, SizeOfBody
<1>3. PICK n \in Nat : n = SizeOfBody(Length(i)) /\ n > 1
  BY <1>2
<1>4. BodyUnits(i, Length(i)) = [m \in 1..n |-> <<i, 2 + m>>]
  BY <1>3 DEF BodyUnits
<1>5. Len(BodyUnits(i, Length(i))) = n
  BY <1>3, <1>4
<1>6. k = n
  BY <1>1, <1>5, ChunkFacts
<1>7. \A m \in 1..k : wire[m] = <<i, 2 + m>>
  BY <1>1, <1>4, <1>6, ChunkFacts
<1>8. wire[1] = <<i, 3>> /\ wire[k] = <<i, 2 + k>>
  BY <1>3, <1>6, <1>7
<1>9. After(wire[k]) = <<i + 1, 1>>
  <2>1. After(<<i, 2 + k>>) = IF 2 + k < 3 + Length(i) THEN <<i, (2 + k) + 1>> ELSE <<i + 1, 1>>
    BY <1>1, AfterIs DEF IInv
  <2>2. ~(2 + k < 3 + Length(i))
    BY <1>1, <1>2, <1>3, <1>6
  <2>3. QED
    BY <1>8, <2>1, <2>2
<1>10. Stream # <<>> /\ 1 \in 1..Len(Stream) /\ Stream[1] = <<i, 3>>
  <2>1. 1 \in 1..Len(wire)
    BY <1>1, <1>3, <1>6
  <2>2. Stream[1] = wire[1]
    BY <1>1, <2>1 DEF StreamShape
  <2>3. Len(Stream) \in Nat /\ Len(Stream) >= Len(wire)
    BY <1>1 DEF StreamShape
  <2>4. QED
    BY <1>1, <1>3, <1>8, <2>1, <2>2, <2>3 DEF StreamShape
<1>11. Stream[1][1] = i /\ Stream[1][2] = 3
  BY <1>10
<1>12. i >= next
  BY <1>10, <1>11 DEF IInv, Framed
<1>13. ASSUME Knows
       PROVE  i = Expected
  <2>1. PICK e : e = Expected
    OBVIOUS
  <2>2. Stream[1] \in {<<e, 2>>, <<e, 3>>}
    BY <1>10, <1>13, <2>1 DEF IInv, InStep
  <2>3. Stream[1][1] = e
    BY <2>2
  <2>4. QED
    BY <1>11, <2>1, <2>3
<1>14. QED
  BY <1>3, <1>6, <1>8, <1>9, <1>12, <1>13

\* What the buffer holds with message i added.
LEMMA GotMore ==
  ASSUME IInv, rpc = "body", NEW i \in DOMAIN sent, Knows => i = Expected, i >= next
  PROVE  LET more == Append(got, i) IN
         /\ more \in Seq(DOMAIN sent) /\ more # <<>> /\ more[Len(more)] = i
         /\ \A m \in 1..Len(more) : more[m] = more[1] + m - 1
         /\ more[1] = next \/ (lossy /\ more[1] > next)
         /\ more[1] \in DOMAIN sent /\ more[1] <= i /\ Len(more) = i - more[1] + 1
         /\ total + Length(i) = End(i) - End(more[1] - 1)
         /\ total + Length(i) \in Nat
<1>1. /\ got \in Seq(DOMAIN sent) /\ DOMAIN sent = 1..Len(sent) /\ Len(sent) \in Nat
      /\ next \in Nat /\ total \in Nat /\ i \in Nat
  BY LengthFacts DEF IInv, TypeOK
<1>2. status = "pending"
  BY DEF IInv, Received
<1>3. PICK more : more = Append(got, i)
  OBVIOUS
<1>4. /\ more \in Seq(DOMAIN sent) /\ more # <<>> /\ Len(more) = Len(got) + 1
      /\ \A m \in 1..Len(got) : more[m] = got[m]
      /\ more[Len(got) + 1] = i
  BY <1>1, <1>3, AppendProperties
<1>5. /\ End(i) \in Nat /\ Length(i) \in Nat /\ End(i) = End(i - 1) + Length(i)
      /\ End(i - 1) \in Nat
  BY <1>1, LengthFacts DEF IInv
<1>6. CASE got = <<>>
  <2>1. Len(got) = 0 /\ total = 0
    BY <1>6 DEF IInv, Received
  <2>2. Len(more) = 1 /\ more[1] = i
    BY <1>4, <2>1
  <2>3. i = next \/ (lossy /\ i > next)
    <3>1. ~lossy => i = next
      BY <1>6 DEF Knows, Expected
    <3>2. QED
      BY <1>1, <3>1
  <2>4. \A m \in 1..Len(more) : more[m] = more[1] + m - 1
    BY <1>1, <2>2
  <2>5. total + Length(i) = End(i) - End(more[1] - 1) /\ total + Length(i) \in Nat
    <3>1. total = 0 /\ more[1] - 1 = i - 1
      BY <2>1, <2>2
    <3>2. QED
      BY <1>5, <3>1
  <2>6. /\ more[1] \in DOMAIN sent /\ more[1] <= i /\ Len(more) = i - more[1] + 1
        /\ more[Len(more)] = i
    BY <1>1, <2>2
  <2>7. QED
    BY <1>3, <1>4, <2>2, <2>3, <2>4, <2>5, <2>6
<1>7. CASE got # <<>>
  <2>1. Len(got) \in Nat \ {0}
    BY <1>1, <1>7, EmptySeq
  <2>2. PICK b \in DOMAIN sent : b = got[1]
    BY <1>1, <2>1
  <2>3. /\ \A m \in 1..Len(got) : got[m] = b + m - 1
        /\ b = next \/ (lossy /\ b > next)
        /\ total = End(got[Len(got)]) - End(b - 1)
    BY <1>2, <1>7, <2>2 DEF IInv, Received
  <2>4. i = got[Len(got)] + 1 /\ got[Len(got)] = b + Len(got) - 1
    <3>1. i = got[Len(got)] + 1
      BY <1>7 DEF Knows, Expected
    <3>2. Len(got) \in 1..Len(got)
      BY <2>1
    <3>3. QED
      BY <2>3, <3>1, <3>2
  <2>5. b \in Nat /\ i = b + Len(got) /\ b <= i /\ i - 1 = got[Len(got)]
    <3>1. PICK len \in Nat : len = Len(got)
      BY <2>1
    <3>2. b \in Nat /\ got[Len(got)] = b + len - 1
      BY <1>1, <2>2, <2>4, <3>1
    <3>3. QED
      BY <2>1, <2>4, <3>1, <3>2
  <2>6. more[1] = b
    BY <1>4, <2>1, <2>2
  <2>7. ASSUME NEW m \in 1..Len(more)
        PROVE  more[m] = b + m - 1
    <3>1. CASE m \in 1..Len(got)
      BY <1>4, <2>3, <3>1
    <3>2. CASE m = Len(got) + 1
      BY <1>4, <2>1, <2>5, <3>2
    <3>3. QED
      BY <1>4, <2>1, <3>1, <3>2
  <2>8. End(b - 1) \in Nat /\ total + Length(i) = End(i) - End(b - 1)
    <3>1. b - 1 \in 0..Len(sent)
      BY <1>1, <2>2
    <3>2. End(b - 1) \in Nat
      BY <3>1, LengthFacts DEF IInv
    <3>3. total = End(i - 1) - End(b - 1)
      BY <2>3, <2>5
    <3>4. QED
      BY <1>1, <1>5, <3>2, <3>3
  <2>9. /\ more[1] = next \/ (lossy /\ more[1] > next)
        /\ more[1] \in DOMAIN sent /\ more[1] <= i /\ Len(more) = i - more[1] + 1
        /\ more[Len(more)] = i
    <3>1. more[1] = b /\ more[Len(more)] = i
      BY <1>4, <2>6
    <3>2. b \in DOMAIN sent /\ b <= i /\ Len(more) = i - b + 1
      <4>1. PICK len \in Nat : len = Len(got)
        BY <2>1
      <4>2. i = b + len /\ Len(more) = len + 1 /\ b \in Nat
        BY <1>4, <2>5, <4>1
      <4>3. QED
        BY <2>2, <4>2
    <3>3. b = next \/ (lossy /\ b > next)
      BY <2>3
    <3>4. QED
      BY <3>1, <3>2, <3>3
  <2>10. /\ \A m \in 1..Len(more) : more[m] = more[1] + m - 1
         /\ total + Length(i) = End(i) - End(more[1] - 1)
         /\ total + Length(i) \in Nat
    <3>1. \A m \in 1..Len(more) : more[m] = more[1] + m - 1
      BY <2>6, <2>7
    <3>2. total + Length(i) = End(i) - End(more[1] - 1)
      BY <2>6, <2>8
    <3>3. total + Length(i) \in Nat
      BY <1>1, <1>5
    <3>4. QED
      BY <3>1, <3>2, <3>3
  <2>11. QED
    BY <1>3, <1>4, <2>9, <2>10
<1>8. QED
  BY <1>6, <1>7

\* A frame has been read, or a part of one, or nothing.
LEMMA ReadBodyKeeps ==
  ASSUME IInv, ReadBody
  PROVE  IInv'
<1>1. rpc = "body" /\ UNCHANGED <<sent, out, closed, asked>> /\ Wired /\ size \in Nat
  BY DEF ReadBody, IInv, TypeOK, Wired
<1>2. CASE Fails /\ UNCHANGED wire
  BY <1>1, <1>2, FailsAtOnceKeeps
<1>3. ASSUME NEW k \in Readable(size), wire' = SubSeq(wire, k + 1, Len(wire)), Fails
      PROVE  IInv'
  BY <1>1, <1>3, ReadableFacts, FailsKeeps
<1>4. ASSUME NEW k \in Readable(size), wire' = SubSeq(wire, k + 1, Len(wire)),
             NEW i \in DOMAIN sent, SubSeq(wire, 1, k) = BodyUnits(i, Length(i)),
             got' = Append(got, i), total' = total + Length(i),
             \/ Returns("ok") /\ next' = i + 1
             \/ rpc' = "size" /\ size' = 0 /\ UNCHANGED <<status, next, lossy>>
      PROVE  IInv'
  <2>1. k \in 0..Len(wire)
    BY <1>1, ReadableFacts
  <2>2. /\ k > 0 /\ After(wire[k]) = <<i + 1, 1>>
        /\ Knows => i = Expected
        /\ i >= next
    BY <1>1, <1>4, <2>1, WholeFrame
  <2>3. /\ got' \in Seq(DOMAIN sent) /\ got' # <<>> /\ got'[Len(got')] = i
        /\ \A m \in 1..Len(got') : got'[m] = got'[1] + m - 1
        /\ got'[1] = next \/ (lossy /\ got'[1] > next)
        /\ got'[1] \in DOMAIN sent /\ got'[1] <= i
        /\ total' = End(i) - End(got'[1] - 1)
        /\ total' \in Nat
    BY <1>1, <1>4, <2>2, GotMore
  <2>4. \/ /\ rpc' = "idle" /\ size' = 0 /\ status' = "ok" /\ lossy' = FALSE
           /\ next' = i + 1
        \/ /\ rpc' = "size" /\ size' = 0 /\ status' = "pending" /\ lossy' = lossy
           /\ next' = next
    BY <1>1, <1>4 DEF Returns, IInv, Received
  <2>5. i + 1 \in 1..Len(sent) + 1 /\ i + 1 > next
    <3>1. i \in 1..Len(sent) /\ Len(sent) \in Nat
      BY LengthFacts DEF IInv
    <3>2. next \in 1..Len(sent) + 1 /\ i >= next
      BY <2>2 DEF IInv, TypeOK
    <3>3. QED
      BY <3>1, <3>2
  <2>6. /\ Wired' /\ Sending'
        /\ \A m \in 1..Len(Stream') - 1 : Stream'[m + 1] = After(Stream'[m])
        /\ \A m \in 1..Len(Stream'), n \in 1..Len(Stream') :
                m <= n => Stream'[m][1] <= Stream'[n][1]
        /\ \A m \in 1..Len(Stream') : Stream'[m][1] >= next
        /\ Stream' # <<>> => Stream'[1] = <<i + 1, 1>>
    BY <1>1, <1>4, <2>1, <2>2, ReadKeepsFraming
  <2>7. TypeOK'
    <3>1. sent' \in Seq(Nat) /\ \A n \in DOMAIN sent' : Length(n)' \in Lengths
      BY <1>1, SentSame DEF IInv, TypeOK
    <3>2. /\ got' \in Seq(DOMAIN sent') /\ total' \in Nat
          /\ next' \in 1..Len(sent') + 1
      <4>1. sent' = sent /\ next \in 1..Len(sent) + 1
        BY <1>1 DEF IInv, TypeOK
      <4>2. next' \in 1..Len(sent') + 1
        BY <2>4, <2>5, <4>1
      <4>3. QED
        BY <2>3, <4>1, <4>2
    <3>3. /\ rpc' \in {"idle", "size", "body"} /\ size' \in Nat
          /\ status' \in {"idle", "pending", "ok", "failed"} /\ lossy' \in BOOLEAN
      <4>1. lossy \in BOOLEAN
        BY DEF IInv, TypeOK
      <4>2. lossy' \in BOOLEAN
        BY <2>4, <4>1
      <4>3. QED
        BY <2>4, <4>2
    <3>4. asked' \in Nat
      BY <1>1 DEF IInv, TypeOK
    <3>5. QED
      BY <2>6, <3>1, <3>2, <3>3, <3>4 DEF TypeOK, Wired
  <2>8. Framed'
    <3>1. ASSUME NEW m \in 1..Len(Stream')
          PROVE  Stream'[m][1] >= i + 1
      <4>1. Len(Stream') \in Nat /\ (Stream' = <<>> <=> Len(Stream') = 0)
        BY <2>6, StreamFactsNext DEF StreamShape
      <4>2. 1 \in 1..Len(Stream') /\ 1 <= m /\ Stream'[1] = <<i + 1, 1>>
        BY <2>6, <4>1
      <4>3. Stream'[1][1] = i + 1
        BY <4>2
      <4>4. Stream'[1][1] <= Stream'[m][1]
        BY <2>6, <4>2
      <4>5. QED
        BY <4>3, <4>4
    <3>2. \A m \in 1..Len(Stream') : Stream'[m][1] >= next'
      BY <2>4, <2>6, <3>1
    <3>3. QED
      BY <1>1, <2>6, <3>2, SentSame DEF Framed
  <2>9. Received'
    <3>1. (total = End(got[Len(got)]) - End(got[1] - 1))'
      BY <1>1, <2>3 DEF End
    <3>2. QED
      BY <2>3, <2>4, <3>1 DEF Received
  <2>10. InStep'
    <3>1. Expected' = i + 1 /\ rpc' # "body"
      BY <2>3, <2>4 DEF Expected
    <3>2. QED
      BY <2>6, <3>1 DEF InStep
  <2>11. QED
    BY <2>6, <2>7, <2>8, <2>9, <2>10 DEF IInv
<1>5. QED
  BY <1>1, <1>2, <1>3, <1>4 DEF ReadBody

-----------------------------------------------------------------------------
\* The sender's steps, and the connection's end.

\* What comes last on the stream makes no difference to the receiver.
LEMMA ReceiverStays ==
  ASSUME IInv, UNCHANGED <<rpc, asked, got, total, size, status, next, lossy>>,
         TypeOK', Sending', Framed',
         \A i \in 0..Len(sent) : End(i)' = End(i),
         Stream' # <<>> => Stream # <<>> /\ Stream'[1] = Stream[1]
  PROVE  IInv'
<1>1. Received'
  <2>1. CASE got = <<>>
    BY <2>1 DEF IInv, Received
  <2>2. CASE got # <<>>
    <3>1. got \in Seq(DOMAIN sent) /\ DOMAIN sent = 1..Len(sent) /\ Len(sent) \in Nat
      BY LengthFacts DEF IInv, TypeOK
    <3>2. Len(got) \in Nat \ {0}
      BY <2>2, <3>1, EmptySeq
    <3>3. got[1] - 1 \in 0..Len(sent) /\ got[Len(got)] \in 0..Len(sent)
      BY <3>1, <3>2
    <3>4. (End(got[Len(got)]) - End(got[1] - 1))' = End(got[Len(got)]) - End(got[1] - 1)
      <4>1. PICK a \in 0..Len(sent), b \in 0..Len(sent) : a = got[Len(got)] /\ b = got[1] - 1
        BY <3>3
      <4>2. (End(got[Len(got)]))' = End(a)' /\ (End(got[1] - 1))' = End(b)'
        BY <4>1 DEF End
      <4>3. QED
        BY <4>1, <4>2
    <3>5. QED
      BY <2>2, <3>4 DEF IInv, Received
  <2>3. QED
    BY <2>1, <2>2
<1>2. InStep'
  BY DEF IInv, InStep, Knows, Expected
<1>3. QED
  BY <1>1, <1>2 DEF IInv

LEMMA BreakKeeps ==
  ASSUME IInv, Break
  PROVE  IInv'
<1>1. /\ ~closed /\ closed' = TRUE /\ out' = <<>>
      /\ UNCHANGED <<sent, rpc, asked, got, total, size, status, next, lossy>>
  BY DEF Break
<1>2. PICK k \in 0..Len(wire) : wire' = SubSeq(wire, 1, k)
  BY DEF Break
<1>3. wire \in Seq(Units) /\ Len(wire) \in Nat /\ Wired /\ k \in Nat
  BY <1>2 DEF IInv, TypeOK, Wired
<1>4. /\ wire' \in Seq(Units) /\ Len(wire') = k
      /\ \A m \in 1..k : wire'[m] = wire[m]
  BY <1>2, <1>3, SubSeqProperties
<1>5. wire' \in Seq(Units') /\ closed' \in BOOLEAN
  BY <1>1, <1>4 DEF Units
<1>6. TypeOK'
  BY <1>1, <1>5, SentSame DEF IInv, TypeOK
<1>7. Sending'
  BY <1>1 DEF Sending
<1>8. StreamShape /\ StreamShape'
  BY <1>3, <1>5, StreamFacts, StreamFactsNext DEF Wired
<1>9. /\ Len(Stream') = k /\ k <= Len(Stream)
      /\ \A m \in 1..k : Stream'[m] = Stream[m]
  BY <1>1, <1>3, <1>4, <1>8 DEF StreamShape
<1>10. Framed'
  <2>1. 1..k \subseteq 1..Len(Stream) /\ Len(Stream) \in Nat
    BY <1>3, <1>8, <1>9 DEF StreamShape
  <2>2. ASSUME NEW m \in 1..k - 1
        PROVE  Stream'[m + 1] = After(Stream'[m])
    <3>1. m \in 1..k /\ m + 1 \in 1..k /\ m \in 1..Len(Stream) - 1
      BY <1>3, <2>1, <1>9
    <3>2. QED
      BY <1>9, <3>1 DEF IInv, Framed
  <2>3. QED
    BY <1>1, <1>9, <2>1, <2>2, SentSame DEF IInv, Framed
<1>11. Stream' # <<>> => Stream # <<>> /\ Stream'[1] = Stream[1]
  BY <1>3, <1>8, <1>9 DEF StreamShape
<1>12. QED
  BY <1>1, <1>6, <1>7, <1>10, <1>11, SentSame, ReceiverStays

\* A receive begins.
LEMMA AskKeeps ==
  ASSUME IInv, NEW n \in Lengths, Ask(n)
  PROVE  IInv'
<1>1. /\ rpc = "idle" /\ rpc' = "size" /\ asked' = n /\ got' = <<>> /\ total' = 0
      /\ status' = "pending" /\ UNCHANGED <<sent, out, wire, closed, size, next, lossy>>
  BY DEF Ask
<1>2. TypeOK'
  <2>1. n \in Nat /\ got' \in Seq(DOMAIN sent)
    BY <1>1, EmptySeq, SecureTransportAssumption
  <2>2. DOMAIN sent' = DOMAIN sent /\ \A i : Length(i)' = Length(i)
    BY <1>1, SentSame
  <2>3. QED
    BY <1>1, <2>1, <2>2 DEF IInv, TypeOK, Units
<1>3. Sending' /\ Framed'
  BY <1>1, SentSame DEF IInv, Sending, Framed, Stream, Written, BodyUnits, SizeUnits
<1>4. Received'
  BY <1>1 DEF Received
<1>5. InStep'
  BY <1>1 DEF IInv, InStep, Knows, Expected, Stream, Written
<1>6. QED
  BY <1>2, <1>3, <1>4, <1>5 DEF IInv

\* A message is framed; the stream is as it was.
LEMMA SendKeeps ==
  ASSUME IInv, NEW n \in Lengths, Send(n)
  PROVE  IInv'
<1>1. /\ ~closed /\ out = <<>> /\ sent' = Append(sent, End(Len(sent)) + n)
      /\ out' = <<SizeUnits(Len(sent) + 1), BodyUnits(Len(sent) + 1, n)>>
      /\ UNCHANGED <<wire, closed, rpc, asked, got, total, size, status, next, lossy>>
  BY DEF Send
<1>2. /\ Len(sent) \in Nat /\ DOMAIN sent = 1..Len(sent) /\ sent \in Seq(Nat)
      /\ End(Len(sent)) \in Nat /\ n \in Nat
  BY LengthFacts, SecureTransportAssumption DEF IInv, TypeOK
<1>3. /\ sent' \in Seq(Nat) /\ Len(sent') = Len(sent) + 1
      /\ DOMAIN sent' = 1..Len(sent) + 1
      /\ \A i \in DOMAIN sent : sent'[i] = sent[i]
      /\ sent'[Len(sent) + 1] = End(Len(sent)) + n
  <2>1. End(Len(sent)) + n \in Nat
    BY <1>2
  <2>2. PICK e \in Nat : e = End(Len(sent)) + n
    BY <2>1
  <2>3. sent' = Append(sent, e)
    BY <1>1, <2>2
  <2>4. QED
    BY <1>2, <2>2, <2>3, AppendProperties
<1>4. \A i \in 0..Len(sent) : End(i)' = End(i)
  <2>1. SUFFICES ASSUME NEW i \in 0..Len(sent)
                 PROVE  End(i)' = End(i)
    OBVIOUS
  <2>2. i # 0 => i \in DOMAIN sent
    BY <1>2
  <2>3. i # 0 => sent'[i] = sent[i]
    BY <1>3, <2>2
  <2>4. QED
    BY <2>3 DEF End
<1>5. \A i \in DOMAIN sent : Length(i)' = Length(i)
  <2>1. SUFFICES ASSUME NEW i \in DOMAIN sent
                 PROVE  Length(i)' = Length(i)
    OBVIOUS
  <2>2. i \in 0..Len(sent) /\ i - 1 \in 0..Len(sent)
    BY <1>2
  <2>3. End(i)' = End(i) /\ End(i - 1)' = End(i - 1)
    BY <1>4, <2>2
  <2>4. QED
    BY <2>3 DEF Length
<1>6. PICK last \in Nat : last = Len(sent) + 1
  BY <1>2
<1>7. Length(last)' = n
  <2>1. last # 0 /\ last - 1 = Len(sent) /\ last - 1 \in 0..Len(sent)
    BY <1>2, <1>6
  <2>2. End(last)' = End(last - 1) + n
    BY <1>3, <1>6, <2>1 DEF End
  <2>3. End(last - 1)' = End(last - 1) /\ End(last - 1) \in Nat
    BY <1>2, <1>4, <2>1
  <2>4. Length(last)' = End(last)' - End(last - 1)'
    BY DEF Length
  <2>5. QED
    BY <1>2, <2>2, <2>3, <2>4
<1>8. TypeOK'
  <2>1. ASSUME NEW i \in DOMAIN sent'
        PROVE  Length(i)' \in Lengths
    <3>1. CASE i \in DOMAIN sent
      <4>1. Length(i) \in Lengths
        BY <3>1 DEF IInv, TypeOK
      <4>2. QED
        BY <1>5, <3>1, <4>1
    <3>2. CASE i = last
      BY <1>7, <3>2
    <3>3. QED
      BY <1>2, <1>3, <1>6, <3>1, <3>2
  <2>2. wire' \in Seq(Units')
    <3>1. Units \subseteq Units'
      BY <1>2, <1>3 DEF Units
    <3>2. QED
      BY <1>1, <3>1 DEF IInv, TypeOK
  <2>3. got' \in Seq(DOMAIN sent')
    <3>1. DOMAIN sent \subseteq DOMAIN sent'
      BY <1>2, <1>3
    <3>2. QED
      BY <1>1, <3>1 DEF IInv, TypeOK
  <2>4. next' \in 1..Len(sent') + 1
    BY <1>1, <1>2, <1>3 DEF IInv, TypeOK
  <2>5. /\ closed' \in BOOLEAN /\ lossy' \in BOOLEAN
        /\ rpc' \in {"idle", "size", "body"}
        /\ status' \in {"idle", "pending", "ok", "failed"}
        /\ asked' \in Nat /\ total' \in Nat /\ size' \in Nat
    BY <1>1 DEF IInv, TypeOK
  <2>6. QED
    BY <1>3, <2>1, <2>2, <2>3, <2>4, <2>5 DEF TypeOK
<1>9. Sending'
  <2>1. Len(sent') = last /\ last > 0
    BY <1>2, <1>3, <1>6
  <2>2. out' = <<SizeUnits(last), BodyUnits(last, n)>>
    BY <1>1, <1>6
  <2>3. out' = <<SizeUnits(last), BodyUnits(last, Length(last)')>>
    BY <1>7, <2>2
  <2>4. out' \in {<<SizeUnits(last), BodyUnits(last, Length(last)')>>,
                   <<BodyUnits(last, Length(last)')>>}
    BY <2>3
  <2>5. closed' = FALSE
    BY <1>1 DEF IInv, TypeOK
  <2>6. QED
    BY <2>1, <2>4, <2>5 DEF Sending, Length
<1>10. Stream' = Stream
  <2>1. Written = <<Len(sent) + 1, 1>>
    BY <1>1 DEF Written
  <2>2. Len(out') = 2 /\ out' # <<>>
    BY <1>1
  <2>3. Written' = <<Len(sent) + 1, 1>>
    BY <1>3, <2>2 DEF Written
  <2>4. QED
    BY <1>1, <2>1, <2>3 DEF Stream
<1>11. Framed'
  <2>1. StreamShape
    BY StreamFacts DEF IInv, TypeOK, Wired
  <2>2. ASSUME NEW m \in 1..Len(Stream) - 1
        PROVE  Stream[m + 1] = After(Stream[m])'
    <3>1. m \in 1..Len(wire) /\ Stream[m] = wire[m]
      BY <1>1, <2>1 DEF StreamShape
    <3>2. PICK u : u = Stream[m]
      OBVIOUS
    <3>3. u[1] \in DOMAIN sent
      BY <3>1, <3>2, WireFacts DEF IInv
    <3>4. After(u)' = After(u)
      BY <1>5, <3>3 DEF After
    <3>5. After(Stream[m])' = After(u)'
      BY <1>10, <3>2 DEF After
    <3>6. QED
      BY <3>2, <3>4, <3>5 DEF IInv, Framed
  <2>3. QED
    BY <1>1, <1>10, <2>2 DEF IInv, Framed
<1>12. QED
  BY <1>1, <1>4, <1>8, <1>9, <1>10, <1>11, ReceiverStays

LEMMA Between ==
  ASSUME NEW len \in Nat, NEW j \in 1..len - 1, NEW L \in Nat
  PROVE  /\ j \in 1..len /\ j + 1 \in 1..len
         /\ L + j \in Nat /\ (L + j) + 1 = L + (j + 1)
         /\ \A end \in Nat : L + len <= end => L + j < end
  OBVIOUS

\* Units are written that follow those before them.
LEMMA WritesUnits ==
  ASSUME IInv, ~closed, UNCHANGED <<sent, closed>>,
         NEW n \in DOMAIN sent, NEW q \in Nat, NEW len \in Nat \ {0},
         NEW c \in Seq(Units), Len(c) = len, wire' = wire \o c,
         \A j \in 1..len : c[j] = <<n, q + j>>,
         Written = <<n, q + 1>>, q + len <= 3 + Length(n),
         Written' = After(<<n, q + len>>), Written'[1] >= n
  PROVE  /\ Wired'
         /\ \A m \in 1..Len(Stream') - 1 : Stream'[m + 1] = After(Stream'[m])
         /\ \A m \in 1..Len(Stream'), k \in 1..Len(Stream') :
                m <= k => Stream'[m][1] <= Stream'[k][1]
         /\ \A m \in 1..Len(Stream') : Stream'[m][1] >= next
         /\ Stream # <<>> /\ Stream'[1] = Stream[1]
<1>1. /\ wire \in Seq(Units) /\ Len(wire) \in Nat /\ Wired /\ StreamShape
      /\ Length(n) \in Nat /\ n \in Nat /\ next \in Nat
  <2>1. Wired /\ wire \in Seq(Units)
    BY DEF IInv, TypeOK, Wired
  <2>2. StreamShape
    BY <2>1, StreamFacts
  <2>3. Len(sent) \in Nat /\ DOMAIN sent = 1..Len(sent) /\ Length(n) \in Nat
    BY LengthFacts DEF IInv
  <2>4. next \in Nat
    BY <2>3 DEF IInv, TypeOK
  <2>5. QED
    BY <2>1, <2>2, <2>3, <2>4
<1>2. /\ wire' \in Seq(Units) /\ Len(wire') = Len(wire) + len
      /\ \A m \in 1..Len(wire) : wire'[m] = wire[m]
      /\ \A j \in 1..len : wire'[Len(wire) + j] = c[j]
  <2>1. /\ wire' \in Seq(Units) /\ Len(wire') = Len(wire) + len
        /\ \A m \in 1..Len(wire) + len :
                wire'[m] = IF m <= Len(wire) THEN wire[m] ELSE c[m - Len(wire)]
    BY <1>1, ConcatProperties
  <2>2. ASSUME NEW j \in 1..len
        PROVE  wire'[Len(wire) + j] = c[j]
    <3>1. /\ Len(wire) + j \in 1..Len(wire) + len /\ ~(Len(wire) + j <= Len(wire))
          /\ (Len(wire) + j) - Len(wire) = j
      BY <1>1
    <3>2. QED
      BY <2>1, <3>1
  <2>3. QED
    BY <1>1, <2>1, <2>2
<1>3. Wired' /\ StreamShape'
  <2>1. Wired'
    BY <1>1, <1>2 DEF Wired, Units
  <2>2. QED
    BY <2>1, StreamFactsNext
<1>4. PICK L \in Nat : L = Len(wire)
  BY <1>1
<1>5. /\ Len(Stream) = L + 1 /\ Stream[L + 1] = <<n, q + 1>>
      /\ Len(Stream') = L + len + 1 /\ Stream'[L + len + 1] = Written'
      /\ \A m \in 1..L : Stream'[m] = Stream[m]
      /\ \A j \in 1..len : Stream'[L + j] = <<n, q + j>>
  <2>1. Len(Stream) = L + 1 /\ Stream[L + 1] = <<n, q + 1>>
    BY <1>1, <1>4 DEF StreamShape
  <2>2. Len(Stream') = L + len + 1 /\ Stream'[L + len + 1] = Written'
    <3>1. closed' = FALSE /\ Len(wire') = L + len
      BY <1>2, <1>4
    <3>2. QED
      BY <1>3, <3>1 DEF StreamShape
  <2>3. ASSUME NEW m \in 1..L
        PROVE  Stream'[m] = Stream[m]
    <3>1. m \in 1..Len(wire) /\ m \in 1..Len(wire')
      BY <1>2, <1>4
    <3>2. Stream[m] = wire[m] /\ Stream'[m] = wire'[m]
      BY <1>1, <1>3, <3>1 DEF StreamShape
    <3>3. QED
      BY <1>2, <3>1, <3>2
  <2>4. ASSUME NEW j \in 1..len
        PROVE  Stream'[L + j] = <<n, q + j>>
    <3>1. L + j \in 1..Len(wire')
      BY <1>2, <1>4
    <3>2. QED
      BY <1>2, <1>3, <1>4, <3>1 DEF StreamShape
  <2>5. QED
    BY <2>1, <2>2, <2>3, <2>4
<1>6. \A m \in 1..L + 1 : Stream'[m] = Stream[m]
  <2>1. Stream'[L + 1] = <<n, q + 1>>
    <3>1. 1 \in 1..len
      OBVIOUS
    <3>2. QED
      BY <1>5, <3>1
  <2>2. Stream[L + 1] = <<n, q + 1>> /\ \A m \in 1..L : Stream'[m] = Stream[m]
    BY <1>5
  <2>3. \A m \in 1..L + 1 : m \in 1..L \/ m = L + 1
    OBVIOUS
  <2>4. QED
    BY <2>1, <2>2, <2>3
<1>7. ASSUME NEW m \in 1..Len(Stream') - 1
      PROVE  Stream'[m + 1] = After(Stream'[m])
  <2>1. CASE m \in 1..L
    <3>1. m \in 1..L + 1 /\ m + 1 \in 1..L + 1 /\ m \in 1..Len(Stream) - 1
      BY <1>5, <2>1
    <3>2. QED
      BY <1>6, <3>1 DEF IInv, Framed
  <2>2. ASSUME NEW j \in 1..len - 1, m = L + j
        PROVE  Stream'[m + 1] = After(Stream'[m])
    <3>1. j \in 1..len /\ j + 1 \in 1..len /\ m + 1 = L + (j + 1)
      BY <2>2, Between
    <3>2. Stream'[m] = <<n, q + j>> /\ Stream'[m + 1] = <<n, q + (j + 1)>>
      BY <1>5, <2>2, <3>1
    <3>3. q + j \in Nat /\ q + j < 3 + Length(n) /\ (q + j) + 1 = q + (j + 1)
      <4>1. PICK end \in Nat : end = 3 + Length(n)
        BY <1>1
      <4>2. q + len <= end
        BY <4>1
      <4>3. QED
        BY <4>1, <4>2, Between
    <3>4. After(<<n, q + j>>) = <<n, (q + j) + 1>>
      BY <3>3, AfterIs DEF IInv
    <3>5. QED
      BY <3>2, <3>3, <3>4
  <2>3. CASE m = L + len
    <3>1. len \in 1..len /\ m + 1 = L + len + 1
      BY <2>3
    <3>2. Stream'[m] = <<n, q + len>>
      BY <1>5, <2>3, <3>1
    <3>3. QED
      BY <1>5, <3>1, <3>2
  <2>4. m \in 1..L \/ m = L + len \/ \E j \in 1..len - 1 : m = L + j
    <3>1. m \in 1..L + len
      BY <1>5
    <3>2. m > L /\ m # L + len => m - L \in 1..len - 1 /\ m = L + (m - L)
      BY <3>1
    <3>3. QED
      BY <3>1, <3>2
  <2>5. QED
    BY <2>1, <2>2, <2>3, <2>4
<1>8. \A m \in 1..L + 1 : Stream[m][1] <= n /\ Stream[m][1] >= next
  <2>1. <<n, q + 1>>[1] = n
    OBVIOUS
  <2>2. Stream[L + 1][1] = n
    BY <1>5, <2>1
  <2>3. ASSUME NEW m \in 1..L + 1
        PROVE  Stream[m][1] <= Stream[L + 1][1] /\ Stream[m][1] >= next
    <3>1. m \in 1..Len(Stream) /\ L + 1 \in 1..Len(Stream) /\ m <= L + 1
      BY <1>5
    <3>2. QED
      BY <3>1 DEF IInv, Framed
  <2>4. QED
    BY <2>2, <2>3
<1>9. \A m \in L + 1..L + len : Stream'[m][1] = n
  <2>1. SUFFICES ASSUME NEW m \in L + 1..L + len
                 PROVE  Stream'[m][1] = n
    OBVIOUS
  <2>2. m - L \in 1..len /\ m = L + (m - L)
    OBVIOUS
  <2>3. PICK j \in 1..len : m = L + j
    BY <2>2
  <2>4. Stream'[m] = <<n, q + j>>
    BY <1>5, <2>3
  <2>5. QED
    BY <2>4
<1>10. Written'[1] \in Nat
  <2>1. PICK k \in Nat : k = q + len
    OBVIOUS
  <2>2. After(<<n, k>>) = IF k < 3 + Length(n) THEN <<n, k + 1>> ELSE <<n + 1, 1>>
    BY AfterIs DEF IInv
  <2>3. <<n, k + 1>>[1] = n /\ <<n + 1, 1>>[1] = n + 1
    OBVIOUS
  <2>4. Written'[1] = n \/ Written'[1] = n + 1
    BY <2>1, <2>2, <2>3
  <2>5. QED
    BY <1>1, <2>4
<1>11. n >= next
  BY <1>5, <1>6, <1>8, <1>9
<1>12. ASSUME NEW m \in 1..Len(Stream')
       PROVE  Stream'[m][1] >= next
  <2>1. CASE m \in 1..L + 1
    BY <1>6, <1>8, <2>1
  <2>2. CASE m \in L + 1..L + len
    BY <1>9, <1>11, <2>2
  <2>3. CASE m = L + len + 1
    BY <1>1, <1>5, <1>10, <1>11, <2>3
  <2>4. QED
    BY <1>5, <2>1, <2>2, <2>3
<1>13. ASSUME NEW m \in 1..Len(Stream'), NEW k \in 1..Len(Stream'), m <= k
       PROVE  Stream'[m][1] <= Stream'[k][1]
  <2>1. CASE k \in 1..L + 1
    <3>1. m \in 1..L + 1
      BY <1>13, <2>1
    <3>2. Stream[m][1] <= Stream[k][1]
      BY <1>5, <1>13, <2>1, <3>1 DEF IInv, Framed
    <3>3. QED
      BY <1>6, <2>1, <3>1, <3>2
  <2>2. CASE k \in L + 1..L + len
    <3>1. CASE m \in 1..L + 1
      <4>1. Stream'[k][1] = n
        BY <1>9, <2>2
      <4>2. Stream'[m] = Stream[m]
        BY <1>6, <3>1
      <4>3. Stream[m][1] <= n
        BY <1>8, <3>1
      <4>4. QED
        BY <4>1, <4>2, <4>3
    <3>2. CASE m \in L + 1..L + len
      BY <1>1, <1>9, <2>2, <3>2
    <3>3. QED
      BY <1>13, <2>2, <3>1, <3>2
  <2>3. CASE k = L + len + 1
    <3>1. Stream'[k][1] = Written'[1] /\ Written'[1] >= n
      BY <1>5, <2>3
    <3>2. CASE m \in 1..L + 1
      <4>1. Stream'[m][1] = Stream[m][1] /\ Stream[m][1] <= n /\ Stream[m][1] >= next
        <5>1. Stream'[m] = Stream[m]
          BY <1>6, <3>2
        <5>2. Stream[m][1] <= n /\ Stream[m][1] >= next
          BY <1>8, <3>2
        <5>3. QED
          BY <5>1, <5>2
      <4>2. Stream[m][1] \in Nat
        <5>1. CASE m \in 1..L
          <6>1. Stream[m] = wire[m] /\ m \in 1..Len(wire)
            BY <1>1, <1>4, <5>1 DEF StreamShape
          <6>2. wire[m][1] \in DOMAIN sent
            BY <6>1, WireFacts DEF IInv
          <6>3. DOMAIN sent \subseteq Nat
            BY LengthFacts DEF IInv
          <6>4. QED
            BY <6>1, <6>2, <6>3
        <5>2. CASE m = L + 1
          <6>1. Stream[m] = <<n, q + 1>>
            BY <1>5, <5>2
          <6>2. Stream[m][1] = n
            BY <6>1
          <6>3. QED
            BY <1>1, <6>2
        <5>3. QED
          BY <3>2, <5>1, <5>2
      <4>3. PICK a \in Nat, b \in Nat : a = Stream[m][1] /\ b = Written'[1]
        BY <1>10, <4>2
      <4>4. a <= n /\ n <= b
        BY <3>1, <4>1, <4>3
      <4>5. a <= b
        BY <1>1, <4>4
      <4>6. QED
        BY <3>1, <4>1, <4>3, <4>5
    <3>3. CASE m \in L + 1..L + len
      BY <1>1, <1>9, <3>1, <3>3
    <3>4. CASE m = k
      BY <1>10, <3>1, <3>4
    <3>5. QED
      BY <1>5, <1>13, <2>3, <3>2, <3>3, <3>4
  <2>4. QED
    BY <1>5, <2>1, <2>2, <2>3
<1>14. QED
  BY <1>3, <1>5, <1>6, <1>7, <1>12, <1>13, <1>1 DEF StreamShape

LEMMA WriteDone ==
  ASSUME IInv,
         UNCHANGED <<sent, closed, rpc, asked, got, total, size, status, next, lossy>>,
         Wired', Sending',
         \A m \in 1..Len(Stream') - 1 : Stream'[m + 1] = After(Stream'[m]),
         \A m \in 1..Len(Stream'), k \in 1..Len(Stream') :
                m <= k => Stream'[m][1] <= Stream'[k][1],
         \A m \in 1..Len(Stream') : Stream'[m][1] >= next,
         Stream # <<>>, Stream'[1] = Stream[1]
  PROVE  IInv'
<1>1. TypeOK'
  BY SentSame DEF IInv, TypeOK, Wired
<1>2. Framed'
  BY SentSame DEF Framed
<1>3. QED
  BY <1>1, <1>2, SentSame, ReceiverStays

LEMMA WriteKeeps ==
  ASSUME IInv, Write
  PROVE  IInv'
<1>1. /\ ~closed /\ out # <<>> /\ wire' = wire \o Head(out) /\ out' = Tail(out)
      /\ UNCHANGED <<sent, closed, rpc, asked, got, total, size, status, next, lossy>>
  BY DEF Write
<1>2. PICK n \in Nat : n = Len(sent)
  BY LengthFacts DEF IInv
<1>3. /\ n \in DOMAIN sent /\ n > 0
      /\ Length(n) \in Nat \ {0} /\ Length(n)' = Length(n)
  BY <1>1, <1>2, LengthFacts, SentSame DEF IInv, Sending
<1>4. PICK size_ \in Seq(Units), body \in Seq(Units) :
        /\ size_ = SizeUnits(n) /\ body = BodyUnits(n, Length(n))
        /\ Len(size_) = 2 /\ \A j \in 1..2 : size_[j] = <<n, j>>
        /\ Len(body) = 1 + Length(n) /\ \A j \in 1..1 + Length(n) : body[j] = <<n, 2 + j>>
  <2>1. /\ SizeUnits(n) \in Seq(Units) /\ Len(SizeUnits(n)) = 2
        /\ \A j \in 1..2 : SizeUnits(n)[j] = <<n, j>>
    <3>1. <<n, 1>> \in Units /\ <<n, 2>> \in Units
      BY <1>2, <1>3 DEF Units
    <3>2. QED
      BY <3>1 DEF SizeUnits
  <2>2. /\ BodyUnits(n, Length(n)) \in Seq(Units) /\ Len(BodyUnits(n, Length(n))) = 1 + Length(n)
        /\ \A j \in 1..1 + Length(n) : BodyUnits(n, Length(n))[j] = <<n, 2 + j>>
    <3>1. PICK len \in Nat : len = 1 + Length(n) /\ len = Length(n) + 1
      BY <1>3
    <3>2. BodyUnits(n, Length(n)) = [j \in 1..len |-> <<n, 2 + j>>]
      BY <3>1 DEF BodyUnits, SizeOfBody
    <3>3. \A j \in 1..len : <<n, 2 + j>> \in Units
      BY <1>2, <1>3 DEF Units
    <3>4. QED
      BY <3>1, <3>2, <3>3
  <2>3. QED
    BY <2>1, <2>2
<1>5. out \in {<<size_, body>>, <<body>>}
  BY <1>1, <1>2, <1>4 DEF IInv, Sending
<1>6. CASE out = <<size_, body>>
  <2>1. wire' = wire \o size_ /\ out' = <<body>> /\ out' # <<>>
    BY <1>1, <1>6
  <2>2. Written = <<n, 0 + 1>>
    <3>1. Len(out) = 2 /\ out # <<>>
      BY <1>6
    <3>2. QED
      BY <1>2, <3>1 DEF Written
  <2>3. Written' = <<n, 3>> /\ Written'[1] >= n
    <3>1. Len(out') = 1
      BY <2>1
    <3>2. Written' = <<n, 3>>
      BY <1>1, <1>2, <2>1, <3>1 DEF Written
    <3>3. QED
      BY <3>2
  <2>4. After(<<n, 0 + 2>>) = <<n, 3>>
    <3>1. After(<<n, 2>>) = IF 2 < 3 + Length(n) THEN <<n, 2 + 1>> ELSE <<n + 1, 1>>
      BY <1>3, AfterIs DEF IInv
    <3>2. QED
      BY <1>3, <3>1
  <2>5. /\ Wired'
        /\ \A m \in 1..Len(Stream') - 1 : Stream'[m + 1] = After(Stream'[m])
        /\ \A m \in 1..Len(Stream'), k \in 1..Len(Stream') :
                m <= k => Stream'[m][1] <= Stream'[k][1]
        /\ \A m \in 1..Len(Stream') : Stream'[m][1] >= next
        /\ Stream # <<>> /\ Stream'[1] = Stream[1]
    <3>1. \A j \in 1..2 : size_[j] = <<n, 0 + j>>
      BY <1>4
    <3>2. 0 \in Nat /\ 2 \in Nat \ {0} /\ 0 + 2 <= 3 + Length(n)
      BY <1>3
    <3>3. Written' = After(<<n, 0 + 2>>)
      BY <2>3, <2>4
    <3>4. QED
      BY <1>1, <1>3, <1>4, <2>1, <2>2, <2>3, <3>1, <3>2, <3>3, WritesUnits
  <2>6. Sending'
    <3>1. out' \in {<<SizeUnits(n), BodyUnits(n, Length(n))>>, <<BodyUnits(n, Length(n))>>}
      BY <1>4, <2>1
    <3>2. Len(sent') = n /\ closed' = FALSE
      BY <1>1, <1>2 DEF IInv, TypeOK
    <3>3. QED
      BY <1>3, <3>1, <3>2 DEF Sending, Length, End
  <2>7. QED
    BY <1>1, <2>5, <2>6, WriteDone
<1>7. CASE out = <<body>>
  <2>1. wire' = wire \o body /\ out' = <<>>
    BY <1>1, <1>7
  <2>2. Written = <<n, 2 + 1>>
    <3>1. Len(out) = 1 /\ out # <<>>
      BY <1>7
    <3>2. QED
      BY <1>2, <3>1 DEF Written
  <2>3. Written' = <<n + 1, 1>> /\ Written'[1] >= n
    <3>1. Written' = <<n + 1, 1>>
      BY <1>1, <1>2, <2>1 DEF Written
    <3>2. QED
      BY <1>2, <3>1
  <2>4. PICK len \in Nat \ {0} : len = 1 + Length(n) /\ 2 + len = 3 + Length(n)
    BY <1>3
  <2>5. After(<<n, 2 + len>>) = <<n + 1, 1>>
    <3>1. PICK k \in Nat : k = 2 + len
      OBVIOUS
    <3>2. After(<<n, k>>) = IF k < 3 + Length(n) THEN <<n, k + 1>> ELSE <<n + 1, 1>>
      BY <1>3, AfterIs DEF IInv
    <3>3. ~(k < 3 + Length(n))
      BY <1>3, <2>4, <3>1
    <3>4. QED
      BY <3>1, <3>2, <3>3
  <2>6. /\ Wired'
        /\ \A m \in 1..Len(Stream') - 1 : Stream'[m + 1] = After(Stream'[m])
        /\ \A m \in 1..Len(Stream'), k \in 1..Len(Stream') :
                m <= k => Stream'[m][1] <= Stream'[k][1]
        /\ \A m \in 1..Len(Stream') : Stream'[m][1] >= next
        /\ Stream # <<>> /\ Stream'[1] = Stream[1]
    <3>1. /\ Len(body) = len /\ \A j \in 1..len : body[j] = <<n, 2 + j>>
          /\ 2 \in Nat /\ 2 + len <= 3 + Length(n)
      BY <1>3, <1>4, <2>4
    <3>2. Written' = After(<<n, 2 + len>>)
      BY <2>3, <2>5
    <3>3. QED
      BY <1>1, <1>3, <1>4, <2>1, <2>2, <2>3, <3>1, <3>2, WritesUnits
  <2>7. Sending'
    BY <2>1 DEF Sending
  <2>8. QED
    BY <1>1, <2>6, <2>7, WriteDone
<1>8. QED
  BY <1>5, <1>6, <1>7

-----------------------------------------------------------------------------
\* The theorems.

LEMMA InitIInv == Init => IInv
<1> SUFFICES ASSUME Init
             PROVE  IInv
  OBVIOUS
<1>1. /\ sent = <<>> /\ out = <<>> /\ wire = <<>> /\ closed = FALSE /\ rpc = "idle"
      /\ asked = 0 /\ got = <<>> /\ total = 0 /\ size = 0 /\ status = "idle" /\ next = 1
      /\ lossy = FALSE
  BY DEF Init
<1>2. TypeOK
  <2>1. Len(sent) = 0 /\ sent \in Seq(Nat) /\ DOMAIN sent = {}
    BY <1>1
  <2>2. wire \in Seq(Units) /\ got \in Seq(DOMAIN sent)
    BY <1>1, EmptySeq
  <2>3. \A i \in DOMAIN sent : Length(i) \in Lengths
    BY <2>1
  <2>4. next \in 1..Len(sent) + 1
    BY <1>1, <2>1
  <2>5. /\ closed \in BOOLEAN /\ lossy \in BOOLEAN /\ rpc \in {"idle", "size", "body"}
        /\ status \in {"idle", "pending", "ok", "failed"}
        /\ asked \in Nat /\ total \in Nat /\ size \in Nat
    BY <1>1
  <2>6. QED
    BY <2>1, <2>2, <2>3, <2>4, <2>5 DEF TypeOK
<1>3. Sending /\ Received
  BY <1>1 DEF Sending, Received
<1>4. Len(Stream) = 1 /\ Stream[1] = <<1, 1>>
  <2>1. Written = <<1, 1>>
    BY <1>1 DEF Written
  <2>2. Stream = <<<<1, 1>>>>
    BY <1>1, <2>1 DEF Stream
  <2>3. QED
    BY <2>2
<1>5. Framed
  <2>1. \A m \in 1..1 : Stream[m][1] = 1
    BY <1>4
  <2>2. QED
    BY <1>1, <1>4, <2>1 DEF Framed
<1>6. InStep
  BY <1>1, <1>4 DEF InStep, Expected
<1>7. QED
  BY <1>2, <1>3, <1>5, <1>6 DEF IInv

LEMMA IInvKept == IInv /\ [Next]_vars => IInv'
<1> SUFFICES ASSUME IInv, [Next]_vars
             PROVE  IInv'
  OBVIOUS
<1>1. CASE UNCHANGED vars
  <2>1. /\ UNCHANGED <<sent, out, wire, closed>>
        /\ UNCHANGED <<rpc, asked, got, total, size, status, next, lossy>>
    BY <1>1 DEF vars
  <2>2. Stream' = Stream
    BY <2>1 DEF Stream, Written
  <2>3. TypeOK'
    BY <2>1, SentSame DEF IInv, TypeOK, Units
  <2>4. Sending'
    BY <2>1, SentSame DEF IInv, Sending, SizeUnits, BodyUnits
  <2>5. Framed'
    BY <2>1, <2>2, SentSame DEF IInv, Framed
  <2>6. Received' /\ InStep'
    BY <2>1, <2>2, SentSame DEF IInv, Received, InStep, Knows, Expected
  <2>7. QED
    BY <2>3, <2>4, <2>5, <2>6 DEF IInv
<1>2. ASSUME NEW n \in Lengths, Send(n) \/ Ask(n)
      PROVE  IInv'
  BY <1>2, SendKeeps, AskKeeps
<1>3. CASE Write \/ Break \/ Receive
  BY <1>3, WriteKeeps, BreakKeeps, ReadSizeKeeps, ReadBodyKeeps DEF Receive
<1>4. QED
  BY <1>1, <1>2, <1>3 DEF Next

\* The inductive invariant holds throughout: what is read is always a piece of what was
\* sent, and a receiver that has not failed knows which, wherever reads stop short.
THEOREM Invariance == Spec => []IInv
  BY InitIInv, IInvKept, PTL DEF Spec

\* The last frame of a receive completes it: a Deliver.
LEMMA BodyDelivers ==
  ASSUME IInv, ReadBody, rpc' = "idle", status' = "ok"
  PROVE  Promise!Next
<1>1. rpc = "body" /\ UNCHANGED <<sent, out, closed, asked>> /\ Wired /\ size \in Nat
  BY DEF ReadBody, IInv, TypeOK, Wired
<1>2. PICK k \in Readable(size), i \in DOMAIN sent :
        /\ SubSeq(wire, 1, k) = BodyUnits(i, Length(i))
        /\ Fits(i) /\ Filled(i) /\ got' = Append(got, i)
        /\ lossy' = FALSE /\ next' = i + 1
  BY <1>1 DEF ReadBody, Fails, Returns
<1>3. (Knows => i = Expected) /\ i >= next
  BY <1>1, <1>2, ReadableFacts, WholeFrame
<1>4. PICK more : more = got'
  OBVIOUS
<1>5. /\ more \in Seq(DOMAIN sent) /\ more # <<>>
      /\ \A m \in 1..Len(more) : more[m] = more[1] + m - 1
      /\ more[1] = next \/ (lossy /\ more[1] > next)
      /\ more[1] \in DOMAIN sent /\ more[1] <= i /\ Len(more) = i - more[1] + 1
      /\ total + Length(i) = End(i) - End(more[1] - 1)
      /\ total + Length(i) \in Nat
  BY <1>1, <1>2, <1>3, <1>4, GotMore
<1>6. PICK b \in DOMAIN sent : b = more[1]
  BY <1>5
<1>7. /\ DOMAIN sent = 1..Len(sent) /\ Len(sent) \in Nat /\ End(i) \in Nat
      /\ End(b - 1) \in Nat /\ asked \in Nat
  <2>1. DOMAIN sent = 1..Len(sent) /\ Len(sent) \in Nat
    BY LengthFacts DEF IInv
  <2>2. i \in 0..Len(sent) /\ b - 1 \in 0..Len(sent)
    BY <2>1
  <2>3. QED
    BY <2>1, <2>2, LengthFacts DEF IInv, TypeOK
<1>8. total + Length(i) = asked
  BY <1>2, <1>5, <1>7 DEF Fits, Filled
<1>9. End(i) = End(b - 1) + asked
  BY <1>5, <1>6, <1>7, <1>8
<1>10. got' = [m \in 1..(i - b + 1) |-> b + m - 1]
  <2>1. more = [m \in 1..Len(more) |-> more[m]]
    BY <1>5
  <2>2. QED
    BY <1>4, <1>5, <1>6, <2>1
<1>11. status = "pending" /\ i \in b..Len(sent)
  BY <1>1, <1>5, <1>6, <1>7 DEF IInv, Received
<1>12. Promise!Deliver(b, i)
  BY <1>1, <1>2, <1>5, <1>6, <1>9, <1>10, <1>11 DEF Promise!Deliver, Promise!End, End
<1>13. QED
  BY <1>11, <1>12 DEF Promise!Next

LEMMA ChannelStep == IInv /\ [Next]_vars => [Promise!Next]_(Promise!channelVars)
<1> SUFFICES ASSUME IInv, [Next]_vars
             PROVE  \/ Promise!Next
                    \/ UNCHANGED <<sent, asked, status,
                                   IF status = "ok" THEN got ELSE <<>>, next, lossy>>
  BY DEF Promise!channelVars
<1>1. CASE UNCHANGED vars
  BY <1>1 DEF vars
<1>2. ASSUME NEW n \in Lengths, Send(n)
      PROVE  Promise!Next
  <2>1. Promise!Send(n)
    BY <1>2 DEF Send, Promise!Send, Promise!End, End
  <2>2. QED
    BY <2>1 DEF Promise!Next
<1>3. ASSUME NEW n \in Lengths, Ask(n)
      PROVE  Promise!Next
  <2>1. Promise!Ask(n)
    BY <1>3 DEF Ask, Promise!Ask, IInv, Received
  <2>2. QED
    BY <2>1 DEF Promise!Next
<1>4. CASE Write \/ Break
  BY <1>4 DEF Write, Break
<1>5. ASSUME Fails, rpc # "idle", UNCHANGED <<sent, asked>>
      PROVE  Promise!Next
  <2>1. status = "pending"
    BY <1>5 DEF IInv, Received
  <2>2. Promise!Fail
    BY <1>5, <2>1 DEF Fails, Returns, Promise!Fail
  <2>3. QED
    BY <2>2 DEF Promise!Next
<1>6. CASE ReadSize
  <2>1. rpc = "size" /\ UNCHANGED <<sent, asked>>
    BY <1>6 DEF ReadSize
  <2>2. Fails \/ UNCHANGED <<got, status, next, lossy>>
    BY <1>6 DEF ReadSize
  <2>3. QED
    BY <1>5, <2>1, <2>2
<1>7. CASE ReadBody
  <2>1. rpc = "body" /\ UNCHANGED <<sent, asked>> /\ status = "pending"
    BY <1>7 DEF ReadBody, IInv, Received
  <2>2. Fails \/ Returns("ok") \/ UNCHANGED <<status, next, lossy>>
    BY <1>7 DEF ReadBody
  <2>3. CASE Returns("ok")
    BY <1>7, <2>3, BodyDelivers DEF Returns
  <2>4. QED
    BY <1>5, <2>1, <2>2, <2>3
<1>8. QED
  BY <1>1, <1>2, <1>3, <1>4, <1>6, <1>7 DEF Next, Receive

\* The secure transport implements Channel: a receive that succeeds returns whole messages
\* of exactly the length it asked for, in the order in which they were sent, whatever
\* the socket returns short and wherever the connection breaks.
THEOREM ImplementsChannel == Spec => ChannelSpec
<1>1. Init => Promise!Init
  BY DEF Init, Promise!Init
<1>2. QED
  BY <1>1, Invariance, ChannelStep, PTL DEF Spec, ChannelSpec, Promise!Spec

=============================================================================
