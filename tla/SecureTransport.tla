--------------------------- MODULE SecureTransport ---------------------------
(***************************************************************************)
(* One direction of an established secure transport                        *)
(* (secure_transport/transport.c and utils.c) over the TCP transport of the*)
(* examples (docs/examples/c/mid_hermes/common/transport.c).               *)
(*                                                                         *)
(* A message goes out as a frame: its size, in two units that stand for    *)
(* the four bytes, and a body longer than the message, since Themis wraps  *)
(* it.  The transport reads a socket once per receive and takes what is    *)
(* there: a unit <<i, k>> is the k-th of frame i, and a read may return any*)
(* number of those that have arrived.                                      *)
(***************************************************************************)
EXTENDS Integers, Sequences

CONSTANTS Lengths,    \* lengths of messages and of receives
          MaxSends,   \* bound: messages sent
          HmFail,     \* the size that read_data_size cannot tell from HM_FAIL
          Garbage     \* bound: what a uint32_t may hold that was not read whole, or
                      \* not from a size

ASSUME SecureTransportAssumption ==
    /\ Lengths \subseteq Nat \ {0} /\ Lengths # {}
    /\ MaxSends \in Nat
    /\ HmFail \in Nat
    /\ Garbage \subseteq Nat

VARIABLES sent,     \* sent[i]: the bytes sent up to the end of message i
          out,      \* the writes that the sender still has to do
          wire,     \* units written and not yet read
          closed,   \* the connection is closed or broken for the receiver
          rpc,      \* where the receiver is: "idle", "size" or "body"
          asked,    \* buffer_length of the receive
          got,      \* the messages in its buffer
          total,    \* total_read: the bytes of those
          size,     \* temp_buffer_size
          status,   \* what the last receive returned
          next,     \* History: the first message after those received
          lossy     \* History: the receive before failed

vars == <<sent, out, wire, closed, rpc, asked, got, total, size, status, next, lossy>>

End(i) == IF i = 0 THEN 0 ELSE sent[i]
Length(i) == End(i) - End(i - 1)

SizeOfBody(n) == n + 1
SizeUnits(i) == <<<<i, 1>>, <<i, 2>>>>
BodyUnits(i, n) == [k \in 1..SizeOfBody(n) |-> <<i, 2 + k>>]

Init ==
    /\ sent = <<>> /\ out = <<>> /\ wire = <<>> /\ closed = FALSE
    /\ rpc = "idle" /\ asked = 0 /\ got = <<>> /\ total = 0 /\ size = 0
    /\ status = "idle" /\ next = 1 /\ lossy = FALSE

-----------------------------------------------------------------------------
\* The sender: hermes_transport_send, send_data

Send(n) ==
    /\ ~closed /\ out = <<>> /\ Len(sent) < MaxSends
    /\ sent' = Append(sent, End(Len(sent)) + n)
    /\ out' = <<SizeUnits(Len(sent) + 1), BodyUnits(Len(sent) + 1, n)>>
    /\ UNCHANGED <<wire, closed, rpc, asked, got, total, size, status, next, lossy>>

\* transport_send: the whole buffer is written, or it fails.
Write ==
    /\ ~closed /\ out # <<>>
    /\ wire' = wire \o Head(out)
    /\ out' = Tail(out)
    /\ UNCHANGED <<sent, closed, rpc, asked, got, total, size, status, next, lossy>>

\* The connection ends; what was in flight is lost from some unit on.
Break ==
    /\ ~closed
    /\ closed' = TRUE /\ out' = <<>>
    /\ \E m \in 0..Len(wire) : wire' = SubSeq(wire, 1, m)
    /\ UNCHANGED <<sent, rpc, asked, got, total, size, status, next, lossy>>

-----------------------------------------------------------------------------
\* The receiver: hermes_transport_receive

Ask(n) ==
    /\ rpc = "idle"
    /\ rpc' = "size" /\ asked' = n /\ got' = <<>> /\ total' = 0
    /\ status' = "pending"
    /\ UNCHANGED <<sent, out, wire, closed, size, next, lossy>>

\* The numbers of units that one read of up to n of them may return: none at the
\* end of the stream; it waits while there is nothing to read.
Readable(n) ==
    IF wire # <<>> THEN 1..(IF n < Len(wire) THEN n ELSE Len(wire))
    ELSE IF closed THEN {0} ELSE {}

Returns(s) ==
    /\ rpc' = "idle" /\ size' = 0
    /\ status' = s
    /\ lossy' = (s = "failed")

Fails ==
    /\ Returns("failed") /\ got' = <<>> /\ total' = 0
    /\ UNCHANGED next

\* read_data_size: the end of the stream and a part of a size are no failure, they
\* leave a number in data_size that nobody sent.  A frame may have the size that
\* says HM_FAIL.  A size that is none may be too large for malloc.
ReadSize ==
    /\ rpc = "size"
    /\ UNCHANGED <<sent, out, closed, asked>>
    /\ \/ \E k \in Readable(2) :
            LET chunk == SubSeq(wire, 1, k)
                real == {SizeOfBody(Length(i)) : i \in {j \in DOMAIN sent : chunk = SizeUnits(j)}} IN
            /\ wire' = SubSeq(wire, k + 1, Len(wire))
            /\ \E n \in IF real = {} THEN Garbage ELSE real :
                \/ /\ n = HmFail \/ real = {}
                   /\ Fails
                \/ /\ n # HmFail
                   /\ rpc' = "body" /\ size' = n
                   /\ UNCHANGED <<got, total, status, next, lossy>>
       \/ /\ closed /\ wire = <<>>
          /\ Fails
          /\ UNCHANGED wire

\* Mutant: the loop goes on while total_read <= buffer_length.
FilledOneMore(i) == total + Length(i) > asked

\* The loop of hermes_transport_receive ends with message i.
Filled(i) == total + Length(i) >= asked

\* Mutant: the message is not compared with the room that is left.
FitsAlways(i) == TRUE

Fits(i) == total + Length(i) <= asked

\* read_data and secure_session_unwrap: Themis opens nothing but a whole frame, and
\* may refuse one that follows a frame it has not seen.
ReadBody ==
    /\ rpc = "body"
    /\ UNCHANGED <<sent, out, closed, asked>>
    /\ \/ /\ size = 0 \/ (closed /\ wire = <<>>)
          /\ Fails
          /\ UNCHANGED wire
       \/ /\ size # 0
          /\ \E k \in Readable(size) :
            LET chunk == SubSeq(wire, 1, k)
                whole == {i \in DOMAIN sent : k = size /\ chunk = BodyUnits(i, Length(i))} IN
            /\ wire' = SubSeq(wire, k + 1, Len(wire))
            /\ \/ /\ whole = {} \/ lossy
                  /\ Fails
               \/ \E i \in whole :
                    \/ ~Fits(i) /\ Fails
                    \/ /\ Fits(i)
                       /\ got' = Append(got, i) /\ total' = total + Length(i)
                       /\ \/ /\ Filled(i)
                             /\ Returns("ok") /\ next' = i + 1
                          \/ /\ ~Filled(i)
                             /\ rpc' = "size" /\ size' = 0
                             /\ UNCHANGED <<status, next, lossy>>

-----------------------------------------------------------------------------

Receive == ReadSize \/ ReadBody

Next ==
    \/ \E n \in Lengths : Send(n) \/ Ask(n)
    \/ Write \/ Break \/ Receive

Spec == Init /\ [][Next]_vars

\* Both ends run; nobody has to send, to ask or to break the connection.
FairSpec == Spec /\ WF_vars(Write) /\ WF_vars(Receive)

-----------------------------------------------------------------------------
\* Properties

\* Whatever the socket returns short and wherever the connection breaks, frames
\* that are cut, and sizes that nobody sent, never get into a message: the secure
\* transport keeps what Channel promises.
Promise == INSTANCE Channel WITH
    got <- IF status = "ok" THEN got ELSE <<>>
ChannelSpec == Promise!Spec

\* A receive returns once as much as it asks for has been sent, or the connection
\* has ended, unless the receive before it failed: only then may it wait for bytes
\* that it has itself taken for something else.
ReceiveReturns ==
    (status = "pending" /\ ~lossy
        /\ (closed \/ End(Len(sent)) >= End(next - 1) + asked))
    ~> (status # "pending")
=============================================================================
