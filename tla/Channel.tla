------------------------------- MODULE Channel -------------------------------
(***************************************************************************)
(* What one direction of a connection promises to hm_rpc_client_sync_call  *)
(* and hm_rpc_server_call, which send a message at a time and receive by   *)
(* length: a receive that succeeds gets exactly the length it asked for,   *)
(* out of whole messages, in the order in which they were sent and none of *)
(* them twice.  Messages are passed over after a receive that failed only. *)
(***************************************************************************)
EXTENDS Naturals, Sequences

CONSTANT Lengths       \* of the messages that are sent and asked for

VARIABLES sent,        \* sent[i]: the bytes sent up to the end of message i
          asked,       \* the length that the current or last receive asks for
          status,      \* "idle", "pending", "ok" or "failed"
          got,         \* the messages, by number, that the last receive returned
          next,        \* the first message after those received
          lossy        \* the receive before failed

channelVars == <<sent, asked, status, got, next, lossy>>

End(i) == IF i = 0 THEN 0 ELSE sent[i]

Init ==
    /\ sent = <<>> /\ asked = 0 /\ status = "idle" /\ got = <<>>
    /\ next = 1 /\ lossy = FALSE

Send(n) ==
    /\ sent' = Append(sent, End(Len(sent)) + n)
    /\ UNCHANGED <<asked, status, got, next, lossy>>

Ask(n) ==
    /\ status # "pending"
    /\ asked' = n /\ status' = "pending" /\ got' = <<>>
    /\ UNCHANGED <<sent, next, lossy>>

Deliver(i, j) ==
    /\ status = "pending"
    /\ i = next \/ (lossy /\ i > next)
    /\ End(j) = End(i - 1) + asked
    /\ status' = "ok" /\ got' = [m \in 1..(j - i + 1) |-> i + m - 1]
    /\ next' = j + 1 /\ lossy' = FALSE
    /\ UNCHANGED <<sent, asked>>

Fail ==
    /\ status = "pending"
    /\ status' = "failed" /\ lossy' = TRUE
    /\ UNCHANGED <<sent, asked, got, next>>

Next ==
    \/ \E n \in Lengths : Send(n) \/ Ask(n)
    \/ \E i \in DOMAIN sent : \E j \in i..Len(sent) : Deliver(i, j)
    \/ Fail

Spec == Init /\ [][Next]_channelVars
=============================================================================
