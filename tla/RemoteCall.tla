----------------------------- MODULE RemoteCall -----------------------------
(***************************************************************************)
(* What a synchronous remote call promises a Hermes client: one call at a  *)
(* time; the function runs at most once; an answer is that of this call    *)
(* and comes after it has run; a failure says nothing, and the function    *)
(* may still run later.  MidHermes takes its remote calls to be like this. *)
(***************************************************************************)
EXTENDS Naturals

CONSTANT MaxCalls   \* bound: calls a client makes

VARIABLES n,        \* calls made so far
          done,     \* what running a call came to: "no", "ok" or "error"
          outcome   \* what the caller was told: "none", "ok", "error", "failed"

remoteVars == <<n, done, outcome>>

Init ==
    /\ n = 0
    /\ done = [i \in 1..MaxCalls |-> "no"]
    /\ outcome = [i \in 1..MaxCalls |-> "none"]

Issue ==
    /\ n < MaxCalls
    /\ n > 0 => outcome[n] # "none"
    /\ n' = n + 1
    /\ UNCHANGED <<done, outcome>>

\* The call in progress runs, or one that has been reported as failed.
Execute(i, r) ==
    /\ i <= n /\ done[i] = "no" /\ outcome[i] \in {"none", "failed"}
    /\ done' = [done EXCEPT ![i] = r]
    /\ UNCHANGED <<n, outcome>>

Answer ==
    /\ n > 0 /\ outcome[n] = "none" /\ done[n] # "no"
    /\ outcome' = [outcome EXCEPT ![n] = done[n]]
    /\ UNCHANGED <<n, done>>

Fail ==
    /\ n > 0 /\ outcome[n] = "none"
    /\ outcome' = [outcome EXCEPT ![n] = "failed"]
    /\ UNCHANGED <<n, done>>

Next ==
    \/ Issue \/ Answer \/ Fail
    \/ \E i \in 1..MaxCalls, r \in {"ok", "error"} : Execute(i, r)

Spec == Init /\ [][Next]_remoteVars
=============================================================================
