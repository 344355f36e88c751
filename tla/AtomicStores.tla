---------------------------- MODULE AtomicStores ----------------------------
(***************************************************************************)
(* What the example services promise the clients of their stores, each     *)
(* thread serving a connection of its own over files that nothing locks:   *)
(* a request that no writer of what it touches overlaps is answered as if  *)
(* it were alone, and an item is damaged only when two writers overlap on  *)
(* it or the service dies while it is written.  The next complete write    *)
(* repairs it.                                                             *)
(***************************************************************************)
EXTENDS StoreRequests

CONSTANTS Threads, Requests, NoRequest

VARIABLES cell,      \* cell[i]: the value of an item, Absent or Torn
          call,      \* call[t]: the request t works on, or NoRequest
          writing,   \* threads whose request was permitted and writes
          clash,     \* threads whose request a writer has overlapped
          answer     \* answer[t]: what t last answered

storeVars == <<cell, call, writing, clash, answer>>

\* u replaces something the request of t reads or replaces.
Disturbs(u, t) ==
    u # t /\ Writes(call[u]) \cap (Reads(call[t]) \cup Writes(call[t])) # {}

Init ==
    /\ cell \in [Items -> Values \cup Users \cup {Absent}]
    /\ call = [t \in Threads |-> NoRequest]
    /\ writing = {} /\ clash = {}
    /\ answer = [t \in Threads |-> "none"]

Busy == {t \in Threads : call[t] # NoRequest}

\* A request arrives; a writer at work may disturb it from its first read on.
Call(t, r) ==
    /\ call[t] = NoRequest
    /\ call' = [call EXCEPT ![t] = r]
    /\ answer' = [answer EXCEPT ![t] = "none"]
    /\ clash' = clash \cup {u \in {t} : \E v \in writing : Disturbs(v, u)'}
    /\ UNCHANGED <<cell, writing>>

\* A request that writes is permitted, by what it has read.
Permit(t) ==
    /\ t \in Busy \ writing /\ Writes(call[t]) # {}
    /\ \/ t \in clash
       \/ Allowed(call[t], cell)
       \/ \E i \in Reads(call[t]) : cell[i] = Torn
    /\ writing' = writing \cup {t}
    /\ clash' = clash \cup {u \in Busy : Disturbs(t, u)}
                      \cup {u \in {t} : \E v \in writing : Disturbs(v, t)}
    /\ cell' = [i \in Items |->
            IF \E u \in writing : i \in Writes(call[u]) \cap Writes(call[t])
            THEN Torn ELSE cell[i]]
    /\ UNCHANGED <<call, answer>>

\* t answers; what an undisturbed request answers is the truth.
Answers(t, a) ==
    /\ call' = [call EXCEPT ![t] = NoRequest]
    /\ answer' = [answer EXCEPT ![t] = IF t \in clash THEN "unknown" ELSE a]
    /\ writing' = writing \ {t}
    /\ clash' = clash \ {t}

Refuse(t) ==
    /\ t \in Busy \ writing /\ Writes(call[t]) # {}
    /\ \/ t \in clash
       \/ ~Allowed(call[t], cell)
       \/ \E i \in Reads(call[t]) : cell[i] = Torn
    /\ Answers(t, "fail")
    /\ UNCHANGED cell

\* A writer leaves its value.  One that was disturbed may leave what it has not
\* shared as it was, although it answers that it is done.
Complete(t) ==
    /\ t \in writing
    /\ Answers(t, "ok")

    /\ \A i \in Items :
        IF i \in Writes(call[t]) /\ t \notin clash THEN cell'[i] = Leaves(call[t])
        ELSE \/ cell'[i] = cell[i]
             \/ i \in Writes(call[t]) /\ cell[i] # Torn /\ cell'[i] = Leaves(call[t])

Get(t) ==
    /\ t \in Busy /\ Writes(call[t]) = {}
    /\ \E i \in Reads(call[t]) :
        \/ cell[i] # Torn /\ Answers(t, IF cell[i] = Absent THEN "fail" ELSE cell[i])
        \/ cell[i] = Torn /\ \E a \in {"fail", "torn"} \cup Values \cup Users : Answers(t, a)
    /\ UNCHANGED cell

\* The service dies: nobody is answered.
Crash ==
    /\ call' = [t \in Threads |-> NoRequest]
    /\ answer' = [t \in Threads |-> "none"]
    /\ writing' = {} /\ clash' = {}
    /\ cell' = [i \in Items |->
            IF \E t \in writing : i \in Writes(call[t]) THEN Torn ELSE cell[i]]

Next ==
    \/ \E t \in Threads :
        \/ \E r \in Requests : Call(t, r)
        \/ Permit(t) \/ Refuse(t) \/ Complete(t) \/ Get(t)
    \/ Crash

Spec == Init /\ [][Next]_storeVars
=============================================================================
