---------------------------- MODULE MCStoreFiles ----------------------------
(***************************************************************************)
(* Instances of StoreFiles for TLC: requests to the data store, and two    *)
(* mixes of requests to the key store where u1 holds both tokens at first. *)
(***************************************************************************)
EXTENDS StoreFiles, TLC

CONSTANTS u1, u2

MCInitial == (TokenItem(u1, "r") :> u1) @@ (TokenItem(u1, "w") :> u1)

DataRequests ==
    {GetBlock} \cup {InsertBlock(v) : v \in Values}
        \cup {SetBlock(v, old) : v \in Values, old \in Values \cup {Absent}}
        \cup {RemBlock(old) : old \in Values}

\* The read token of u2 is given, replaced, read and taken; its own update
\* stores it again.
ReadTokenRequests ==
    {SetToken(u2, "r", u1), SetToken(u2, "r", u2), GetToken(u2, "r"),
     DelToken(u2, "r", u1)}

\* Both tokens of u2 are given and taken by two requests.
DenyRequests ==
    {SetToken(u2, "r", u1), SetToken(u2, "w", u1), DelToken(u2, "w", u1),
     DelToken(u2, "r", u1)}

\* The one that gives a token gives up its own meanwhile.
GrantorRequests ==
    {SetToken(u2, "r", u1), DelToken(u1, "r", u1), GetToken(u1, "r")}

MCWorkloads == {DataRequests, ReadTokenRequests, DenyRequests, GrantorRequests}

MCSymmetry == Permutations(Threads) \cup Permutations(Values)
=============================================================================
