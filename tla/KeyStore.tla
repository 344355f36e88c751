------------------------------ MODULE KeyStore ------------------------------
(***************************************************************************)
(* The key store: the rules of src/key_store/functions.c over the directory*)
(* tree of docs/examples/c/mid_hermes/key_store_service/db.c.  One row per *)
(* (block, user) holds a read token and a write token; the directory of a  *)
(* user outlives its "w" subdirectory.  Every operation below is one call  *)
(* of the server and is atomic at this level.                              *)
(***************************************************************************)
EXTENDS HermesTypes, FiniteSets

CONSTANT Rank   \* position of a user's directory in readdir order

ASSUME RankAssumption ==
    /\ Rank \in [Users -> Nat]
    /\ \A u, v \in Users : Rank[u] = Rank[v] => u = v

VARIABLES rtok,   \* rtok[b][u]: the files under <b>/<u>/r, or None
          wtok,   \* wtok[b][u]: the files under <b>/<u>/w, or None
          dirs    \* dirs[b]: users that have a directory <b>/<u>

ksVars == <<rtok, wtok, dirs>>

KeyStoreTypeOK ==
    /\ rtok \in [Blocks -> [Users -> MaybeToken]]
    /\ wtok \in [Blocks -> [Users -> MaybeToken]]
    /\ dirs \in [Blocks -> SUBSET Users]

KeyStoreInit ==
    /\ rtok = [b \in Blocks |-> [u \in Users |-> None]]
    /\ wtok = [b \in Blocks |-> [u \in Users |-> None]]
    /\ dirs = [b \in Blocks |-> {}]

\* A token given to another user is accepted only while its owner holds one
\* of the same kind; a user may always store a token it owns.
SetRtokenAllowed(b, u, owner) == u = owner \/ rtok[b][owner] # None
SetWtokenAllowed(b, u, owner) == u = owner \/ wtok[b][owner] # None

\* Removing any token requires the caller to hold a write token.
DelAllowed(b, owner) == wtok[b][owner] # None

SetRtoken(b, u, t) ==
    /\ rtok' = [rtok EXCEPT ![b][u] = t]
    /\ dirs' = [dirs EXCEPT ![b] = @ \cup {u}]
    /\ UNCHANGED wtok

SetWtoken(b, u, t) ==
    /\ wtok' = [wtok EXCEPT ![b][u] = t]
    /\ dirs' = [dirs EXCEPT ![b] = @ \cup {u}]
    /\ UNCHANGED rtok

\* Mutant: the path is built without "w", and the user's directory goes
\* while its read token is thought to stay.
DelWtokenWholeDir(b, u) ==
    /\ wtok' = [wtok EXCEPT ![b][u] = None]
    /\ dirs' = [dirs EXCEPT ![b] = @ \ {u}]
    /\ UNCHANGED rtok

\* Removing the read token removes the user's directory, write token included.
DelRtoken(b, u) ==
    /\ rtok' = [rtok EXCEPT ![b][u] = None]
    /\ wtok' = [wtok EXCEPT ![b][u] = None]
    /\ dirs' = [dirs EXCEPT ![b] = @ \ {u}]

DelWtoken(b, u) ==
    /\ wtok' = [wtok EXCEPT ![b][u] = None]
    /\ UNCHANGED <<rtok, dirs>>

\* get_indexed_rights: the users (one, or none past the end) whose directory
\* is the i-th that readdir returns.
IndexedRights(b, i) ==
    {u \in dirs[b] : Cardinality({v \in dirs[b] : Rank[v] < Rank[u]}) = i}
=============================================================================
